------------------------- MODULE StateClientProofs -------------------------
(***************************************************************************)
(* Proofs about StateClient, for any keys, versions, holders and troubles:  *)
(*   - the connection stays in order, and channels and entries agree;       *)
(*   - client and server agree on the open channels;                        *)
(*   - a snapshot that never decodes is not asked for over and over;        *)
(*   - on a connection at rest what is shown is the current state.          *)
(***************************************************************************)
EXTENDS StateClient, FiniteSetTheorems, TLAPS

\* What travels on a connection.
Messages ==
    [t: {"sub"}, id: Ids, key: Keys] \cup [t: {"unsub", "resnap"}, id: Ids, key: {None}]
        \cup [t: {"open", "ping"}, id: {0}, key: {None}]
Ends == {"subend", "suberr"}
Frames ==
    [t: {"snap"}, id: Ids, seq: Nat, version: Versions] \cup [t: Ends, id: Ids, seq: {0}, version: {0}]
        \cup [t: {"ready"}, id: {0}, seq: {0}, version: Nat]
        \cup [t: {"differs", "reject", "garbage", "pong"}, id: {0}, seq: {0}, version: {0}]

\* The state is well formed, and what is on its way too.
WellFormed ==
    /\ TypeOK
    /\ up \in Seq(Messages) /\ down \in Seq(Frames)
    /\ sent \in [Ids -> Nat] /\ sentVersion \in [Ids -> Versions] /\ forced \in [Ids -> BOOLEAN]
    /\ serverInstance \in Nat /\ dialect \in Dialects /\ faults \in Nat /\ acts \in Nat
    /\ \A n \in DOMAIN down : down[n].t = "ready" => down[n].version <= serverInstance

\* The phases of a connection: without a socket nothing is left of one, and before
\* its ready it has no channels.  A ready is the first frame of a connection.
Nothing == \A i \in Ids : subscribed[i] = None /\ sent[i] = 0 /\ sentVersion[i] = 0 /\ ~forced[i]
Phases ==
    /\ OneWayForward
    /\ timer => started /\ allowed /\ sock = "none"
    /\ sock # "closing"
    /\ sock = "none" => peer = "none" /\ up = <<>> /\ down = <<>>
    /\ sock = "connecting" => up = <<>> /\ down = <<>> /\ peer # "serving"
    /\ ready => sock = "open" /\ peer # "handshake"
    /\ awaiting => pinging
    /\ pinging => ready
    /\ ~ready =>
          /\ Nothing
          /\ \A n \in DOMAIN up : n = 1 /\ up[n].t = "open"
          /\ \A n \in DOMAIN down : down[n].t \notin Ends \cup {"snap"}
          /\ sock # "none" => nextId = 1 /\ \A k \in Keys : chan[k] = 0
    /\ peer = "handshake" =>
          /\ up # <<>> => down = <<>>
          /\ \A n \in DOMAIN down : down[n].t # "ready"
    /\ \A n \in DOMAIN down : down[n].t = "ready" => n = 1 /\ ~ready

\* The client's own book-keeping
Wired ==
    /\ ChannelsAgree /\ NothingForgotten
    /\ \A i \in Ids : owner[i] # None => i < nextId
    /\ \A k \in Keys : chan[k] # 0 => holders[k] > 0

\* What is on its way about channel i
Sub(n, i) == up[n].t = "sub" /\ up[n].id = i
Unsub(n, i) == up[n].t = "unsub" /\ up[n].id = i
Ended(i) == \E n \in DOMAIN down : down[n].t \in Ends /\ down[n].id = i
Subbed(i) == \E n \in DOMAIN up : Sub(n, i)

\* A channel between the client and a server that serves it
New(i) == subscribed[i] = None /\ sent[i] = 0 /\ sentVersion[i] = 0 /\ ~forced[i] /\ ~Ended(i)
Channel(i) ==
    /\ i >= nextId => New(i) /\ \A n \in DOMAIN up : up[n].id # i
    /\ \A m, n \in DOMAIN up : Sub(m, i) /\ Sub(n, i) => m = n
    /\ Subbed(i) => New(i)
    /\ subscribed[i] # None => ~Ended(i)
    /\ owner[i] # None =>
          /\ \A n \in DOMAIN up : ~Unsub(n, i) /\ (Sub(n, i) => up[n].key = owner[i])
          /\ subscribed[i] \in {None, owner[i]}
          /\ subscribed[i] = None => Subbed(i) \/ Ended(i) \/ i \in dropped
    /\ owner[i] = None =>
          /\ subscribed[i] # None => \E n \in DOMAIN up : Unsub(n, i)
          /\ \A m \in DOMAIN up : Sub(m, i) => \E n \in DOMAIN up : m < n /\ Unsub(n, i)
Served == peer = "serving" => \A i \in Ids : Channel(i)

\* The snapshots of a channel on their way carry versions in order.
Snap(n, i) == down[n].t = "snap" /\ down[n].id = i
InOrder(i) ==
    /\ \A m, n \in DOMAIN down : Snap(m, i) /\ Snap(n, i) /\ m < n => down[m].version <= down[n].version
    /\ \A n \in DOMAIN down : Snap(n, i) => down[n].version <= sentVersion[i]
    /\ \A k \in Keys : subscribed[i] = k => sentVersion[i] <= version[k]

\* The undecodable versions before version n
Bad(n) == Cardinality(Undecodable \cap 0 .. n - 1)
Asks(s, i) == {n \in DOMAIN s : s[n].t = "resnap" /\ s[n].id = i}
Asked(i) == Cardinality(Asks(up, i))
\* What the next snapshot, of version v, may have been preceded by
Budget(i, v) == IF owner[i] # None /\ ~used[owner[i]] THEN Bad(v) ELSE Bad(v + 1)
Load(i) == (IF sent[i] = 0 THEN 1 ELSE sent[i]) + (IF forced[i] THEN 1 ELSE 0) + Asked(i)
Coming(i) == {sentVersion[i]} \cup {down[n].version : n \in {m \in DOMAIN down : Snap(m, i)}}
Bounded(i) == \A v \in Coming(i) : Load(i) <= 1 + sentVersion[i] + Budget(i, v) + 2 * acts
Metered ==
    /\ peer = "serving" => \A i \in Ids : InOrder(i) /\ Bounded(i)
    /\ NoResnapStorm

\* What a channel was sent is on its way, or was taken for news: the last snapshot
\* is displayed, or is still to come with a number its entry has not seen.
Displays(k, v) == IF v \in Undecodable THEN view[k] = "error" ELSE view[k] = "ready" /\ shown[k] = v
Numbered(i) ==
    /\ \A n \in DOMAIN down : Snap(n, i) => down[n].seq \in 1 .. sent[i]
    /\ \A m, n \in DOMAIN down : Snap(m, i) /\ Snap(n, i) /\ m < n => down[m].seq < down[n].seq
    /\ \A n \in DOMAIN down : Snap(n, i) /\ down[n].seq = sent[i] => down[n].version = sentVersion[i]
Heard(i, k) ==
    /\ seq[k] <= sent[i]
    /\ \A n \in DOMAIN down : Snap(n, i) => seq[k] < down[n].seq
    /\ seq[k] = sent[i] /\ sent[i] # 0 => Displays(k, sentVersion[i])
    /\ seq[k] # sent[i] => \E n \in DOMAIN down : Snap(n, i) /\ down[n].seq = sent[i]
Informed(i) == Numbered(i) /\ \A k \in Keys : owner[i] = k => Heard(i, k)
Told == peer = "serving" => \A i \in Ids : Informed(i)

-----------------------------------------------------------------------------
\* Queues: r is s with m behind it, or without its head.
Pushed(s, m, r) ==
    /\ Len(s) \in Nat /\ DOMAIN s = 1 .. Len(s) /\ DOMAIN r = 1 .. Len(s) + 1
    /\ \A n \in 1 .. Len(s) : r[n] = s[n]
    /\ r[Len(s) + 1] = m
Popped(s, r) ==
    /\ Len(s) \in Nat \ {0} /\ DOMAIN s = 1 .. Len(s) /\ DOMAIN r = 1 .. Len(s) - 1
    /\ \A n \in 1 .. Len(s) - 1 : r[n] = s[n + 1]

LEMMA Pushing ==
    ASSUME NEW S, NEW s \in Seq(S), NEW m \in S
    PROVE  /\ Append(s, m) \in Seq(S) /\ Pushed(s, m, Append(s, m))
           /\ s \o <<m>> \in Seq(S) /\ Pushed(s, m, s \o <<m>>)
<1>1. Append(s, m) \in Seq(S) /\ Pushed(s, m, Append(s, m))
  BY DEF Pushed
<1>2. s \o <<m>> \in Seq(S) /\ Pushed(s, m, s \o <<m>>)
  BY DEF Pushed
<1> QED BY <1>1, <1>2

LEMMA Popping ==
    ASSUME NEW S, NEW s \in Seq(S), s # <<>>
    PROVE  /\ Tail(s) \in Seq(S) /\ Popped(s, Tail(s))
           /\ Head(s) = s[1] /\ s[1] \in S /\ 1 \in DOMAIN s
BY DEF Popped

LEMMA Concatenating ==
    ASSUME NEW S, NEW s \in Seq(S), NEW c \in Nat, NEW x \in [1 .. c -> S]
    PROVE  /\ s \o x \in Seq(S) /\ DOMAIN (s \o x) = 1 .. Len(s) + c
           /\ \A n \in 1 .. Len(s) : (s \o x)[n] = s[n]
           /\ \A n \in 1 .. c : (s \o x)[Len(s) + n] = x[n]
           /\ Len(s) \in Nat /\ DOMAIN s = 1 .. Len(s)
<1>1. x \in Seq(S) /\ Len(x) = c
  OBVIOUS
<1> QED BY <1>1

\* The same, of what the client sends and hears and of what the server replies.
LEMMA SendsOne ==
    ASSUME WellFormed, NEW m \in Messages, Sends(<<m>>)
    PROVE  /\ up' \in Seq(Messages)
           /\ IF sock = "open" /\ peer # "silent" THEN Pushed(up, m, up') ELSE up' = up
<1>1. up \in Seq(Messages)
  BY DEF WellFormed
<1>2. CASE sock = "open" /\ peer # "silent"
  <2>1. up' = up \o <<m>>
    BY <1>2 DEF Sends
  <2> QED BY <1>1, <1>2, <2>1, Pushing
<1>3. CASE ~(sock = "open" /\ peer # "silent")
  BY <1>1, <1>3 DEF Sends
<1> QED BY <1>2, <1>3

LEMMA RepliesOne ==
    ASSUME WellFormed, NEW f \in Frames, Replies(f)
    PROVE  down' \in Seq(Frames) /\ Pushed(down, f, down')
BY Pushing DEF WellFormed, Replies

LEMMA ReceivesOne ==
    ASSUME WellFormed, NEW kinds, Receives(kinds)
    PROVE  /\ down' \in Seq(Frames) /\ Popped(down, down')
           /\ Head(down) = down[1] /\ down[1] \in Frames /\ 1 \in DOMAIN down /\ down[1].t \in kinds
           /\ sock = "open" /\ peer # "silent"
<1>1. down \in Seq(Frames) /\ down # <<>> /\ down' = Tail(down) /\ Head(down).t \in kinds
  BY DEF WellFormed, Receives
<1> QED BY <1>1, Popping DEF Receives

LEMMA ServerTakesOne ==
    ASSUME WellFormed, up # <<>>, up' = Tail(up)
    PROVE  /\ up' \in Seq(Messages) /\ Popped(up, up')
           /\ Head(up) = up[1] /\ up[1] \in Messages /\ 1 \in DOMAIN up
<1>1. up \in Seq(Messages)
  BY DEF WellFormed
<1> QED BY <1>1, Popping

\* The members of a queue of messages or of frames
LEMMA Queued ==
    ASSUME WellFormed
    PROVE  /\ \A n \in DOMAIN up : up[n] \in Messages
           /\ \A n \in DOMAIN down : down[n] \in Frames
           /\ DOMAIN up = 1 .. Len(up) /\ Len(up) \in Nat
           /\ DOMAIN down = 1 .. Len(down) /\ Len(down) \in Nat
           /\ (up = <<>> <=> DOMAIN up = {}) /\ (down = <<>> <=> DOMAIN down = {})
BY DEF WellFormed

LEMMA MessagesSay ==
    /\ \A i \in Ids, k \in Keys : Message("sub", i, k) \in Messages
    /\ \A i \in Ids : Message("unsub", i, None) \in Messages /\ Message("resnap", i, None) \in Messages
    /\ Message("open", 0, None) \in Messages /\ Message("ping", 0, None) \in Messages
    /\ \A t, i, k : /\ Message(t, i, k).t = t /\ Message(t, i, k).id = i
                    /\ Message(t, i, k).key = k
    /\ \A m \in Messages :
          /\ m.t \in {"sub", "unsub", "resnap", "open", "ping"}
          /\ m.t \in {"sub", "unsub", "resnap"} => m.id \in Ids
          /\ m.t \in {"open", "ping"} => m.id = 0
          /\ m.t = "sub" => m.key \in Keys
BY DEF Message, Messages

LEMMA FramesSay ==
    /\ \A i \in Ids, n \in Nat, v \in Versions : Frame("snap", i, n, v) \in Frames
    /\ \A i \in Ids : Frame("subend", i, 0, 0) \in Frames /\ Frame("suberr", i, 0, 0) \in Frames
    /\ \A v \in Nat : Frame("ready", 0, 0, v) \in Frames
    /\ \A t \in {"differs", "reject", "garbage", "pong"} : Frame(t, 0, 0, 0) \in Frames
    /\ \A t, i, n, v : /\ Frame(t, i, n, v).t = t /\ Frame(t, i, n, v).id = i
                       /\ Frame(t, i, n, v).seq = n /\ Frame(t, i, n, v).version = v
    /\ \A f \in Frames :
          /\ f.t \in {"snap", "ready", "differs", "reject", "garbage", "pong"} \cup Ends
          /\ f.t \in Ends \cup {"snap"} => f.id \in Ids
          /\ f.t = "snap" => f.seq \in Nat /\ f.version \in Versions
          /\ f.t = "ready" => f.version \in Nat
BY DEF Frame, Frames, Ends

\* The types one by one
LEMMA Types ==
    ASSUME WellFormed
    PROVE  /\ started \in BOOLEAN /\ allowed \in BOOLEAN /\ ready \in BOOLEAN /\ timer \in BOOLEAN
           /\ pinging \in BOOLEAN /\ awaiting \in BOOLEAN
           /\ nextId \in 1 .. MaxIds + 1 /\ nextId \in Nat /\ MaxIds \in Nat
           /\ owner \in [Ids -> Keys \cup {None}] /\ chan \in [Keys -> Ids \cup {0}]
           /\ holders \in [Keys -> 0 .. MaxHolders] /\ seq \in [Keys -> Nat]
           /\ used \in [Keys -> BOOLEAN] /\ subscribed \in [Ids -> Keys \cup {None}]
           /\ version \in [Keys -> Versions] /\ sent \in [Ids -> Nat]
           /\ sentVersion \in [Ids -> Versions] /\ forced \in [Ids -> BOOLEAN]
           /\ view \in [Keys -> {"none", "loading", "ready", "error"}]
           /\ None \notin Keys /\ Ids \subseteq Nat \ {0} /\ Versions \subseteq Nat
<1>1. TypeOK
  BY DEF WellFormed
<1>2. {started, allowed, ready, timer, pinging, awaiting} \subseteq BOOLEAN
  BY <1>1, Zenon DEF TypeOK
<1>3. /\ started \in BOOLEAN /\ allowed \in BOOLEAN /\ ready \in BOOLEAN /\ timer \in BOOLEAN
      /\ pinging \in BOOLEAN /\ awaiting \in BOOLEAN
  BY <1>2, Zenon
<1>4. None \notin Keys /\ MaxIds \in Nat /\ MaxVersion \in Nat
  BY StateClientAssumption
<1> HIDE DEF TypeOK
<1>5. nextId \in 1 .. MaxIds + 1 /\ nextId \in Nat /\ Ids \subseteq Nat \ {0} /\ Versions \subseteq Nat
  BY <1>1, <1>4 DEF TypeOK, Ids, Versions
<1>6. /\ owner \in [Ids -> Keys \cup {None}] /\ chan \in [Keys -> Ids \cup {0}]
      /\ holders \in [Keys -> 0 .. MaxHolders] /\ seq \in [Keys -> Nat]
      /\ used \in [Keys -> BOOLEAN] /\ subscribed \in [Ids -> Keys \cup {None}]
      /\ version \in [Keys -> Versions]
      /\ view \in [Keys -> {"none", "loading", "ready", "error"}]
  BY <1>1, Zenon DEF TypeOK
<1>7. sent \in [Ids -> Nat] /\ sentVersion \in [Ids -> Versions] /\ forced \in [Ids -> BOOLEAN]
  BY Zenon DEF WellFormed
<1> QED BY <1>3, <1>4, <1>5, <1>6, <1>7

\* A new channel
LEMMA Opening ==
    ASSUME WellFormed, NEW k \in Keys, OpenChannel(k)
    PROVE  /\ nextId \in Ids /\ nextId' = nextId + 1 /\ nextId' \in 1 .. MaxIds + 1
           /\ chan'[k] = nextId /\ chan' \in [Keys -> Ids \cup {0}]
           /\ \A j \in Keys \ {k} : chan'[j] = chan[j] /\ seq'[j] = seq[j] /\ used'[j] = used[j]
           /\ owner'[nextId] = k /\ owner' \in [Ids -> Keys \cup {None}]
           /\ \A i \in Ids \ {nextId} : owner'[i] = owner[i]
           /\ seq'[k] = 0 /\ seq' \in [Keys -> Nat] /\ used'[k] = FALSE /\ used' \in [Keys -> BOOLEAN]
           /\ up' \in Seq(Messages)
           /\ IF sock = "open" /\ peer # "silent" THEN Pushed(up, Message("sub", nextId, k), up')
              ELSE up' = up
<1>1. nextId \in Ids /\ nextId' = nextId + 1 /\ nextId' \in 1 .. MaxIds + 1
  BY Types DEF OpenChannel, Ids
<1>2. Message("sub", nextId, k) \in Messages
  BY <1>1, MessagesSay
<1>3. /\ chan' = [chan EXCEPT ![k] = nextId] /\ owner' = [owner EXCEPT ![nextId] = k]
      /\ seq' = [seq EXCEPT ![k] = 0] /\ used' = [used EXCEPT ![k] = FALSE]
      /\ Sends(<<Message("sub", nextId, k)>>)
  BY DEF OpenChannel
<1>4. /\ up' \in Seq(Messages)
      /\ IF sock = "open" /\ peer # "silent" THEN Pushed(up, Message("sub", nextId, k), up')
         ELSE up' = up
  BY <1>2, <1>3, SendsOne
<1> QED BY <1>1, <1>3, <1>4, Types

\* The well-formedness, conjunct by conjunct
Flags == /\ started \in BOOLEAN /\ allowed \in BOOLEAN /\ ready \in BOOLEAN
         /\ timer \in BOOLEAN /\ pinging \in BOOLEAN /\ awaiting \in BOOLEAN
Connection ==
    /\ conn \in ConnStates
    /\ sock \in {"none", "connecting", "open", "closing"}
    /\ peer \in {"none", "handshake", "serving", "gone", "silent"}
Counts == serverInstance \in Nat /\ dialect \in Dialects /\ faults \in Nat /\ acts \in Nat
Wires == up \in Seq(Messages) /\ down \in Seq(Frames)
Entries ==
    /\ nextId \in 1 .. MaxIds + 1 /\ owner \in [Ids -> Keys \cup {None}]
    /\ chan \in [Keys -> Ids \cup {0}] /\ seq \in [Keys -> Nat] /\ used \in [Keys -> BOOLEAN]
Views ==
    /\ holders \in [Keys -> 0 .. MaxHolders]
    /\ view \in [Keys -> {"none", "loading", "ready", "error"}] /\ shown \in [Keys -> Versions]
    /\ \A k \in Keys : view[k] = "none" <=> holders[k] = 0
Peers ==
    /\ subscribed \in [Ids -> Keys \cup {None}] /\ dropped \subseteq Ids /\ version \in [Keys -> Versions]
    /\ sent \in [Ids -> Nat] /\ sentVersion \in [Ids -> Versions] /\ forced \in [Ids -> BOOLEAN]
Ages ==
    /\ instance \in 0 .. serverInstance
    /\ \A n \in DOMAIN down : down[n].t = "ready" => down[n].version <= serverInstance

LEMMA Parts ==
    /\ WellFormed <=> /\ Flags /\ Connection /\ Counts /\ Wires /\ Entries /\ Views /\ Peers /\ Ages
    /\ WellFormed' <=> (/\ Flags /\ Connection /\ Counts /\ Wires /\ Entries /\ Views /\ Peers
                        /\ Ages)'
<1>1. {started, allowed, ready, timer, pinging, awaiting} \subseteq BOOLEAN <=> Flags
  BY Zenon DEF Flags
<1>2. {started', allowed', ready', timer', pinging', awaiting'} \subseteq BOOLEAN <=> Flags'
  BY Zenon DEF Flags
<1>3. TypeOK <=> /\ {started, allowed, ready, timer, pinging, awaiting} \subseteq BOOLEAN
                 /\ Connection /\ Entries /\ Views
                 /\ subscribed \in [Ids -> Keys \cup {None}] /\ dropped \subseteq Ids
                 /\ version \in [Keys -> Versions]
                 /\ instance \in 0 .. serverInstance
  BY Zenon DEF TypeOK, Connection, Entries, Views
<1>4. TypeOK' <=> /\ {started', allowed', ready', timer', pinging', awaiting'} \subseteq BOOLEAN
                  /\ Connection' /\ Entries' /\ Views'
                  /\ subscribed' \in [Ids -> Keys \cup {None}] /\ dropped' \subseteq Ids
                  /\ version' \in [Keys -> Versions]
                  /\ instance' \in 0 .. serverInstance'
  BY Zenon DEF TypeOK, Connection, Entries, Views
<1> HIDE DEF TypeOK
<1>5. WellFormed <=> /\ Flags /\ Connection /\ Counts /\ Wires /\ Entries /\ Views /\ Peers /\ Ages
  BY <1>1, <1>3, Zenon DEF WellFormed, Counts, Wires, Peers, Ages
<1>6. WellFormed' <=> (/\ Flags /\ Connection /\ Counts /\ Wires /\ Entries /\ Views /\ Peers
                       /\ Ages)'
  BY <1>2, <1>4, Zenon DEF WellFormed, Counts, Wires, Peers, Ages
<1> QED BY <1>5, <1>6

LEMMA ZeroTypes == 0 \in Versions /\ 1 \in 1 .. MaxIds + 1
BY StateClientAssumption DEF Versions

LEMMA AgesRead ==
    ASSUME WellFormed, NEW kinds, Receives(kinds), UNCHANGED serverInstance,
           instance' \in 0 .. serverInstance
    PROVE  Ages'
BY ReceivesOne, Parts DEF Ages, Popped

LEMMA AgesTold ==
    ASSUME WellFormed, NEW f \in Frames, Replies(f), UNCHANGED <<instance, serverInstance>>,
           f.t = "ready" => f.version <= serverInstance
    PROVE  Ages'
BY RepliesOne, Parts DEF Ages, Pushed

LEMMA WiresRead ==
    ASSUME WellFormed, NEW kinds, Receives(kinds),
           \/ UNCHANGED up
           \/ \E m \in Messages : Sends(<<m>>)
           \/ Sends(<<>>)
    PROVE  Wires'
<1>1. down' \in Seq(Frames)
  BY ReceivesOne
<1>2. up \in Seq(Messages)
  BY DEF WellFormed
<1>3. CASE UNCHANGED up
  BY <1>1, <1>2, <1>3 DEF Wires
<1>4. CASE \E m \in Messages : Sends(<<m>>)
  BY <1>1, <1>4, SendsOne DEF Wires
<1>5. CASE Sends(<<>>)
  BY <1>1, <1>2, <1>5 DEF Wires, Sends
<1> QED BY <1>3, <1>4, <1>5

\* The effect of a ready: held keys and the first ids go together.
LEMMA Readying ==
    ASSUME WellFormed, ReceiveReady
    PROVE  LET held == {k \in Keys : holders[k] > 0}
           IN  \E count \in Nat : \E id \in [held -> 1 .. count] :
                  /\ count <= MaxIds /\ nextId' = count + 1
                  /\ chan' = [k \in Keys |-> IF k \in held THEN id[k] ELSE 0]
                  /\ owner' \in [Ids -> Keys \cup {None}]
                  /\ \A k \in held : owner'[id[k]] = k
                  /\ \A i \in 1 .. count : owner'[i] \in held /\ id[owner'[i]] = i
                  /\ \A i \in Ids : i > count => owner'[i] = None
                  /\ Sends([i \in 1 .. count |-> Message("sub", i, owner'[i])])
<1> DEFINE held == {k \in Keys : holders[k] > 0}
           count == Cardinality(held)
<1>1. PICK id \in Bijection(held, 1 .. count) :
           /\ chan' = [k \in Keys |-> IF k \in held THEN id[k] ELSE 0]
           /\ owner' = [i \in Ids |-> IF i <= count THEN CHOOSE k \in held : id[k] = i ELSE None]
           /\ Sends([i \in 1 .. count |-> Message("sub", i, owner'[i])])
  BY DEF ReceiveReady
<1>2. nextId' = count + 1
  BY DEF ReceiveReady
<1>3. IsFiniteSet(Keys) /\ MaxIds \in Nat /\ Cardinality(Keys) <= MaxIds
  BY StateClientAssumption
<1>4. IsFiniteSet(held) /\ count <= Cardinality(Keys)
  BY <1>3, FS_Subset
<1>5. count \in Nat /\ Cardinality(Keys) \in Nat
  BY <1>3, <1>4, FS_CardinalityType
<1>6. count <= MaxIds
  BY <1>3, <1>4, <1>5
<1>7. /\ id \in [held -> 1 .. count]
      /\ \A a, b \in held : a # b => id[a] # id[b]
      /\ \A i \in 1 .. count : \E k \in held : id[k] = i
  BY <1>1 DEF Bijection, Injection, Surjection, IsInjective
<1> HIDE DEF count
<1>8. \A i \in 1 .. count : owner'[i] \in held /\ id[owner'[i]] = i
  BY <1>1, <1>3, <1>5, <1>6, <1>7 DEF Ids
<1>9. \A k \in held : owner'[id[k]] = k
  <2> SUFFICES ASSUME NEW k \in held PROVE owner'[id[k]] = k
    OBVIOUS
  <2>1. id[k] \in 1 .. count
    BY <1>7
  <2>2. owner'[id[k]] \in held /\ id[owner'[id[k]]] = id[k]
    BY <1>8, <2>1
  <2> QED BY <1>7, <2>2
<1>10. \A i \in Ids : i > count => owner'[i] = None
  BY <1>1, <1>5 DEF Ids
<1>11. owner' \in [Ids -> Keys \cup {None}]
  <2>1. \A i \in Ids : owner'[i] \in Keys \cup {None}
    BY <1>3, <1>5, <1>8, <1>10 DEF Ids
  <2> QED BY <1>1, <2>1
<1> QED BY <1>1, <1>2, <1>5, <1>6, <1>7, <1>8, <1>9, <1>10, <1>11

LEMMA ReadyFramesSay ==
    ASSUME WellFormed
    PROVE  \A n \in DOMAIN down : down[n].t = "ready" => down[n].version \in Nat
BY Queued, FramesSay

LEMMA StartTyped == ASSUME WellFormed, Start PROVE WellFormed'
<1>0. Flags /\ Connection /\ Counts /\ Wires /\ Entries /\ Views /\ Peers /\ Ages
  BY Parts
<1>1. (Flags /\ Connection /\ Counts)'
  BY <1>0
     DEF Flags, Connection, ConnStates, Counts, Start, Connect, Fault, ResetEntries,
         lifeVars, liveVars, channelVars, viewVars, peerVars, serverVars, clientVars
<1>2. (Wires /\ Views /\ Peers /\ Ages)'
  BY <1>0
     DEF Wires, Views, Peers, Ages, Start, Connect, Fault, ResetEntries, lifeVars,
         liveVars, channelVars, viewVars, peerVars, serverVars, clientVars
<1>3. Entries'
  BY <1>0, Types, ZeroTypes DEF Entries, Start, Connect, ResetEntries
<1> QED BY <1>1, <1>2, <1>3, Parts

LEMMA StopTyped == ASSUME WellFormed, Stop PROVE WellFormed'
<1>0. Flags /\ Connection /\ Counts /\ Wires /\ Entries /\ Views /\ Peers /\ Ages
  BY Parts
<1>1. (Flags)'
  BY <1>0
     DEF Flags, Stop, Disconnect, Act, ClearLiveness, lifeVars, liveVars, channelVars,
         viewVars, peerVars, serverVars, clientVars
<1>2. (Connection)'
  BY <1>0
     DEF Connection, ConnStates, Stop, Disconnect, Act, ClearLiveness, lifeVars, liveVars,
         channelVars, viewVars, peerVars, serverVars, clientVars
<1>3. (Counts)'
  BY <1>0
     DEF Counts, Stop, Disconnect, Act, ClearLiveness, lifeVars, liveVars, channelVars,
         viewVars, peerVars, serverVars, clientVars
<1>4. (Wires /\ Entries /\ Views /\ Ages)'
  BY <1>0
     DEF Wires, Entries, Views, Ages, Stop, Disconnect, Act, ClearLiveness, lifeVars,
         liveVars, channelVars, viewVars, peerVars, serverVars, clientVars
<1>5. Peers'
  BY <1>0, Types, ZeroTypes DEF Peers, Stop, Disconnect, Act, ClearLiveness, serverVars
<1> QED BY <1>1, <1>2, <1>3, <1>4, <1>5, Parts

LEMMA AcquireTyped == ASSUME WellFormed, NEW k \in Keys, Acquire(k) PROVE WellFormed'
<1>0. Flags /\ Connection /\ Counts /\ Wires /\ Entries /\ Views /\ Peers /\ Ages
  BY Parts
<1>1. (Flags /\ Connection /\ Counts)'
  BY <1>0
     DEF Flags, Connection, ConnStates, Counts, Acquire, AcquireShared, AcquireFirst,
         lifeVars, liveVars, channelVars, viewVars, peerVars, serverVars, clientVars
<1>2. (Peers /\ Ages)'
  BY <1>0
     DEF Peers, Ages, Acquire, AcquireShared, AcquireFirst, lifeVars, liveVars,
         channelVars, viewVars, peerVars, serverVars, clientVars
<1>3. Wires'
  <2>1. CASE AcquireShared(k)
    BY <1>0, <2>1 DEF Wires, AcquireShared, Acquire
  <2>2. CASE AcquireFirst(k)
    BY <1>0, <2>2, Opening DEF Wires, AcquireFirst, Acquire
  <2> QED BY <2>1, <2>2 DEF Acquire
<1>4. Entries'
  <2>1. CASE AcquireShared(k)
    BY <1>0, <2>1 DEF Entries, AcquireShared, channelVars
  <2>2. CASE AcquireFirst(k) /\ ready
    BY <1>0, <2>2, Opening DEF Entries, AcquireFirst
  <2>3. CASE AcquireFirst(k) /\ ~ready
    <3>1. UNCHANGED <<nextId, owner, chan>>
      BY <2>3 DEF AcquireFirst
    <3>2. seq' = [seq EXCEPT ![k] = 0] /\ used' = [used EXCEPT ![k] = FALSE]
      BY <2>3 DEF AcquireFirst
    <3> QED BY <1>0, <3>1, <3>2 DEF Entries
  <2> QED BY <2>1, <2>2, <2>3 DEF Acquire
<1>5. Views'
  <2>1. MaxHolders \in Nat
    BY StateClientAssumption
  <2>2. holders' = [holders EXCEPT ![k] = @ + 1] /\ holders[k] < MaxHolders
    BY DEF Acquire
  <2>3. CASE AcquireShared(k)
    BY <1>0, <2>1, <2>2, <2>3 DEF Views, AcquireShared, viewVars
  <2>4. CASE AcquireFirst(k)
    BY <1>0, <2>1, <2>2, <2>4, ZeroTypes DEF Views, AcquireFirst
  <2> QED BY <2>3, <2>4 DEF Acquire
<1> QED BY <1>1, <1>2, <1>3, <1>4, <1>5, Parts

LEMMA ReleaseTyped == ASSUME WellFormed, NEW k \in Keys, Release(k) PROVE WellFormed'
<1>0. Flags /\ Connection /\ Counts /\ Wires /\ Entries /\ Views /\ Peers /\ Ages
  BY Parts
<1>1. (Flags /\ Connection /\ Counts)'
  BY <1>0
     DEF Flags, Connection, ConnStates, Counts, Release, ReleaseClosesChannel, LastRelease,
         lifeVars, liveVars, channelVars, viewVars, peerVars, serverVars, clientVars
<1>2. (Entries /\ Peers /\ Ages)'
  BY <1>0
     DEF Entries, Peers, Ages, Release, ReleaseClosesChannel, LastRelease, lifeVars,
         liveVars, channelVars, viewVars, peerVars, serverVars, clientVars
<1>3. Wires'
  <2>1. chan[k] = 0 \/ ~LastRelease(k) => up' = up
    BY DEF Release, ReleaseClosesChannel
  <2>2. ASSUME ~(chan[k] = 0 \/ ~LastRelease(k)) PROVE up' \in Seq(Messages)
    <3>1. Sends(<<Message("unsub", chan[k], None)>>) /\ chan[k] \in Ids
      BY <2>2, Types DEF Release, ReleaseClosesChannel
    <3> QED BY <3>1, SendsOne, MessagesSay
  <2> QED BY <1>0, <2>1, <2>2 DEF Wires, Release
<1>4. Views'
  <2>1. MaxHolders \in Nat
    BY StateClientAssumption
  <2>2. holders' = [holders EXCEPT ![k] = @ - 1] /\ holders[k] > 0 /\ UNCHANGED shown
    BY DEF Release
  <2>3. view' = IF holders[k] = 1 THEN [view EXCEPT ![k] = "none"] ELSE view
    BY DEF Release, LastRelease
  <2> QED BY <1>0, <2>1, <2>2, <2>3 DEF Views
<1> QED BY <1>1, <1>2, <1>3, <1>4, Parts

LEMMA RetryTyped == ASSUME WellFormed, NEW k \in Keys, Retry(k) PROVE WellFormed'
<1>0. Flags /\ Connection /\ Counts /\ Wires /\ Entries /\ Views /\ Peers /\ Ages
  BY Parts
<1>1. (Flags /\ Connection /\ Counts)'
  BY <1>0
     DEF Flags, Connection, ConnStates, Counts, Retry, RetryWaits, RetryAsks, RetryOpens,
         Act, lifeVars, liveVars, channelVars, viewVars, peerVars, serverVars, clientVars
<1>2. (Views /\ Peers /\ Ages)'
  BY <1>0
     DEF Views, Peers, Ages, Retry, RetryWaits, RetryAsks, RetryOpens, Act, lifeVars,
         liveVars, channelVars, viewVars, peerVars, serverVars, clientVars
<1>3. Wires'
  <2>1. CASE RetryWaits(k)
    BY <1>0, <2>1 DEF Wires, RetryWaits, Retry
  <2>2. CASE RetryAsks(k)
    <3>1. Sends(<<Message("resnap", chan[k], None)>>) /\ chan[k] \in Ids
      BY <2>2, Types DEF RetryAsks
    <3> QED BY <1>0, <3>1, SendsOne, MessagesSay DEF Wires, Retry
  <2>3. CASE RetryOpens(k)
    BY <1>0, <2>3, Opening DEF Wires, RetryOpens, Retry
  <2> QED BY <2>1, <2>2, <2>3 DEF Retry
<1>4. Entries'
  <2>1. CASE RetryWaits(k)
    BY <1>0, <2>1 DEF Entries, RetryWaits
  <2>2. CASE RetryAsks(k)
    BY <1>0, <2>2 DEF Entries, RetryAsks
  <2>3. CASE RetryOpens(k)
    BY <1>0, <2>3, Opening DEF Entries, RetryOpens
  <2> QED BY <2>1, <2>2, <2>3 DEF Retry
<1> QED BY <1>1, <1>2, <1>3, <1>4, Parts

LEMMA ChangeTyped == ASSUME WellFormed, NEW k \in Keys, Change(k) PROVE WellFormed'
<1>0. Flags /\ Connection /\ Counts /\ Wires /\ Entries /\ Views /\ Peers /\ Ages
  BY Parts
<1>1. (Flags /\ Connection /\ Counts)'
  BY <1>0
     DEF Flags, Connection, ConnStates, Counts, Change, lifeVars, liveVars, channelVars,
         viewVars, peerVars, serverVars, clientVars
<1>2. (Wires /\ Entries /\ Views /\ Ages)'
  BY <1>0
     DEF Wires, Entries, Views, Ages, Change, lifeVars, liveVars, channelVars, viewVars,
         peerVars, serverVars, clientVars
<1>3. Peers'
  <2>1. version[k] + 1 \in Versions
    BY StateClientAssumption, Types DEF Versions, Change
  <2> QED BY <1>0, <2>1 DEF Peers, Change, peerVars
<1> QED BY <1>1, <1>2, <1>3, Parts

LEMMA ReconnectTyped == ASSUME WellFormed, Reconnect PROVE WellFormed'
<1>0. Flags /\ Connection /\ Counts /\ Wires /\ Entries /\ Views /\ Peers /\ Ages
  BY Parts
<1>1. (Flags /\ Connection /\ Counts)'
  BY <1>0
     DEF Flags, Connection, ConnStates, Counts, Reconnect, Connect, Fault, ResetEntries,
         lifeVars, liveVars, channelVars, viewVars, peerVars, serverVars, clientVars
<1>2. (Wires /\ Views /\ Peers /\ Ages)'
  BY <1>0
     DEF Wires, Views, Peers, Ages, Reconnect, Connect, Fault, ResetEntries, lifeVars,
         liveVars, channelVars, viewVars, peerVars, serverVars, clientVars
<1>3. Entries'
  BY <1>0, Types, ZeroTypes DEF Entries, Reconnect, Connect, ResetEntries
<1> QED BY <1>1, <1>2, <1>3, Parts

LEMMA PingTyped == ASSUME WellFormed, Ping PROVE WellFormed'
<1>0. Flags /\ Connection /\ Counts /\ Wires /\ Entries /\ Views /\ Peers /\ Ages
  BY Parts
<1>1. (Flags /\ Connection /\ Counts)'
  BY <1>0
     DEF Flags, Connection, ConnStates, Counts, Ping, lifeVars, liveVars, channelVars,
         viewVars, peerVars, serverVars, clientVars
<1>2. (Entries /\ Views /\ Peers /\ Ages)'
  BY <1>0
     DEF Entries, Views, Peers, Ages, Ping, lifeVars, liveVars, channelVars, viewVars,
         peerVars, serverVars, clientVars
<1>3. Wires'
  BY <1>0, SendsOne, MessagesSay DEF Wires, Ping
<1> QED BY <1>1, <1>2, <1>3, Parts

LEMMA PongTimeoutTyped == ASSUME WellFormed, PongTimeout PROVE WellFormed'
<1>0. Flags /\ Connection /\ Counts /\ Wires /\ Entries /\ Views /\ Peers /\ Ages
  BY Parts
<1>1. (Flags)'
  BY <1>0
     DEF Flags, PongTimeout, PongTimeoutSchedules, ScheduleReconnect, Disconnect,
         ClearLiveness, Fault, lifeVars, liveVars, channelVars, viewVars, peerVars,
         serverVars, clientVars
<1>2. (Connection)'
  BY <1>0
     DEF Connection, ConnStates, PongTimeout, PongTimeoutSchedules, ScheduleReconnect,
         Disconnect, ClearLiveness, Fault, lifeVars, liveVars, channelVars, viewVars,
         peerVars, serverVars, clientVars
<1>3. (Counts)'
  BY <1>0
     DEF Counts, PongTimeout, PongTimeoutSchedules, ScheduleReconnect, Disconnect,
         ClearLiveness, Fault, lifeVars, liveVars, channelVars, viewVars, peerVars,
         serverVars, clientVars
<1>4. (Wires /\ Entries /\ Views /\ Ages)'
  BY <1>0
     DEF Wires, Entries, Views, Ages, PongTimeout, PongTimeoutSchedules, ScheduleReconnect,
         Disconnect, ClearLiveness, Fault, lifeVars, liveVars, channelVars, viewVars,
         peerVars, serverVars, clientVars
<1>5. Peers'
  BY <1>0, Types, ZeroTypes
     DEF Peers, PongTimeout, PongTimeoutSchedules, ScheduleReconnect, Disconnect,
         ClearLiveness, Fault, serverVars
<1> QED BY <1>1, <1>2, <1>3, <1>4, <1>5, Parts

LEMMA SocketOpensTyped == ASSUME WellFormed, SocketOpens PROVE WellFormed'
<1>0. Flags /\ Connection /\ Counts /\ Wires /\ Entries /\ Views /\ Peers /\ Ages
  BY Parts
<1>1. (Flags /\ Connection /\ Counts)'
  BY <1>0
     DEF Flags, Connection, ConnStates, Counts, SocketOpens, lifeVars, liveVars,
         channelVars, viewVars, peerVars, serverVars, clientVars
<1>2. (Entries /\ Views /\ Peers /\ Ages)'
  BY <1>0
     DEF Entries, Views, Peers, Ages, SocketOpens, lifeVars, liveVars, channelVars,
         viewVars, peerVars, serverVars, clientVars
<1>3. Wires'
  BY <1>0, MessagesSay DEF Wires, SocketOpens
<1> QED BY <1>1, <1>2, <1>3, Parts

LEMMA SocketClosesTyped == ASSUME WellFormed, SocketCloses PROVE WellFormed'
<1>0. Flags /\ Connection /\ Counts /\ Wires /\ Entries /\ Views /\ Peers /\ Ages
  BY Parts
<1>1. (Flags /\ Connection /\ Counts)'
  BY <1>0
     DEF Flags, Connection, ConnStates, Counts, SocketCloses, OnClose, ScheduleReconnect,
         Disconnect, ClearLiveness, lifeVars, liveVars, channelVars, viewVars, peerVars,
         serverVars, clientVars
<1>2. (Wires /\ Entries /\ Views /\ Ages)'
  BY <1>0
     DEF Wires, Entries, Views, Ages, SocketCloses, OnClose, ScheduleReconnect, Disconnect,
         ClearLiveness, lifeVars, liveVars, channelVars, viewVars, peerVars, serverVars,
         clientVars
<1>3. Peers'
  BY <1>0, Types, ZeroTypes
     DEF Peers, SocketCloses, OnClose, ScheduleReconnect, Disconnect, ClearLiveness,
         serverVars
<1> QED BY <1>1, <1>2, <1>3, Parts

LEMMA ConnectionLostTyped == ASSUME WellFormed, ConnectionLost PROVE WellFormed'
<1>0. Flags /\ Connection /\ Counts /\ Wires /\ Entries /\ Views /\ Peers /\ Ages
  BY Parts
<1>1. (Flags)'
  BY <1>0
     DEF Flags, ConnectionLost, OnClose, ScheduleReconnect, Disconnect, ClearLiveness,
         Fault, lifeVars, liveVars, channelVars, viewVars, peerVars, serverVars, clientVars
<1>2. (Connection)'
  BY <1>0
     DEF Connection, ConnStates, ConnectionLost, OnClose, ScheduleReconnect, Disconnect,
         ClearLiveness, Fault, lifeVars, liveVars, channelVars, viewVars, peerVars,
         serverVars, clientVars
<1>3. (Counts)'
  BY <1>0
     DEF Counts, ConnectionLost, OnClose, ScheduleReconnect, Disconnect, ClearLiveness,
         Fault, lifeVars, liveVars, channelVars, viewVars, peerVars, serverVars, clientVars
<1>4. (Wires /\ Entries /\ Views /\ Ages)'
  BY <1>0
     DEF Wires, Entries, Views, Ages, ConnectionLost, OnClose, ScheduleReconnect,
         Disconnect, ClearLiveness, Fault, lifeVars, liveVars, channelVars, viewVars,
         peerVars, serverVars, clientVars
<1>5. Peers'
  BY <1>0, Types, ZeroTypes
     DEF Peers, ConnectionLost, OnClose, ScheduleReconnect, Disconnect, ClearLiveness,
         Fault, serverVars
<1> QED BY <1>1, <1>2, <1>3, <1>4, <1>5, Parts

LEMMA SocketRejectedTyped == ASSUME WellFormed, SocketRejected PROVE WellFormed'
<1>0. Flags /\ Connection /\ Counts /\ Wires /\ Entries /\ Views /\ Peers /\ Ages
  BY Parts
<1>1. (Flags /\ Connection /\ Counts)'
  BY <1>0
     DEF Flags, Connection, ConnStates, Counts, SocketRejected, Disconnect, ClearLiveness,
         lifeVars, liveVars, channelVars, viewVars, peerVars, serverVars, clientVars
<1>2. (Wires /\ Entries /\ Views /\ Ages)'
  BY <1>0
     DEF Wires, Entries, Views, Ages, SocketRejected, Disconnect, ClearLiveness, lifeVars,
         liveVars, channelVars, viewVars, peerVars, serverVars, clientVars
<1>3. Peers'
  BY <1>0, Types, ZeroTypes DEF Peers, SocketRejected, Disconnect, ClearLiveness, serverVars
<1> QED BY <1>1, <1>2, <1>3, Parts

LEMMA ReceiveReadyTyped == ASSUME WellFormed, ReceiveReady PROVE WellFormed'
<1>0. Flags /\ Connection /\ Counts /\ Wires /\ Entries /\ Views /\ Peers /\ Ages
  BY Parts
<1>1. (Flags /\ Connection /\ Counts)'
  BY <1>0
     DEF Flags, Connection, ConnStates, Counts, ReceiveReady, ResetEntries, lifeVars,
         liveVars, channelVars, viewVars, peerVars, serverVars, clientVars
<1>2. (Views /\ Peers)'
  BY <1>0
     DEF Views, Peers, ReceiveReady, ResetEntries, lifeVars, liveVars, channelVars,
         viewVars, peerVars, serverVars, clientVars
<1>3. Wires'
  <2>1. PICK count \in Nat : /\ count <= MaxIds
                             /\ \A n \in 1 .. count : owner'[n] \in Keys
                             /\ Sends([n \in 1 .. count |-> Message("sub", n, owner'[n])])
    BY Readying
  <2> DEFINE subs == [n \in 1 .. count |-> Message("sub", n, owner'[n])]
  <2>2. subs \in [1 .. count -> Messages]
    <3>1. \A n \in 1 .. count : n \in Ids
      BY <2>1, Types DEF Ids
    <3>2. \A n \in 1 .. count : owner'[n] \in Keys
      BY <2>1
    <3>3. \A n \in 1 .. count : Message("sub", n, owner'[n]) \in Messages
      BY <3>1, <3>2, MessagesSay
    <3> HIDE DEF Messages, Message
    <3> QED BY <3>3
  <2>3. up \o subs \in Seq(Messages)
    BY <1>0, <2>2, Concatenating DEF Wires
  <2>4. Sends(subs)
    BY <2>1
  <2> HIDE DEF subs
  <2>5. up' \in Seq(Messages)
    BY <1>0, <2>3, <2>4 DEF Wires, Sends
  <2> QED BY <2>5, ReceivesOne DEF Wires, ReceiveReady
<1>4. Entries'
  <2>1. /\ nextId' \in 1 .. MaxIds + 1 /\ owner' \in [Ids -> Keys \cup {None}]
        /\ chan' \in [Keys -> Ids \cup {0}]
    <3> DEFINE held == {k \in Keys : holders[k] > 0}
    <3>1. PICK count \in Nat : \E id \in [held -> 1 .. count] :
              /\ count <= MaxIds /\ nextId' = count + 1
              /\ chan' = [k \in Keys |-> IF k \in held THEN id[k] ELSE 0]
              /\ owner' \in [Ids -> Keys \cup {None}]
      BY Readying
    <3>2. nextId' \in 1 .. MaxIds + 1 /\ 1 .. count \subseteq Ids
      BY <3>1, Types DEF Ids
    <3> QED BY <3>1, <3>2
  <2>2. seq' \in [Keys -> Nat] /\ used' \in [Keys -> BOOLEAN]
    BY DEF ReceiveReady, ResetEntries
  <2> QED BY <2>1, <2>2 DEF Entries
<1>5. Ages'
  <2>1. Receives({"ready"}) /\ UNCHANGED serverInstance /\ instance' = Head(down).version
    BY DEF ReceiveReady, serverVars
  <2>2. instance' \in 0 .. serverInstance
    BY <1>0, <2>1, ReceivesOne, FramesSay DEF Ages, Counts
  <2> QED BY <2>1, <2>2, AgesRead
<1> QED BY <1>1, <1>2, <1>3, <1>4, <1>5, Parts

LEMMA ReceiveMismatchTyped == ASSUME WellFormed, ReceiveMismatch PROVE WellFormed'
<1>0. Flags /\ Connection /\ Counts /\ Wires /\ Entries /\ Views /\ Peers /\ Ages
  BY Parts
<1>1. (Flags)'
  BY <1>0
     DEF Flags, ReceiveMismatch, Closable, lifeVars, liveVars, channelVars, viewVars,
         peerVars, serverVars, clientVars
<1>2. (Connection)'
  BY <1>0
     DEF Connection, ConnStates, ReceiveMismatch, Closable, lifeVars, liveVars,
         channelVars, viewVars, peerVars, serverVars, clientVars
<1>3. (Counts)'
  BY <1>0
     DEF Counts, ReceiveMismatch, Closable, lifeVars, liveVars, channelVars, viewVars,
         peerVars, serverVars, clientVars
<1>4. (Entries /\ Views /\ Peers)'
  BY <1>0
     DEF Entries, Views, Peers, ReceiveMismatch, Closable, lifeVars, liveVars, channelVars,
         viewVars, peerVars, serverVars, clientVars
<1>5. Wires'
  BY <1>0, WiresRead DEF ReceiveMismatch
<1>6. Ages'
  BY <1>0, AgesRead DEF Ages, ReceiveMismatch, serverVars
<1> QED BY <1>1, <1>2, <1>3, <1>4, <1>5, <1>6, Parts

LEMMA ReceiveGarbageTyped == ASSUME WellFormed, ReceiveGarbage PROVE WellFormed'
<1>0. Flags /\ Connection /\ Counts /\ Wires /\ Entries /\ Views /\ Peers /\ Ages
  BY Parts
<1>1. (Flags /\ Connection /\ Counts)'
  BY <1>0
     DEF Flags, Connection, ConnStates, Counts, ReceiveGarbage, Closable, lifeVars,
         liveVars, channelVars, viewVars, peerVars, serverVars, clientVars
<1>2. (Entries /\ Views /\ Peers)'
  BY <1>0
     DEF Entries, Views, Peers, ReceiveGarbage, Closable, lifeVars, liveVars, channelVars,
         viewVars, peerVars, serverVars, clientVars
<1>3. Wires'
  BY <1>0, WiresRead DEF ReceiveGarbage
<1>4. Ages'
  BY <1>0, AgesRead DEF Ages, ReceiveGarbage, serverVars
<1> QED BY <1>1, <1>2, <1>3, <1>4, Parts

LEMMA ReceiveSnapshotTyped == ASSUME WellFormed, Wired, ReceiveSnapshot PROVE WellFormed'
<1>0. Flags /\ Connection /\ Counts /\ Wires /\ Entries /\ Views /\ Peers /\ Ages
  BY Parts
<1>1. (Flags /\ Connection /\ Counts)'
  BY <1>0
     DEF Flags, Connection, ConnStates, Counts, ReceiveSnapshot, ResnapsOnce, lifeVars,
         liveVars, channelVars, viewVars, peerVars, serverVars, clientVars
<1>2. (Peers)'
  BY <1>0
     DEF Peers, ReceiveSnapshot, ResnapsOnce, lifeVars, liveVars, channelVars, viewVars,
         peerVars, serverVars, clientVars
<1>3. Wires'
  <2>1. Receives({"snap"})
    BY DEF ReceiveSnapshot
  <2>2. Head(down).id \in Ids
    BY <2>1, ReceivesOne, FramesSay
  <2>3. \/ UNCHANGED up
        \/ Sends(<<Message("resnap", Head(down).id, None)>>)
        \/ Sends(<<>>)
    BY DEF ReceiveSnapshot
  <2> QED BY <2>1, <2>2, <2>3, WiresRead, MessagesSay
<1>4. Entries'
  <2>1. /\ Head(down).id \in Ids /\ Head(down).seq \in Nat /\ Head(down).version \in Versions
    BY ReceivesOne, FramesSay DEF ReceiveSnapshot
  <2>2. owner[Head(down).id] # None => owner[Head(down).id] \in Keys
    BY <2>1, Types
  <2> QED BY <1>0, <2>1, <2>2 DEF Entries, ReceiveSnapshot
<1>5. Views'
  <2>1. /\ Head(down).id \in Ids /\ Head(down).seq \in Nat /\ Head(down).version \in Versions
    BY ReceivesOne, FramesSay DEF ReceiveSnapshot
  <2>2. owner[Head(down).id] # None => owner[Head(down).id] \in Keys
    BY <2>1, Types
  <2>3. \A k \in Keys : (\E i \in Ids : owner[i] = k) => holders[k] # 0
    BY Types DEF Wired, ChannelsAgree
  <2>4. \/ UNCHANGED <<view, shown>>
        \/ \E k \in Keys, s \in {"ready", "error"}, v \in Versions :
              /\ holders[k] # 0
              /\ view' = [view EXCEPT ![k] = s]
              /\ shown' = [shown EXCEPT ![k] = v] \/ UNCHANGED shown
    BY <1>0, <2>1, <2>2, <2>3, Zenon DEF Views, ReceiveSnapshot, viewVars
  <2>5. UNCHANGED holders
    BY DEF ReceiveSnapshot
  <2> QED BY <1>0, <2>4, <2>5 DEF Views
<1>6. Ages'
  BY <1>0, AgesRead DEF Ages, ReceiveSnapshot, serverVars
<1> QED BY <1>1, <1>2, <1>3, <1>4, <1>5, <1>6, Parts

LEMMA ReceiveEndTyped == ASSUME WellFormed, Wired, ReceiveEnd PROVE WellFormed'
<1>0. Flags /\ Connection /\ Counts /\ Wires /\ Entries /\ Views /\ Peers /\ Ages
  BY Parts
<1>1. (Flags /\ Connection /\ Counts)'
  BY <1>0
     DEF Flags, Connection, ConnStates, Counts, ReceiveEnd, EndClearsChannel, lifeVars,
         liveVars, channelVars, viewVars, peerVars, serverVars, clientVars
<1>2. (Entries /\ Peers)'
  BY <1>0
     DEF Entries, Peers, ReceiveEnd, EndClearsChannel, lifeVars, liveVars, channelVars,
         viewVars, peerVars, serverVars, clientVars
<1>3. Wires'
  BY <1>0, WiresRead DEF ReceiveEnd
<1>4. Views'
  <2>1. Head(down).id \in Ids
    BY ReceivesOne, FramesSay DEF ReceiveEnd, Ends
  <2>2. owner[Head(down).id] # None => owner[Head(down).id] \in Keys
    BY <2>1, Types
  <2>3. \A k \in Keys : (\E i \in Ids : owner[i] = k) => holders[k] # 0
    BY Types DEF Wired, ChannelsAgree
  <2> QED BY <1>0, <2>1, <2>2, <2>3 DEF Views, ReceiveEnd
<1>5. Ages'
  BY <1>0, AgesRead DEF Ages, ReceiveEnd, serverVars
<1> QED BY <1>1, <1>2, <1>3, <1>4, <1>5, Parts

LEMMA ReceivePongTyped == ASSUME WellFormed, ReceivePong PROVE WellFormed'
<1>0. Flags /\ Connection /\ Counts /\ Wires /\ Entries /\ Views /\ Peers /\ Ages
  BY Parts
<1>1. (Flags /\ Connection /\ Counts)'
  BY <1>0
     DEF Flags, Connection, ConnStates, Counts, ReceivePong, lifeVars, liveVars,
         channelVars, viewVars, peerVars, serverVars, clientVars
<1>2. (Entries /\ Views /\ Peers)'
  BY <1>0
     DEF Entries, Views, Peers, ReceivePong, lifeVars, liveVars, channelVars, viewVars,
         peerVars, serverVars, clientVars
<1>3. Wires'
  BY <1>0, WiresRead DEF ReceivePong
<1>4. Ages'
  BY <1>0, AgesRead DEF Ages, ReceivePong, serverVars
<1> QED BY <1>1, <1>2, <1>3, <1>4, Parts

LEMMA ServerAcceptsTyped == ASSUME WellFormed, ServerAccepts PROVE WellFormed'
<1>0. Flags /\ Connection /\ Counts /\ Wires /\ Entries /\ Views /\ Peers /\ Ages
  BY Parts
<1>1. (Flags /\ Connection /\ Counts)'
  BY <1>0
     DEF Flags, Connection, ConnStates, Counts, ServerAccepts, lifeVars, liveVars,
         channelVars, viewVars, peerVars, serverVars, clientVars
<1>2. (Entries /\ Views /\ Peers)'
  BY <1>0
     DEF Entries, Views, Peers, ServerAccepts, lifeVars, liveVars, channelVars, viewVars,
         peerVars, serverVars, clientVars
<1>3. Wires'
  BY <1>0, ServerTakesOne, RepliesOne, FramesSay DEF Wires, ServerAccepts, Counts
<1>4. Ages'
  <2>1. UNCHANGED <<instance, serverInstance>> /\ serverInstance \in Nat
    BY <1>0 DEF ServerAccepts, serverVars, clientVars, Counts
  <2>2. \/ Replies(Frame("ready", 0, 0, serverInstance))
        \/ Replies(Frame("differs", 0, 0, 0))
        \/ Replies(Frame("reject", 0, 0, 0))
    BY DEF ServerAccepts
  <2> QED BY <2>1, <2>2, AgesTold, FramesSay
<1> QED BY <1>1, <1>2, <1>3, <1>4, Parts

LEMMA ServerReadsTyped == ASSUME WellFormed, ServerReads PROVE WellFormed'
<1>0. Flags /\ Connection /\ Counts /\ Wires /\ Entries /\ Views /\ Peers /\ Ages
  BY Parts
<1>1. (Flags /\ Connection /\ Counts)'
  BY <1>0
     DEF Flags, Connection, ConnStates, Counts, ServerReads, lifeVars, liveVars,
         channelVars, viewVars, peerVars, serverVars, clientVars
<1>2. (Entries /\ Views)'
  BY <1>0
     DEF Entries, Views, ServerReads, lifeVars, liveVars, channelVars, viewVars, peerVars,
         serverVars, clientVars
<1>3. Wires'
  <2>1. up' \in Seq(Messages)
    BY ServerTakesOne DEF ServerReads
  <2>2. down' \in Seq(Frames)
    BY <1>0, RepliesOne, FramesSay DEF ServerReads, Wires
  <2> QED BY <2>1, <2>2 DEF Wires
<1>4. Peers'
  <2>1. up[1] \in Messages /\ Head(up) = up[1]
    BY ServerTakesOne DEF ServerReads
  <2>2. /\ up[1].t \in {"sub", "unsub", "resnap"} => up[1].id \in Ids
        /\ up[1].t = "sub" => up[1].key \in Keys
    BY <2>1, MessagesSay
  <2> QED BY <1>0, <2>1, <2>2 DEF Peers, ServerReads, serverVars
<1>5. Ages'
  <2>1. UNCHANGED <<instance, serverInstance>>
    BY DEF ServerReads, serverVars, clientVars
  <2>2. UNCHANGED down \/ Replies(Frame("pong", 0, 0, 0))
    BY DEF ServerReads
  <2> QED BY <1>0, <2>1, <2>2, AgesTold, FramesSay DEF Ages
<1> QED BY <1>1, <1>2, <1>3, <1>4, <1>5, Parts

LEMMA ServerSnapsTyped == ASSUME WellFormed, NEW i \in Ids, ServerSnaps(i) PROVE WellFormed'
<1>0. Flags /\ Connection /\ Counts /\ Wires /\ Entries /\ Views /\ Peers /\ Ages
  BY Parts
<1>1. (Flags /\ Connection /\ Counts)'
  BY <1>0
     DEF Flags, Connection, ConnStates, Counts, ServerSnaps, lifeVars, liveVars,
         channelVars, viewVars, peerVars, serverVars, clientVars
<1>2. (Entries /\ Views /\ Peers)'
  BY <1>0
     DEF Entries, Views, Peers, ServerSnaps, lifeVars, liveVars, channelVars, viewVars,
         peerVars, serverVars, clientVars
<1>3. Wires'
  <2>1. /\ Replies(Frame("snap", i, sent[i] + 1, version[subscribed[i]]))
        /\ UNCHANGED <<up, instance, serverInstance>>
    BY DEF ServerSnaps, serverVars, clientVars
  <2>2. sent[i] + 1 \in Nat /\ version[subscribed[i]] \in Versions
    BY Types DEF ServerSnaps
  <2> QED BY <1>0, <2>1, <2>2, RepliesOne, FramesSay DEF Wires
<1>4. Ages'
  <2>1. /\ Replies(Frame("snap", i, sent[i] + 1, version[subscribed[i]]))
        /\ UNCHANGED <<up, instance, serverInstance>>
    BY DEF ServerSnaps, serverVars, clientVars
  <2>2. sent[i] + 1 \in Nat /\ version[subscribed[i]] \in Versions
    BY Types DEF ServerSnaps
  <2> QED BY <2>1, <2>2, AgesTold, FramesSay
<1> QED BY <1>1, <1>2, <1>3, <1>4, Parts

LEMMA ServerEndsTyped == ASSUME WellFormed, NEW i \in Ids, ServerEnds(i) PROVE WellFormed'
<1>0. Flags /\ Connection /\ Counts /\ Wires /\ Entries /\ Views /\ Peers /\ Ages
  BY Parts
<1>1. (Flags /\ Connection /\ Counts)'
  BY <1>0
     DEF Flags, Connection, ConnStates, Counts, ServerEnds, Fault, lifeVars, liveVars,
         channelVars, viewVars, peerVars, serverVars, clientVars
<1>2. (Entries /\ Views /\ Peers)'
  BY <1>0
     DEF Entries, Views, Peers, ServerEnds, Fault, lifeVars, liveVars, channelVars,
         viewVars, peerVars, serverVars, clientVars
<1>3. Wires'
  <2>1. UNCHANGED <<up, instance, serverInstance>>
    BY DEF ServerEnds, serverVars, clientVars
  <2>2. \/ Replies(Frame("subend", i, 0, 0))
        \/ Replies(Frame("suberr", i, 0, 0))
        \/ UNCHANGED down
    BY DEF ServerEnds
  <2> QED BY <1>0, <2>1, <2>2, RepliesOne, FramesSay DEF Wires
<1>4. Ages'
  <2>1. UNCHANGED <<up, instance, serverInstance>>
    BY DEF ServerEnds, serverVars, clientVars
  <2>2. \/ Replies(Frame("subend", i, 0, 0))
        \/ Replies(Frame("suberr", i, 0, 0))
        \/ UNCHANGED down
    BY DEF ServerEnds
  <2> QED BY <1>0, <2>1, <2>2, AgesTold, FramesSay DEF Ages
<1> QED BY <1>1, <1>2, <1>3, <1>4, Parts

LEMMA ServerSaysMoreTyped == ASSUME WellFormed, ServerSaysMore PROVE WellFormed'
<1>0. Flags /\ Connection /\ Counts /\ Wires /\ Entries /\ Views /\ Peers /\ Ages
  BY Parts
<1>1. (Flags /\ Connection /\ Counts)'
  BY <1>0
     DEF Flags, Connection, ConnStates, Counts, ServerSaysMore, Fault, lifeVars, liveVars,
         channelVars, viewVars, peerVars, serverVars, clientVars
<1>2. (Entries /\ Views /\ Peers)'
  BY <1>0
     DEF Entries, Views, Peers, ServerSaysMore, Fault, lifeVars, liveVars, channelVars,
         viewVars, peerVars, serverVars, clientVars
<1>3. Wires'
  <2>1. UNCHANGED <<up, instance, serverInstance>>
    BY DEF ServerSaysMore, serverVars, clientVars
  <2>2. Replies(Frame("garbage", 0, 0, 0))
    BY DEF ServerSaysMore
  <2> QED BY <1>0, <2>1, <2>2, RepliesOne, FramesSay DEF Wires
<1>4. Ages'
  <2>1. UNCHANGED <<up, instance, serverInstance>>
    BY DEF ServerSaysMore, serverVars, clientVars
  <2>2. Replies(Frame("garbage", 0, 0, 0))
    BY DEF ServerSaysMore
  <2> QED BY <2>1, <2>2, AgesTold, FramesSay
<1> QED BY <1>1, <1>2, <1>3, <1>4, Parts

LEMMA ServerRestartsTyped == ASSUME WellFormed, ServerRestarts PROVE WellFormed'
<1>0. Flags /\ Connection /\ Counts /\ Wires /\ Entries /\ Views /\ Peers /\ Ages
  BY Parts
<1>1. (Flags /\ Connection /\ Counts)'
  BY <1>0
     DEF Flags, Connection, ConnStates, Counts, ServerRestarts, Fault, lifeVars, liveVars,
         channelVars, viewVars, peerVars, serverVars, clientVars
<1>2. (Wires /\ Entries /\ Views /\ Peers)'
  BY <1>0
     DEF Wires, Entries, Views, Peers, ServerRestarts, Fault, lifeVars, liveVars,
         channelVars, viewVars, peerVars, serverVars, clientVars
<1>3. Ages'
  BY <1>0, ReadyFramesSay DEF Ages, Counts, ServerRestarts, clientVars
<1> QED BY <1>1, <1>2, <1>3, Parts

LEMMA GoesSilentTyped == ASSUME WellFormed, GoesSilent PROVE WellFormed'
<1>0. Flags /\ Connection /\ Counts /\ Wires /\ Entries /\ Views /\ Peers /\ Ages
  BY Parts
<1>1. (Flags /\ Connection /\ Counts)'
  BY <1>0
     DEF Flags, Connection, ConnStates, Counts, GoesSilent, Fault, lifeVars, liveVars,
         channelVars, viewVars, peerVars, serverVars, clientVars
<1>2. (Wires /\ Entries /\ Views /\ Peers /\ Ages)'
  BY <1>0
     DEF Wires, Entries, Views, Peers, Ages, GoesSilent, Fault, lifeVars, liveVars,
         channelVars, viewVars, peerVars, serverVars, clientVars
<1> QED BY <1>1, <1>2, Parts

\* The phases, conjunct by conjunct
Stages ==
    /\ OneWayForward
    /\ timer => started /\ allowed /\ sock = "none"
    /\ sock # "closing"
    /\ awaiting => pinging
    /\ pinging => ready
    /\ ready => sock = "open" /\ peer # "handshake"
Unconnected ==
    /\ sock = "none" => peer = "none" /\ up = <<>> /\ down = <<>>
    /\ sock = "connecting" => up = <<>> /\ down = <<>> /\ peer # "serving"
Unopened ==
    ~ready =>
        /\ Nothing
        /\ sock # "none" => nextId = 1 /\ \A k \in Keys : chan[k] = 0
Unready ==
    ~ready =>
        /\ \A n \in DOMAIN up : n = 1 /\ up[n].t = "open"
        /\ \A n \in DOMAIN down : down[n].t \notin Ends \cup {"snap"}
Shaking ==
    peer = "handshake" =>
        /\ up # <<>> => down = <<>>
        /\ \A n \in DOMAIN down : down[n].t # "ready"
ReadyFirst == \A n \in DOMAIN down : down[n].t = "ready" => n = 1 /\ ~ready

LEMMA PhaseParts ==
    /\ Phases <=> Stages /\ Unconnected /\ Unopened /\ Unready /\ Shaking /\ ReadyFirst
    /\ Phases' <=> (Stages /\ Unconnected /\ Unopened /\ Unready /\ Shaking /\ ReadyFirst)'
BY Zenon DEF Phases, Stages, Unconnected, Unopened, Unready, Shaking, ReadyFirst

LEMMA SendingPhased ==
    ASSUME WellFormed, Phases, UNCHANGED <<ready, sock, peer, down>>, ready \/ UNCHANGED up
    PROVE  (Unconnected /\ Unready /\ Shaking /\ ReadyFirst)'
<1>0. Stages /\ Unconnected /\ Unready /\ Shaking /\ ReadyFirst
  BY PhaseParts
<1>1. ready => sock = "open" /\ peer # "handshake"
  BY <1>0 DEF Stages
<1>2. Unconnected'
  BY <1>0, <1>1 DEF Unconnected
<1>3. Unready'
  BY <1>0 DEF Unready
<1>4. Shaking'
  BY <1>0, <1>1 DEF Shaking
<1>5. ReadyFirst'
  BY <1>0 DEF ReadyFirst
<1> QED BY <1>2, <1>3, <1>4, <1>5

LEMMA ReceivingPhased ==
    ASSUME WellFormed, Phases, NEW kinds, Receives(kinds), UNCHANGED <<sock, peer>>,
           \/ UNCHANGED ready /\ (ready \/ UNCHANGED up)
           \/ ready' /\ kinds = {"ready"}
    PROVE  (Unconnected /\ Unready /\ Shaking /\ ReadyFirst)'
<1>0. Stages /\ Unconnected /\ Unready /\ Shaking /\ ReadyFirst
  BY PhaseParts
<1>1. /\ Popped(down, down') /\ 1 \in DOMAIN down /\ down[1].t \in kinds
      /\ sock = "open" /\ down # <<>>
  BY ReceivesOne DEF Receives
<1>2. ready => peer # "handshake"
  BY <1>0 DEF Stages
<1>3. kinds = {"ready"} => peer # "handshake"
  BY <1>0, <1>1 DEF Shaking
<1>4. \A n \in DOMAIN down' : n + 1 \in DOMAIN down /\ down'[n] = down[n + 1] /\ n + 1 # 1
  BY <1>1 DEF Popped
<1>5. Unconnected'
  BY <1>1 DEF Unconnected
<1>6. Unready'
  BY <1>0, <1>4 DEF Unready
<1>7. ReadyFirst'
  BY <1>0, <1>4 DEF ReadyFirst
<1>8. Shaking'
  <2> SUFFICES ASSUME peer' = "handshake" PROVE up' = <<>> /\ \A n \in DOMAIN down' : down'[n].t # "ready"
    BY DEF Shaking
  <2>1. up = <<>> /\ UNCHANGED up
    BY <1>0, <1>1, <1>2, <1>3 DEF Shaking
  <2>2. \A n \in DOMAIN down' : down'[n].t # "ready"
    BY <1>0, <1>4 DEF Shaking
  <2> QED BY <2>1, <2>2
<1> QED BY <1>5, <1>6, <1>7, <1>8

LEMMA ServingPhased ==
    ASSUME WellFormed, Phases, peer = "serving", UNCHANGED <<sock, peer, ready>>,
           UNCHANGED up \/ ready,
           \/ UNCHANGED down
           \/ \E f \in Frames : Replies(f) /\ f.t # "ready" /\ (ready \/ f.t \notin Ends \cup {"snap"})
    PROVE  (Unconnected /\ Unready /\ Shaking /\ ReadyFirst)'
<1>0. Stages /\ Unconnected /\ Unready /\ Shaking /\ ReadyFirst
  BY PhaseParts
<1>1. sock \notin {"none", "connecting"}
  BY <1>0 DEF Unconnected
<1>2. \A n \in DOMAIN down' :
          \/ n \in DOMAIN down /\ down'[n] = down[n]
          \/ down'[n].t # "ready" /\ (ready \/ down'[n].t \notin Ends \cup {"snap"})
  <2>1. CASE UNCHANGED down
    BY <2>1
  <2>2. ASSUME NEW f \in Frames, Replies(f), f.t # "ready", ready \/ f.t \notin Ends \cup {"snap"}
        PROVE  \A n \in DOMAIN down' :
                   \/ n \in DOMAIN down /\ down'[n] = down[n]
                   \/ down'[n].t # "ready" /\ (ready \/ down'[n].t \notin Ends \cup {"snap"})
    BY <2>2, RepliesOne DEF Pushed
  <2> QED BY <2>1, <2>2
<1>3. Unconnected' /\ Shaking'
  BY <1>1 DEF Unconnected, Shaking
<1>4. Unready'
  BY <1>0, <1>2 DEF Unready
<1>5. ReadyFirst'
  BY <1>0, <1>2 DEF ReadyFirst
<1> QED BY <1>3, <1>4, <1>5

LEMMA StartPhased == ASSUME WellFormed, Phases, Wired, Start PROVE Phases'
<1>0. Stages /\ Unconnected /\ Unopened /\ Unready /\ Shaking /\ ReadyFirst
  BY PhaseParts
<1>1. Stages'
  BY <1>0, Types
     DEF Stages, OneWayForward, Start, Connect, Fault, ResetEntries, lifeVars, liveVars,
         channelVars, viewVars, peerVars, serverVars, clientVars
<1>2. Unopened'
  BY <1>0 DEF Start, Connect, Unopened, Nothing, peerVars
<1>3. (Unconnected /\ Unready /\ Shaking /\ ReadyFirst)'
  <2>1. /\ sock = "none" /\ UNCHANGED <<ready, up, down>>
        /\ \/ sock' = "connecting" /\ peer' = "handshake"
           \/ UNCHANGED <<sock, peer>>
    BY <1>0 DEF Start, Connect, Stages, OneWayForward
  <2> QED BY <1>0, <2>1 DEF Unconnected, Unready, Shaking, ReadyFirst
<1> QED BY <1>1, <1>2, <1>3, PhaseParts

LEMMA StopPhased == ASSUME WellFormed, Phases, Wired, Stop PROVE Phases'
<1>0. Stages /\ Unconnected /\ Unopened /\ Unready /\ Shaking /\ ReadyFirst
  BY PhaseParts
<1>1. Stages'
  BY <1>0, Types
     DEF Stages, OneWayForward, Stop, Disconnect, Act, ClearLiveness, lifeVars, liveVars,
         channelVars, viewVars, peerVars, serverVars, clientVars
<1>2. (Unconnected /\ Unopened)'
  BY <1>0, Types
     DEF Unconnected, Unopened, Nothing, Stop, Disconnect, Act, ClearLiveness, lifeVars,
         liveVars, channelVars, viewVars, peerVars, serverVars, clientVars
<1>3. (Unready /\ Shaking /\ ReadyFirst)'
  BY <1>0, Types
     DEF Unready, Ends, Shaking, ReadyFirst, Stop, Disconnect, Act, ClearLiveness,
         lifeVars, liveVars, channelVars, viewVars, peerVars, serverVars, clientVars
<1> QED BY <1>1, <1>2, <1>3, PhaseParts

LEMMA AcquirePhased == ASSUME WellFormed, Phases, Wired, NEW k \in Keys, Acquire(k) PROVE Phases'
<1>0. Stages /\ Unconnected /\ Unopened /\ Unready /\ Shaking /\ ReadyFirst
  BY PhaseParts
<1>1. Stages'
  BY <1>0, Types
     DEF Stages, OneWayForward, Acquire, AcquireShared, AcquireFirst, lifeVars, liveVars,
         channelVars, viewVars, peerVars, serverVars, clientVars
<1>2. Unopened'
  BY <1>0 DEF Unopened, Nothing, Acquire, AcquireShared, AcquireFirst, channelVars, peerVars
<1>3. (Unconnected /\ Unready /\ Shaking /\ ReadyFirst)'
  <2>1. UNCHANGED <<ready, sock, peer, down>> /\ (ready \/ UNCHANGED up)
    BY DEF Acquire, AcquireShared, AcquireFirst
  <2> QED BY <2>1, SendingPhased
<1> QED BY <1>1, <1>2, <1>3, PhaseParts

LEMMA ReleasePhased == ASSUME WellFormed, Phases, Wired, NEW k \in Keys, Release(k) PROVE Phases'
<1>0. Stages /\ Unconnected /\ Unopened /\ Unready /\ Shaking /\ ReadyFirst
  BY PhaseParts
<1>1. Stages'
  BY <1>0, Types
     DEF Stages, OneWayForward, Release, ReleaseClosesChannel, LastRelease, lifeVars,
         liveVars, channelVars, viewVars, peerVars, serverVars, clientVars
<1>2. Unopened'
  BY <1>0, Types DEF Unopened, Nothing, Release, ReleaseClosesChannel, peerVars
<1>3. (Unconnected /\ Unready /\ Shaking /\ ReadyFirst)'
  <2>1. UNCHANGED <<ready, sock, peer, down>>
    BY DEF Release
  <2>2. ready \/ UNCHANGED up
    BY <1>0 DEF Release, ReleaseClosesChannel, Sends, Unopened, Unconnected
  <2> QED BY <2>1, <2>2, SendingPhased
<1> QED BY <1>1, <1>2, <1>3, PhaseParts

LEMMA RetryPhased == ASSUME WellFormed, Phases, Wired, NEW k \in Keys, Retry(k) PROVE Phases'
<1>0. Stages /\ Unconnected /\ Unopened /\ Unready /\ Shaking /\ ReadyFirst
  BY PhaseParts
<1>1. Stages'
  BY <1>0, Types
     DEF Stages, OneWayForward, Retry, RetryWaits, RetryAsks, RetryOpens, Act, lifeVars,
         liveVars, channelVars, viewVars, peerVars, serverVars, clientVars
<1>2. Unopened'
  BY <1>0 DEF Unopened, Nothing, Retry, RetryWaits, RetryAsks, RetryOpens, peerVars
<1>3. (Unconnected /\ Unready /\ Shaking /\ ReadyFirst)'
  <2>1. UNCHANGED <<ready, sock, peer, down>> /\ (ready \/ UNCHANGED up)
    BY DEF Retry, RetryWaits, RetryAsks, RetryOpens
  <2> QED BY <2>1, SendingPhased
<1> QED BY <1>1, <1>2, <1>3, PhaseParts

LEMMA ChangePhased == ASSUME WellFormed, Phases, Wired, NEW k \in Keys, Change(k) PROVE Phases'
<1>0. Stages /\ Unconnected /\ Unopened /\ Unready /\ Shaking /\ ReadyFirst
  BY PhaseParts
<1>1. Stages'
  BY <1>0, Types
     DEF Stages, OneWayForward, Change, lifeVars, liveVars, channelVars, viewVars,
         peerVars, serverVars, clientVars
<1>2. (Unconnected /\ Unopened)'
  BY <1>0, Types
     DEF Unconnected, Unopened, Nothing, Change, lifeVars, liveVars, channelVars, viewVars,
         peerVars, serverVars, clientVars
<1>3. (Unready /\ Shaking /\ ReadyFirst)'
  BY <1>0, Types
     DEF Unready, Ends, Shaking, ReadyFirst, Change, lifeVars, liveVars, channelVars,
         viewVars, peerVars, serverVars, clientVars
<1> QED BY <1>1, <1>2, <1>3, PhaseParts

LEMMA ReconnectPhased == ASSUME WellFormed, Phases, Wired, Reconnect PROVE Phases'
<1>0. Stages /\ Unconnected /\ Unopened /\ Unready /\ Shaking /\ ReadyFirst
  BY PhaseParts
<1>1. Stages'
  BY <1>0, Types
     DEF Stages, OneWayForward, Reconnect, Connect, Fault, ResetEntries, lifeVars,
         liveVars, channelVars, viewVars, peerVars, serverVars, clientVars
<1>2. Unopened'
  BY <1>0 DEF Reconnect, Connect, Unopened, Nothing, peerVars
<1>3. (Unconnected /\ Unready /\ Shaking /\ ReadyFirst)'
  <2>1. /\ sock = "none" /\ UNCHANGED <<ready, up, down>>
        /\ \/ sock' = "connecting" /\ peer' = "handshake"
           \/ UNCHANGED <<sock, peer>>
    BY <1>0 DEF Reconnect, Connect, Stages, OneWayForward
  <2> QED BY <1>0, <2>1 DEF Unconnected, Unready, Shaking, ReadyFirst
<1> QED BY <1>1, <1>2, <1>3, PhaseParts

LEMMA PingPhased == ASSUME WellFormed, Phases, Wired, Ping PROVE Phases'
<1>0. Stages /\ Unconnected /\ Unopened /\ Unready /\ Shaking /\ ReadyFirst
  BY PhaseParts
<1>1. Stages'
  BY <1>0, Types
     DEF Stages, OneWayForward, Ping, lifeVars, liveVars, channelVars, viewVars, peerVars,
         serverVars, clientVars
<1>2. Unopened'
  BY <1>0 DEF Unopened, Nothing, Ping, channelVars, peerVars
<1>3. (Unconnected /\ Unready /\ Shaking /\ ReadyFirst)'
  <2>1. UNCHANGED <<ready, sock, peer, down>> /\ ready
    BY <1>0 DEF Ping, Stages
  <2> QED BY <2>1, SendingPhased
<1> QED BY <1>1, <1>2, <1>3, PhaseParts

LEMMA PongTimeoutPhased == ASSUME WellFormed, Phases, Wired, PongTimeout PROVE Phases'
<1>0. Stages /\ Unconnected /\ Unopened /\ Unready /\ Shaking /\ ReadyFirst
  BY PhaseParts
<1>1. Stages'
  BY <1>0, Types
     DEF Stages, OneWayForward, PongTimeout, PongTimeoutSchedules, ScheduleReconnect,
         Disconnect, ClearLiveness, Fault, lifeVars, liveVars, channelVars, viewVars,
         peerVars, serverVars, clientVars
<1>2. (Unconnected /\ Unopened)'
  BY <1>0, Types
     DEF Unconnected, Unopened, Nothing, PongTimeout, PongTimeoutSchedules,
         ScheduleReconnect, Disconnect, ClearLiveness, Fault, lifeVars, liveVars,
         channelVars, viewVars, peerVars, serverVars, clientVars
<1>3. (Unready /\ Shaking /\ ReadyFirst)'
  BY <1>0, Types
     DEF Unready, Ends, Shaking, ReadyFirst, PongTimeout, PongTimeoutSchedules,
         ScheduleReconnect, Disconnect, ClearLiveness, Fault, lifeVars, liveVars,
         channelVars, viewVars, peerVars, serverVars, clientVars
<1> QED BY <1>1, <1>2, <1>3, PhaseParts

LEMMA SocketOpensPhased == ASSUME WellFormed, Phases, Wired, SocketOpens PROVE Phases'
<1>0. Stages /\ Unconnected /\ Unopened /\ Unready /\ Shaking /\ ReadyFirst
  BY PhaseParts
<1>1. Stages'
  BY <1>0, Types
     DEF Stages, OneWayForward, SocketOpens, lifeVars, liveVars, channelVars, viewVars,
         peerVars, serverVars, clientVars
<1>2. Unopened'
  BY <1>0 DEF Unopened, Nothing, SocketOpens, channelVars, peerVars
<1>3. (Unconnected /\ Unready /\ Shaking /\ ReadyFirst)'
  <2>1. up = <<>> /\ down = <<>>
    BY <1>0 DEF SocketOpens, Unconnected
  <2>2. UNCHANGED <<ready, down>> /\ up' = <<Message("open", 0, None)>>
    BY DEF SocketOpens
  <2>3. \A n \in DOMAIN up' : n = 1 /\ up'[n].t = "open"
    BY <2>2, MessagesSay
  <2>4. (Unready /\ ReadyFirst)'
    BY <1>0, <2>1, <2>2, <2>3 DEF Unready, ReadyFirst
  <2>5. Shaking' /\ Unconnected'
    BY <1>0, <2>1, <2>2 DEF Shaking, Unconnected, SocketOpens
  <2> QED BY <2>4, <2>5
<1> QED BY <1>1, <1>2, <1>3, PhaseParts

LEMMA SocketClosesPhased == ASSUME WellFormed, Phases, Wired, SocketCloses PROVE Phases'
<1>0. Stages /\ Unconnected /\ Unopened /\ Unready /\ Shaking /\ ReadyFirst
  BY PhaseParts
<1>1. (Unconnected /\ Unopened)'
  BY <1>0, Types
     DEF Unconnected, Unopened, Nothing, SocketCloses, OnClose, ScheduleReconnect,
         Disconnect, ClearLiveness, lifeVars, liveVars, channelVars, viewVars, peerVars,
         serverVars, clientVars
<1>2. (Unready /\ Shaking /\ ReadyFirst)'
  BY <1>0, Types
     DEF Unready, Ends, Shaking, ReadyFirst, SocketCloses, OnClose, ScheduleReconnect,
         Disconnect, ClearLiveness, lifeVars, liveVars, channelVars, viewVars, peerVars,
         serverVars, clientVars
<1>3. Stages'
  <2>1. /\ sock' = "none" /\ UNCHANGED <<started, allowed>>
        /\ ~ready' /\ ~pinging' /\ ~awaiting'
        /\ (UNCHANGED timer /\ ~allowed) \/ ScheduleReconnect
    BY DEF SocketCloses, OnClose, Disconnect, ClearLiveness
  <2>2. started
    BY <1>0 DEF Stages, OneWayForward, SocketCloses, Unconnected
  <2> QED BY <1>0, <2>1, <2>2, Types DEF Stages, OneWayForward, ScheduleReconnect
<1> QED BY <1>1, <1>2, <1>3, PhaseParts

LEMMA ConnectionLostPhased == ASSUME WellFormed, Phases, Wired, ConnectionLost PROVE Phases'
<1>0. Stages /\ Unconnected /\ Unopened /\ Unready /\ Shaking /\ ReadyFirst
  BY PhaseParts
<1>1. (Unconnected /\ Unopened)'
  BY <1>0, Types
     DEF Unconnected, Unopened, Nothing, ConnectionLost, OnClose, ScheduleReconnect,
         Disconnect, ClearLiveness, Fault, lifeVars, liveVars, channelVars, viewVars,
         peerVars, serverVars, clientVars
<1>2. (Unready /\ Shaking /\ ReadyFirst)'
  BY <1>0, Types
     DEF Unready, Ends, Shaking, ReadyFirst, ConnectionLost, OnClose, ScheduleReconnect,
         Disconnect, ClearLiveness, Fault, lifeVars, liveVars, channelVars, viewVars,
         peerVars, serverVars, clientVars
<1>3. Stages'
  <2>1. /\ sock' = "none" /\ UNCHANGED <<started, allowed>>
        /\ ~ready' /\ ~pinging' /\ ~awaiting'
        /\ (UNCHANGED timer /\ ~allowed) \/ ScheduleReconnect
    BY DEF ConnectionLost, OnClose, Disconnect, ClearLiveness
  <2>2. started
    BY <1>0 DEF Stages, OneWayForward, ConnectionLost, Unconnected
  <2> QED BY <1>0, <2>1, <2>2, Types DEF Stages, OneWayForward, ScheduleReconnect
<1> QED BY <1>1, <1>2, <1>3, PhaseParts

LEMMA SocketRejectedPhased == ASSUME WellFormed, Phases, Wired, SocketRejected PROVE Phases'
<1>0. Stages /\ Unconnected /\ Unopened /\ Unready /\ Shaking /\ ReadyFirst
  BY PhaseParts
<1>1. Stages'
  BY <1>0, Types
     DEF Stages, OneWayForward, SocketRejected, Disconnect, ClearLiveness, lifeVars,
         liveVars, channelVars, viewVars, peerVars, serverVars, clientVars
<1>2. (Unconnected /\ Unopened)'
  BY <1>0, Types
     DEF Unconnected, Unopened, Nothing, SocketRejected, Disconnect, ClearLiveness,
         lifeVars, liveVars, channelVars, viewVars, peerVars, serverVars, clientVars
<1>3. (Unready /\ Shaking /\ ReadyFirst)'
  BY <1>0, Types
     DEF Unready, Ends, Shaking, ReadyFirst, SocketRejected, Disconnect, ClearLiveness,
         lifeVars, liveVars, channelVars, viewVars, peerVars, serverVars, clientVars
<1> QED BY <1>1, <1>2, <1>3, PhaseParts

LEMMA ReceiveReadyPhased == ASSUME WellFormed, Phases, Wired, ReceiveReady PROVE Phases'
<1>0. Stages /\ Unconnected /\ Unopened /\ Unready /\ Shaking /\ ReadyFirst
  BY PhaseParts
<1>1. Stages'
  <2>1. Receives({"ready"}) /\ UNCHANGED <<lifeVars, sock, peer>> /\ ready' /\ pinging' /\ ~awaiting'
    BY DEF ReceiveReady
  <2>2. sock = "open" /\ 1 \in DOMAIN down /\ down[1].t = "ready"
    BY <2>1, ReceivesOne
  <2>3. peer # "handshake"
    BY <1>0, <2>2 DEF Shaking
  <2> QED BY <1>0, <2>1, <2>2, <2>3 DEF Stages, OneWayForward, lifeVars
<1>2. Unopened'
  BY DEF Unopened, ReceiveReady
<1>3. (Unconnected /\ Unready /\ Shaking /\ ReadyFirst)'
  <2>1. Receives({"ready"}) /\ UNCHANGED <<sock, peer>> /\ ready'
    BY DEF ReceiveReady
  <2> QED BY <2>1, ReceivingPhased
<1> QED BY <1>1, <1>2, <1>3, PhaseParts

LEMMA ReceiveMismatchPhased == ASSUME WellFormed, Phases, Wired, ReceiveMismatch PROVE Phases'
<1>0. Stages /\ Unconnected /\ Unopened /\ Unready /\ Shaking /\ ReadyFirst
  BY PhaseParts
<1>1. Stages'
  BY <1>0, Types DEF Stages, OneWayForward, ReceiveMismatch, Closable, Receives, lifeVars, liveVars
<1>2. Unopened'
  BY <1>0 DEF Unopened, Nothing, ReceiveMismatch, Closable, channelVars, peerVars
<1>3. (Unconnected /\ Unready /\ Shaking /\ ReadyFirst)'
  <2>1. Receives({"differs"}) /\ UNCHANGED <<sock, peer, ready, up>>
    BY DEF ReceiveMismatch, Closable
  <2> QED BY <2>1, ReceivingPhased
<1> QED BY <1>1, <1>2, <1>3, PhaseParts

LEMMA ReceiveGarbagePhased == ASSUME WellFormed, Phases, Wired, ReceiveGarbage PROVE Phases'
<1>0. Stages /\ Unconnected /\ Unopened /\ Unready /\ Shaking /\ ReadyFirst
  BY PhaseParts
<1>1. Stages'
  BY <1>0, Types DEF Stages, OneWayForward, ReceiveGarbage, Closable, Receives, lifeVars, liveVars
<1>2. Unopened'
  BY <1>0 DEF Unopened, Nothing, ReceiveGarbage, Closable, channelVars, peerVars
<1>3. (Unconnected /\ Unready /\ Shaking /\ ReadyFirst)'
  <2>1. Receives({"garbage"}) /\ UNCHANGED <<sock, peer, ready, up>>
    BY DEF ReceiveGarbage, Closable
  <2> QED BY <2>1, ReceivingPhased
<1> QED BY <1>1, <1>2, <1>3, PhaseParts

LEMMA ReceiveSnapshotPhased == ASSUME WellFormed, Phases, Wired, ReceiveSnapshot PROVE Phases'
<1>0. Stages /\ Unconnected /\ Unopened /\ Unready /\ Shaking /\ ReadyFirst
  BY PhaseParts
<1>1. Stages'
  BY <1>0, Types
     DEF Stages, OneWayForward, ReceiveSnapshot, ResnapsOnce, lifeVars, liveVars,
         channelVars, viewVars, peerVars, serverVars, clientVars
<1>2. Unopened'
  <2>1. Receives({"snap"}) /\ UNCHANGED <<sock, peer, ready>>
    BY DEF ReceiveSnapshot
  <2>2. down[1].t \in {"snap"} /\ 1 \in DOMAIN down
    BY <2>1, ReceivesOne
  <2>3. ready
    BY <1>0, <2>2 DEF Unready, Ends
  <2> QED BY <2>1, <2>3 DEF Unopened
<1>3. (Unconnected /\ Unready /\ Shaking /\ ReadyFirst)'
  <2>1. Receives({"snap"}) /\ UNCHANGED <<sock, peer, ready>>
    BY DEF ReceiveSnapshot
  <2>2. down[1].t \in {"snap"} /\ 1 \in DOMAIN down
    BY <2>1, ReceivesOne
  <2>3. ready
    BY <1>0, <2>2 DEF Unready, Ends
  <2> QED BY <2>1, <2>3, ReceivingPhased
<1> QED BY <1>1, <1>2, <1>3, PhaseParts

LEMMA ReceiveEndPhased == ASSUME WellFormed, Phases, Wired, ReceiveEnd PROVE Phases'
<1>0. Stages /\ Unconnected /\ Unopened /\ Unready /\ Shaking /\ ReadyFirst
  BY PhaseParts
<1>1. Stages'
  BY <1>0, Types
     DEF Stages, OneWayForward, ReceiveEnd, EndClearsChannel, lifeVars, liveVars,
         channelVars, viewVars, peerVars, serverVars, clientVars
<1>2. Unopened'
  <2>1. Receives({"subend", "suberr"}) /\ UNCHANGED <<sock, peer, ready>>
    BY DEF ReceiveEnd
  <2>2. down[1].t \in {"subend", "suberr"} /\ 1 \in DOMAIN down
    BY <2>1, ReceivesOne
  <2>3. ready
    BY <1>0, <2>2 DEF Unready, Ends
  <2> QED BY <2>1, <2>3 DEF Unopened
<1>3. (Unconnected /\ Unready /\ Shaking /\ ReadyFirst)'
  <2>1. Receives({"subend", "suberr"}) /\ UNCHANGED <<sock, peer, ready>>
    BY DEF ReceiveEnd
  <2>2. down[1].t \in {"subend", "suberr"} /\ 1 \in DOMAIN down
    BY <2>1, ReceivesOne
  <2>3. ready
    BY <1>0, <2>2 DEF Unready, Ends
  <2> QED BY <2>1, <2>3, ReceivingPhased
<1> QED BY <1>1, <1>2, <1>3, PhaseParts

LEMMA ReceivePongPhased == ASSUME WellFormed, Phases, Wired, ReceivePong PROVE Phases'
<1>0. Stages /\ Unconnected /\ Unopened /\ Unready /\ Shaking /\ ReadyFirst
  BY PhaseParts
<1>1. Stages'
  BY <1>0, Types DEF Stages, OneWayForward, ReceivePong, Receives, lifeVars, liveVars
<1>2. Unopened'
  BY <1>0 DEF Unopened, Nothing, ReceivePong, channelVars, peerVars
<1>3. (Unconnected /\ Unready /\ Shaking /\ ReadyFirst)'
  <2>1. Receives({"pong"}) /\ UNCHANGED <<sock, peer, ready, up>>
    BY DEF ReceivePong
  <2> QED BY <2>1, ReceivingPhased
<1> QED BY <1>1, <1>2, <1>3, PhaseParts

LEMMA ServerAcceptsPhased == ASSUME WellFormed, Phases, Wired, ServerAccepts PROVE Phases'
<1>0. Stages /\ Unconnected /\ Unopened /\ Unready /\ Shaking /\ ReadyFirst
  BY PhaseParts
<1>1. Stages'
  BY <1>0, Types
     DEF Stages, OneWayForward, ServerAccepts, lifeVars, liveVars, channelVars, viewVars,
         peerVars, serverVars, clientVars
<1>2. Unopened'
  BY <1>0 DEF Unopened, Nothing, ServerAccepts, clientVars, channelVars, peerVars
<1>3. (Unconnected /\ Unready /\ Shaking /\ ReadyFirst)'
  <2>1. down = <<>> /\ ~ready /\ UNCHANGED ready /\ (UNCHANGED peer \/ peer' = "serving")
    BY <1>0 DEF ServerAccepts, Shaking, Stages, clientVars
  <2>2. PICK f \in Frames : /\ Replies(f) /\ f.t \in {"ready", "differs", "reject"}
                            /\ f.t = "ready" => peer' = "serving"
    BY Parts, FramesSay DEF ServerAccepts, Counts
  <2>3. Pushed(down, f, down') /\ DOMAIN down = {}
    BY <2>1, <2>2, RepliesOne, Queued
  <2>4. \A n \in DOMAIN down' : n = 1 /\ down'[n] = f
    BY <2>3 DEF Pushed
  <2>5. Popped(up, up') /\ sock = sock'
    BY ServerTakesOne DEF ServerAccepts, clientVars
  <2>6. Unready'
    BY <1>0, <2>1, <2>2, <2>4, <2>5 DEF Unready, Popped, Ends
  <2>7. ReadyFirst'
    BY <2>1, <2>4 DEF ReadyFirst
  <2>8. Unconnected'
    BY <1>0, <2>5 DEF Unconnected, ServerAccepts
  <2>9. Shaking'
    <3>1. CASE peer' = "serving"
      BY <3>1 DEF Shaking
    <3>2. CASE peer' # "serving"
      <4>1. \A n \in DOMAIN down' : down'[n].t # "ready"
        BY <2>2, <2>4, <3>2
      <4>2. up' = <<>>
        <5>1. DOMAIN up' = {}
          BY <1>0, <2>1, <2>5 DEF Unready, Popped
        <5>2. up' \in Seq(Messages)
          BY ServerTakesOne DEF ServerAccepts
        <5> QED BY <5>1, <5>2
      <4> QED BY <4>1, <4>2 DEF Shaking
    <3> QED BY <3>1, <3>2
  <2> QED BY <2>6, <2>7, <2>8, <2>9
<1> QED BY <1>1, <1>2, <1>3, PhaseParts

LEMMA ServerReadsPhased == ASSUME WellFormed, Phases, Wired, ServerReads PROVE Phases'
<1>0. Stages /\ Unconnected /\ Unopened /\ Unready /\ Shaking /\ ReadyFirst
  BY PhaseParts
<1>1. Stages'
  BY <1>0, Types
     DEF Stages, OneWayForward, ServerReads, lifeVars, liveVars, channelVars, viewVars,
         peerVars, serverVars, clientVars
<1>2. Unopened'
  <2>1. peer = "serving" /\ UNCHANGED <<sock, peer, ready>>
    BY DEF ServerReads, clientVars
  <2>2. 1 \in DOMAIN up /\ up[1].t # "open"
    BY ServerTakesOne DEF ServerReads
  <2>3. ready
    BY <1>0, <2>2 DEF Unready
  <2> QED BY <2>1, <2>3 DEF Unopened
<1>3. (Unconnected /\ Unready /\ Shaking /\ ReadyFirst)'
  <2>1. peer = "serving" /\ UNCHANGED <<sock, peer, ready>>
    BY DEF ServerReads, clientVars
  <2>2. 1 \in DOMAIN up /\ up[1].t # "open"
    BY ServerTakesOne DEF ServerReads
  <2>3. ready
    BY <1>0, <2>2 DEF Unready
  <2>4. UNCHANGED down \/ Replies(Frame("pong", 0, 0, 0))
    BY DEF ServerReads
  <2> QED BY <2>1, <2>3, <2>4, ServingPhased, FramesSay
<1> QED BY <1>1, <1>2, <1>3, PhaseParts

LEMMA ServerSnapsPhased == ASSUME WellFormed, Phases, Wired, NEW i \in Ids, ServerSnaps(i) PROVE Phases'
<1>0. Stages /\ Unconnected /\ Unopened /\ Unready /\ Shaking /\ ReadyFirst
  BY PhaseParts
<1>1. Stages'
  BY <1>0, Types
     DEF Stages, OneWayForward, ServerSnaps, lifeVars, liveVars, channelVars, viewVars,
         peerVars, serverVars, clientVars
<1>2. Unopened'
  <2>1. /\ peer = "serving" /\ UNCHANGED <<sock, peer, ready, up>>
        /\ Replies(Frame("snap", i, sent[i] + 1, version[subscribed[i]]))
    BY DEF ServerSnaps, clientVars
  <2>2. ready /\ sent[i] + 1 \in Nat /\ version[subscribed[i]] \in Versions
    BY <1>0, Types DEF Unopened, Nothing, ServerSnaps
  <2> QED BY <2>1, <2>2 DEF Unopened
<1>3. (Unconnected /\ Unready /\ Shaking /\ ReadyFirst)'
  <2>1. /\ peer = "serving" /\ UNCHANGED <<sock, peer, ready, up>>
        /\ Replies(Frame("snap", i, sent[i] + 1, version[subscribed[i]]))
    BY DEF ServerSnaps, clientVars
  <2>2. ready /\ sent[i] + 1 \in Nat /\ version[subscribed[i]] \in Versions
    BY <1>0, Types DEF Unopened, Nothing, ServerSnaps
  <2> QED BY <2>1, <2>2, ServingPhased, FramesSay
<1> QED BY <1>1, <1>2, <1>3, PhaseParts

LEMMA ServerEndsPhased == ASSUME WellFormed, Phases, Wired, NEW i \in Ids, ServerEnds(i) PROVE Phases'
<1>0. Stages /\ Unconnected /\ Unopened /\ Unready /\ Shaking /\ ReadyFirst
  BY PhaseParts
<1>1. Stages'
  BY <1>0, Types
     DEF Stages, OneWayForward, ServerEnds, Fault, lifeVars, liveVars, channelVars,
         viewVars, peerVars, serverVars, clientVars
<1>2. Unopened'
  <2>1. /\ peer = "serving" /\ UNCHANGED <<sock, peer, ready, up>>
        /\ \/ Replies(Frame("subend", i, 0, 0)) \/ Replies(Frame("suberr", i, 0, 0))
           \/ UNCHANGED down
    BY DEF ServerEnds, clientVars
  <2>2. ready
    BY <1>0 DEF Unopened, Nothing, ServerEnds
  <2> QED BY <2>1, <2>2 DEF Unopened
<1>3. (Unconnected /\ Unready /\ Shaking /\ ReadyFirst)'
  <2>1. /\ peer = "serving" /\ UNCHANGED <<sock, peer, ready, up>>
        /\ \/ Replies(Frame("subend", i, 0, 0)) \/ Replies(Frame("suberr", i, 0, 0))
           \/ UNCHANGED down
    BY DEF ServerEnds, clientVars
  <2>2. ready
    BY <1>0 DEF Unopened, Nothing, ServerEnds
  <2> QED BY <2>1, <2>2, ServingPhased, FramesSay
<1> QED BY <1>1, <1>2, <1>3, PhaseParts

LEMMA ServerSaysMorePhased == ASSUME WellFormed, Phases, Wired, ServerSaysMore PROVE Phases'
<1>0. Stages /\ Unconnected /\ Unopened /\ Unready /\ Shaking /\ ReadyFirst
  BY PhaseParts
<1>1. Stages'
  BY <1>0, Types
     DEF Stages, OneWayForward, ServerSaysMore, Fault, lifeVars, liveVars, channelVars,
         viewVars, peerVars, serverVars, clientVars
<1>2. Unopened'
  BY <1>0 DEF Unopened, Nothing, ServerSaysMore, clientVars, channelVars, peerVars
<1>3. (Unconnected /\ Unready /\ Shaking /\ ReadyFirst)'
  <2>1. /\ peer = "serving" /\ UNCHANGED <<sock, peer, ready, up>>
        /\ Replies(Frame("garbage", 0, 0, 0))
    BY DEF ServerSaysMore, clientVars
  <2> QED BY <2>1, ServingPhased, FramesSay DEF Ends
<1> QED BY <1>1, <1>2, <1>3, PhaseParts

LEMMA ServerRestartsPhased == ASSUME WellFormed, Phases, Wired, ServerRestarts PROVE Phases'
<1>0. Stages /\ Unconnected /\ Unopened /\ Unready /\ Shaking /\ ReadyFirst
  BY PhaseParts
<1>1. Stages'
  BY <1>0, Types
     DEF Stages, OneWayForward, ServerRestarts, Fault, lifeVars, liveVars, channelVars,
         viewVars, peerVars, serverVars, clientVars
<1>2. (Unconnected /\ Unopened)'
  BY <1>0, Types
     DEF Unconnected, Unopened, Nothing, ServerRestarts, Fault, lifeVars, liveVars,
         channelVars, viewVars, peerVars, serverVars, clientVars
<1>3. (Unready /\ Shaking /\ ReadyFirst)'
  BY <1>0, Types
     DEF Unready, Ends, Shaking, ReadyFirst, ServerRestarts, Fault, lifeVars, liveVars,
         channelVars, viewVars, peerVars, serverVars, clientVars
<1> QED BY <1>1, <1>2, <1>3, PhaseParts

LEMMA GoesSilentPhased == ASSUME WellFormed, Phases, Wired, GoesSilent PROVE Phases'
<1>0. Stages /\ Unconnected /\ Unopened /\ Unready /\ Shaking /\ ReadyFirst
  BY PhaseParts
<1>1. Stages'
  BY <1>0, Types
     DEF Stages, OneWayForward, GoesSilent, Fault, lifeVars, liveVars, channelVars,
         viewVars, peerVars, serverVars, clientVars
<1>2. (Unconnected /\ Unopened)'
  BY <1>0, Types
     DEF Unconnected, Unopened, Nothing, GoesSilent, Fault, lifeVars, liveVars,
         channelVars, viewVars, peerVars, serverVars, clientVars
<1>3. (Unready /\ Shaking /\ ReadyFirst)'
  BY <1>0, Types
     DEF Unready, Ends, Shaking, ReadyFirst, GoesSilent, Fault, lifeVars, liveVars,
         channelVars, viewVars, peerVars, serverVars, clientVars
<1> QED BY <1>1, <1>2, <1>3, PhaseParts

\* A new channel fits.
LEMMA OpeningWired ==
    ASSUME WellFormed, Wired, NEW k \in Keys, OpenChannel(k), chan[k] = 0, holders'[k] > 0,
           UNCHANGED ready, \A j \in Keys \ {k} : view'[j] = view[j],
           \A j \in Keys : holders[j] > 0 => holders'[j] > 0,
           \A j \in Keys \ {k} : holders'[j] > 0 => holders[j] > 0
    PROVE  Wired'
<1>0. /\ nextId \in Ids /\ nextId' = nextId + 1
      /\ chan'[k] = nextId /\ \A j \in Keys \ {k} : chan'[j] = chan[j]
      /\ owner'[nextId] = k /\ \A i \in Ids \ {nextId} : owner'[i] = owner[i]
  BY Opening
<1>1. owner[nextId] = None
  BY <1>0, Types DEF Wired
<1>2. ChannelsAgree'
  <2> SUFFICES ASSUME NEW j \in Keys, NEW i \in Ids PROVE owner'[i] = j <=> chan'[j] = i
    BY DEF ChannelsAgree
  <2>1. owner[i] = j <=> chan[j] = i
    BY DEF Wired, ChannelsAgree
  <2>2. owner[nextId] = j <=> chan[j] = nextId
    BY <1>0, Types DEF Wired, ChannelsAgree
  <2> QED BY <1>1, <2>1, <2>2, <1>0, Types
<1>3. NothingForgotten'
  BY <1>0, Types DEF Wired, NothingForgotten
<1>4. \A i \in Ids : owner'[i] # None => i < nextId'
  BY <1>0, Types DEF Wired
<1>5. \A j \in Keys : chan'[j] # 0 => holders'[j] > 0
  BY <1>0, Types DEF Wired
<1> QED BY <1>2, <1>3, <1>4, <1>5 DEF Wired

LEMMA StartWired == ASSUME WellFormed, Phases, Wired, Start PROVE Wired'
<1>1. /\ owner' = [i \in Ids |-> None] /\ chan' = [k \in Keys |-> 0]
      /\ UNCHANGED <<ready, holders>>
  BY DEF Start, Connect
<1>2. ~ready
  BY DEF Start, Phases, OneWayForward
<1> QED BY <1>1, <1>2, Types DEF Wired, ChannelsAgree, NothingForgotten

LEMMA StopWired == ASSUME WellFormed, Phases, Wired, Stop PROVE Wired'
BY Types
   DEF Wired, ChannelsAgree, NothingForgotten, Stop, Disconnect, Act, ClearLiveness,
       lifeVars, liveVars, channelVars, viewVars, peerVars, serverVars, clientVars

LEMMA AcquireWired == ASSUME WellFormed, Phases, Wired, NEW k \in Keys, Acquire(k) PROVE Wired'
<1>1. holders' = [holders EXCEPT ![k] = @ + 1] /\ UNCHANGED ready
  BY DEF Acquire
<1>2. \A j \in Keys : holders[j] \in Nat /\ holders'[j] \in Nat /\ (holders[j] > 0 => holders'[j] > 0)
  BY <1>1, Types, StateClientAssumption
<1>3. holders'[k] > 0
  BY <1>1, <1>2, Types, StateClientAssumption
<1>4. CASE AcquireShared(k)
  BY <1>1, <1>2, <1>4, Types
     DEF Wired, ChannelsAgree, NothingForgotten, AcquireShared, channelVars, viewVars
<1>5. CASE AcquireFirst(k) /\ ready
  <2>1. chan[k] = 0 /\ (\A j \in Keys \ {k} : view'[j] = view[j])
    BY <1>5, Types DEF AcquireFirst, Wired
  <2>2. OpenChannel(k)
    BY <1>5 DEF AcquireFirst
  <2> QED BY <1>1, <1>2, <1>3, <2>1, <2>2, OpeningWired
<1>6. CASE AcquireFirst(k) /\ ~ready
  BY <1>1, <1>2, <1>6, Types DEF Wired, ChannelsAgree, NothingForgotten, AcquireFirst
<1> QED BY <1>4, <1>5, <1>6 DEF Acquire

LEMMA ReleaseWired == ASSUME WellFormed, Phases, Wired, NEW k \in Keys, Release(k) PROVE Wired'
BY Types
   DEF Wired, ChannelsAgree, NothingForgotten, Release, ReleaseClosesChannel, LastRelease,
       lifeVars, liveVars, channelVars, viewVars, peerVars, serverVars, clientVars

LEMMA RetryWired == ASSUME WellFormed, Phases, Wired, NEW k \in Keys, Retry(k) PROVE Wired'
<1>1. holders[k] > 0 /\ UNCHANGED <<ready, holders>>
  BY DEF Retry
<1>2. CASE RetryWaits(k)
  BY <1>1, <1>2, Types DEF Wired, ChannelsAgree, NothingForgotten, RetryWaits
<1>3. CASE RetryAsks(k)
  BY <1>1, <1>3, Types DEF Wired, ChannelsAgree, NothingForgotten, RetryAsks
<1>4. CASE RetryOpens(k)
  <2>1. chan[k] = 0 /\ (\A j \in Keys \ {k} : view'[j] = view[j]) /\ OpenChannel(k)
    BY <1>4, Types DEF RetryOpens
  <2> QED BY <1>1, <2>1, Types, OpeningWired
<1> QED BY <1>2, <1>3, <1>4 DEF Retry

LEMMA ChangeWired == ASSUME WellFormed, Phases, Wired, NEW k \in Keys, Change(k) PROVE Wired'
BY Types
   DEF Wired, ChannelsAgree, NothingForgotten, Change, lifeVars, liveVars, channelVars,
       viewVars, peerVars, serverVars, clientVars

LEMMA ReconnectWired == ASSUME WellFormed, Phases, Wired, Reconnect PROVE Wired'
<1>1. /\ owner' = [i \in Ids |-> None] /\ chan' = [k \in Keys |-> 0]
      /\ UNCHANGED <<ready, holders>>
  BY DEF Reconnect, Connect
<1>2. ~ready
  BY DEF Reconnect, Phases, OneWayForward
<1> QED BY <1>1, <1>2, Types DEF Wired, ChannelsAgree, NothingForgotten

LEMMA PingWired == ASSUME WellFormed, Phases, Wired, Ping PROVE Wired'
BY Types
   DEF Wired, ChannelsAgree, NothingForgotten, Ping, lifeVars, liveVars, channelVars,
       viewVars, peerVars, serverVars, clientVars

LEMMA PongTimeoutWired == ASSUME WellFormed, Phases, Wired, PongTimeout PROVE Wired'
BY Types
   DEF Wired, ChannelsAgree, NothingForgotten, PongTimeout, PongTimeoutSchedules,
       ScheduleReconnect, Disconnect, ClearLiveness, Fault, lifeVars, liveVars,
       channelVars, viewVars, peerVars, serverVars, clientVars

LEMMA SocketOpensWired == ASSUME WellFormed, Phases, Wired, SocketOpens PROVE Wired'
BY Types
   DEF Wired, ChannelsAgree, NothingForgotten, SocketOpens, lifeVars, liveVars,
       channelVars, viewVars, peerVars, serverVars, clientVars

LEMMA SocketClosesWired == ASSUME WellFormed, Phases, Wired, SocketCloses PROVE Wired'
BY Types
   DEF Wired, ChannelsAgree, NothingForgotten, SocketCloses, OnClose, ScheduleReconnect,
       Disconnect, ClearLiveness, lifeVars, liveVars, channelVars, viewVars, peerVars,
       serverVars, clientVars

LEMMA ConnectionLostWired == ASSUME WellFormed, Phases, Wired, ConnectionLost PROVE Wired'
BY Types
   DEF Wired, ChannelsAgree, NothingForgotten, ConnectionLost, OnClose, ScheduleReconnect,
       Disconnect, ClearLiveness, Fault, lifeVars, liveVars, channelVars, viewVars,
       peerVars, serverVars, clientVars

LEMMA SocketRejectedWired == ASSUME WellFormed, Phases, Wired, SocketRejected PROVE Wired'
BY Types
   DEF Wired, ChannelsAgree, NothingForgotten, SocketRejected, Disconnect, ClearLiveness,
       lifeVars, liveVars, channelVars, viewVars, peerVars, serverVars, clientVars

LEMMA ReceiveReadyWired == ASSUME WellFormed, Phases, Wired, ReceiveReady PROVE Wired'
<1> DEFINE held == {k \in Keys : holders[k] > 0}
<1>1. PICK count \in Nat : \E id \in [held -> 1 .. count] :
          /\ nextId' = count + 1
          /\ chan' = [k \in Keys |-> IF k \in held THEN id[k] ELSE 0]
          /\ \A k \in held : owner'[id[k]] = k
          /\ \A i \in 1 .. count : owner'[i] \in held /\ id[owner'[i]] = i
          /\ \A i \in Ids : i > count => owner'[i] = None
  BY Readying
<1>2. PICK id \in [held -> 1 .. count] :
          /\ nextId' = count + 1
          /\ chan' = [k \in Keys |-> IF k \in held THEN id[k] ELSE 0]
          /\ \A k \in held : owner'[id[k]] = k
          /\ \A i \in 1 .. count : owner'[i] \in held /\ id[owner'[i]] = i
          /\ \A i \in Ids : i > count => owner'[i] = None
  BY <1>1
<1>3. UNCHANGED holders
  BY DEF ReceiveReady
<1>4. \A i \in Ids : i \in Nat /\ (i \in 1 .. count \/ i > count)
  BY DEF Ids
<1>5. \A k \in Keys, i \in Ids : owner'[i] = k <=> chan'[k] = i
  BY <1>2, <1>4, Types
<1>6. \A k \in Keys : (chan'[k] # 0 => holders'[k] > 0) /\ (holders'[k] > 0 => chan'[k] # 0)
  BY <1>2, <1>3
<1>7. \A i \in Ids : owner'[i] # None => i < nextId'
  BY <1>2, <1>4
<1> QED BY <1>5, <1>6, <1>7 DEF Wired, ChannelsAgree, NothingForgotten

LEMMA ReceiveMismatchWired == ASSUME WellFormed, Phases, Wired, ReceiveMismatch PROVE Wired'
BY Types
   DEF Wired, ChannelsAgree, NothingForgotten, ReceiveMismatch, Closable, lifeVars,
       liveVars, channelVars, viewVars, peerVars, serverVars, clientVars

LEMMA ReceiveGarbageWired == ASSUME WellFormed, Phases, Wired, ReceiveGarbage PROVE Wired'
BY Types
   DEF Wired, ChannelsAgree, NothingForgotten, ReceiveGarbage, Closable, lifeVars,
       liveVars, channelVars, viewVars, peerVars, serverVars, clientVars

LEMMA ReceiveSnapshotWired == ASSUME WellFormed, Phases, Wired, ReceiveSnapshot PROVE Wired'
<1>1. Head(down).id \in Ids
  BY ReceivesOne, FramesSay DEF ReceiveSnapshot, Ends
<1>2. \A k \in Keys : owner[Head(down).id] = k => chan[k] # 0
  BY <1>1, Types DEF Wired, ChannelsAgree
<1>3. owner[Head(down).id] # None => owner[Head(down).id] \in Keys
  BY <1>1, Types
<1>4. UNCHANGED <<owner, chan, nextId, holders, ready>>
  BY DEF ReceiveSnapshot
<1>5. \A k \in Keys : view'[k] = view[k] \/ chan[k] # 0
  BY <1>1, <1>2, <1>3, Types DEF ReceiveSnapshot, viewVars
<1> QED BY <1>4, <1>5 DEF Wired, ChannelsAgree, NothingForgotten

LEMMA ReceiveEndWired == ASSUME WellFormed, Phases, Wired, ReceiveEnd PROVE Wired'
<1>1. Head(down).id \in Ids
  BY ReceivesOne, FramesSay DEF ReceiveEnd, Ends
<1>2. \A k \in Keys : owner[Head(down).id] = k => chan[k] # 0
  BY <1>1, Types DEF Wired, ChannelsAgree
<1>3. owner[Head(down).id] # None => owner[Head(down).id] \in Keys
  BY <1>1, Types
<1>4. UNCHANGED <<nextId, holders, ready>>
  BY DEF ReceiveEnd
<1> DEFINE id == Head(down).id
           k == owner[id]
<1>5. CASE k = None
  BY <1>4, <1>5 DEF Wired, ChannelsAgree, NothingForgotten, ReceiveEnd
<1>6. CASE k # None
  <2>1. /\ owner' = [owner EXCEPT ![id] = None] /\ chan' = [chan EXCEPT ![k] = 0]
        /\ view' = [view EXCEPT ![k] = "error"]
    BY <1>6 DEF ReceiveEnd, EndClearsChannel
  <2> HIDE DEF id
  <2>2. k \in Keys /\ chan[k] = id /\ id \in Ids
    BY <1>1, <1>3, <1>6, Types DEF Wired, ChannelsAgree, id
  <2> HIDE DEF k
  <2>3. ChannelsAgree'
    <3> SUFFICES ASSUME NEW j \in Keys, NEW i \in Ids PROVE owner'[i] = j <=> chan'[j] = i
      BY DEF ChannelsAgree
    <3>1. i # 0 /\ (owner[i] = j <=> chan[j] = i) /\ owner[id] = k
      BY Types DEF Wired, ChannelsAgree, k
    <3> QED BY <2>1, <2>2, <3>1, Types
  <2> QED BY <1>4, <2>1, <2>2, <2>3, Types DEF Wired, NothingForgotten
<1> QED BY <1>5, <1>6

LEMMA ReceivePongWired == ASSUME WellFormed, Phases, Wired, ReceivePong PROVE Wired'
BY Types
   DEF Wired, ChannelsAgree, NothingForgotten, ReceivePong, lifeVars, liveVars,
       channelVars, viewVars, peerVars, serverVars, clientVars

LEMMA ServerAcceptsWired == ASSUME WellFormed, Phases, Wired, ServerAccepts PROVE Wired'
BY Types
   DEF Wired, ChannelsAgree, NothingForgotten, ServerAccepts, lifeVars, liveVars,
       channelVars, viewVars, peerVars, serverVars, clientVars

LEMMA ServerReadsWired == ASSUME WellFormed, Phases, Wired, ServerReads PROVE Wired'
BY Types
   DEF Wired, ChannelsAgree, NothingForgotten, ServerReads, lifeVars, liveVars,
       channelVars, viewVars, peerVars, serverVars, clientVars

LEMMA ServerSnapsWired == ASSUME WellFormed, Phases, Wired, NEW i \in Ids, ServerSnaps(i) PROVE Wired'
BY Types
   DEF Wired, ChannelsAgree, NothingForgotten, ServerSnaps, lifeVars, liveVars,
       channelVars, viewVars, peerVars, serverVars, clientVars

LEMMA ServerEndsWired == ASSUME WellFormed, Phases, Wired, NEW i \in Ids, ServerEnds(i) PROVE Wired'
BY Types
   DEF Wired, ChannelsAgree, NothingForgotten, ServerEnds, Fault, lifeVars, liveVars,
       channelVars, viewVars, peerVars, serverVars, clientVars

LEMMA ServerSaysMoreWired == ASSUME WellFormed, Phases, Wired, ServerSaysMore PROVE Wired'
BY Types
   DEF Wired, ChannelsAgree, NothingForgotten, ServerSaysMore, Fault, lifeVars, liveVars,
       channelVars, viewVars, peerVars, serverVars, clientVars

LEMMA ServerRestartsWired == ASSUME WellFormed, Phases, Wired, ServerRestarts PROVE Wired'
BY Types
   DEF Wired, ChannelsAgree, NothingForgotten, ServerRestarts, Fault, lifeVars, liveVars,
       channelVars, viewVars, peerVars, serverVars, clientVars

LEMMA GoesSilentWired == ASSUME WellFormed, Phases, Wired, GoesSilent PROVE Wired'
BY Types
   DEF Wired, ChannelsAgree, NothingForgotten, GoesSilent, Fault, lifeVars, liveVars,
       channelVars, viewVars, peerVars, serverVars, clientVars

-----------------------------------------------------------------------------
(* Client and server about a channel.                                        *)

LEMMA EndedRead ==
    ASSUME WellFormed, NEW kinds, Receives(kinds), NEW i \in Ids,
           down[1].t \notin Ends \/ down[1].id # i
    PROVE  Ended(i)' <=> Ended(i)
<1>1. Popped(down, down')
  BY ReceivesOne
<1>2. Ended(i)' => Ended(i)
  BY <1>1 DEF Ended, Popped
<1>3. ASSUME Ended(i) PROVE Ended(i)'
  <2>1. PICK n \in DOMAIN down : down[n].t \in Ends /\ down[n].id = i
    BY <1>3 DEF Ended
  <2>2. n - 1 \in DOMAIN down' /\ down'[n - 1] = down[n]
    BY <1>1, <2>1 DEF Popped
  <2> QED BY <2>1, <2>2 DEF Ended
<1> QED BY <1>2, <1>3

LEMMA EndedTold ==
    ASSUME WellFormed, NEW f \in Frames, Replies(f), NEW i \in Ids
    PROVE  Ended(i)' <=> (Ended(i) \/ (f.t \in Ends /\ f.id = i))
<1>1. Pushed(down, f, down')
  BY RepliesOne
<1>2. Ended(i)' => Ended(i) \/ (f.t \in Ends /\ f.id = i)
  BY <1>1 DEF Ended, Pushed
<1>3. Ended(i) => Ended(i)'
  BY <1>1 DEF Ended, Pushed
<1>4. f.t \in Ends /\ f.id = i => Ended(i)'
  <2>1. Len(down) + 1 \in DOMAIN down' /\ down'[Len(down) + 1] = f
    BY <1>1 DEF Pushed
  <2> QED BY <2>1 DEF Ended
<1> QED BY <1>2, <1>3, <1>4

\* The same channel, before and after
Alike(i) ==
    /\ owner'[i] = owner[i] /\ subscribed'[i] = subscribed[i]
    /\ Ended(i)' <=> Ended(i)
    /\ New(i) => New(i)'
    /\ i \in dropped => i \in dropped'

\* What is put on the wire for others, or asks for a snapshot, leaves it as it is.
LEMMA ChannelBeside ==
    ASSUME WellFormed, NEW i \in Ids, Channel(i), Alike(i), nextId' \in Nat, nextId' >= nextId,
           \/ UNCHANGED up
           \/ \E m : /\ Pushed(up, m, up')
                     /\ m.id # i \/ (m.t \notin {"sub", "unsub"} /\ i < nextId)
    PROVE  Channel(i)'
<1>1. nextId \in Nat /\ i \in Nat /\ DOMAIN up = 1 .. Len(up) /\ Len(up) \in Nat
  BY Types, Queued
<1>2. New(i) => New(i)'
  BY DEF Alike
<1>3. DOMAIN up \subseteq DOMAIN up' /\ \A n \in DOMAIN up : up'[n] = up[n]
  BY <1>1 DEF Pushed
<1>4. DOMAIN up' \subseteq Nat
  BY <1>1 DEF Pushed
<1>5. \A n \in DOMAIN up' : \/ n \in DOMAIN up
                            \/ up'[n].id # i
                            \/ up'[n].t \notin {"sub", "unsub"} /\ i < nextId
  BY <1>1 DEF Pushed
<1>6. \A n \in DOMAIN up' : (Sub(n, i)' => n \in DOMAIN up /\ Sub(n, i)) /\ (Unsub(n, i)' => n \in DOMAIN up /\ Unsub(n, i))
  BY <1>3, <1>5 DEF Sub, Unsub
<1>7. \A n \in DOMAIN up : (Sub(n, i)' <=> Sub(n, i)) /\ (Unsub(n, i)' <=> Unsub(n, i))
  BY <1>3 DEF Sub, Unsub
<1>8. Subbed(i)' <=> Subbed(i)
  BY <1>3, <1>6, <1>7 DEF Subbed
<1>9. i >= nextId' => i >= nextId /\ \A n \in DOMAIN up' : up'[n].id # i
  BY <1>1, <1>3, <1>5 DEF Channel
<1> HIDE DEF Sub, Unsub, New, Subbed, Ended
<1>10. \A n \in DOMAIN up' : Sub(n, i)' => up'[n].key = up[n].key
  BY <1>3, <1>6
<1> QED BY <1>2, <1>3, <1>6, <1>7, <1>8, <1>9, <1>10 DEF Channel, Alike

\* So does a message read by the server that is about another channel.
LEMMA ChannelElsewhere ==
    ASSUME WellFormed, NEW i \in Ids, Channel(i), Alike(i), UNCHANGED nextId,
           Popped(up, up'), up[1].id # i \/ up[1].t \notin {"sub", "unsub"}
    PROVE  Channel(i)'
<1>1. nextId \in Nat /\ i \in Nat
  BY Types
<1>2. New(i) => New(i)'
  BY DEF Alike
<1>3. \A n \in DOMAIN up' : n \in Nat /\ n + 1 \in DOMAIN up /\ up'[n] = up[n + 1]
  BY DEF Popped
<1>4. \A n \in DOMAIN up : n \in Nat /\ n # 1 => n - 1 \in DOMAIN up' /\ up'[n - 1] = up[n]
  BY DEF Popped
<1>5. \A n \in DOMAIN up' : /\ Sub(n, i)' <=> Sub(n + 1, i)
                            /\ Unsub(n, i)' <=> Unsub(n + 1, i)
  BY <1>3 DEF Sub, Unsub
<1>6. \A n \in DOMAIN up : Sub(n, i) \/ Unsub(n, i) => n # 1
  BY DEF Sub, Unsub
<1>8. \A n \in DOMAIN up : Unsub(n, i) => Unsub(n - 1, i)' /\ n - 1 \in DOMAIN up'
  <2> SUFFICES ASSUME NEW n \in DOMAIN up, Unsub(n, i) PROVE Unsub(n - 1, i)' /\ n - 1 \in DOMAIN up'
    OBVIOUS
  <2>1. n - 1 \in DOMAIN up' /\ up'[n - 1] = up[n]
    BY <1>4, <1>6 DEF Popped
  <2> QED BY <2>1 DEF Unsub
<1>7. Subbed(i)' <=> Subbed(i)
  <2>1. ASSUME Subbed(i)' PROVE Subbed(i)
    BY <1>3, <1>5, <2>1 DEF Subbed
  <2>2. ASSUME NEW n \in DOMAIN up, Sub(n, i) PROVE Subbed(i)'
    <3>1. n - 1 \in DOMAIN up' /\ up'[n - 1] = up[n]
      BY <1>4, <1>6, <2>2 DEF Popped
    <3>2. up'[n - 1].t = "sub" /\ up'[n - 1].id = i
      BY <2>2, <3>1 DEF Sub
    <3> QED BY <3>1, <3>2 DEF Subbed, Sub
  <2> QED BY <2>1, <2>2 DEF Subbed
<1>9. i >= nextId' => New(i)' /\ \A n \in DOMAIN up' : up'[n].id # i
  BY <1>2, <1>3 DEF Channel
<1>10. \A n \in DOMAIN up' : up'[n].key = up[n + 1].key
  BY <1>3
<1>11. DOMAIN up \subseteq Nat
  BY DEF Popped
<1> HIDE DEF Sub, Unsub, New, Subbed, Ended
<1>12. \A m, n \in DOMAIN up' : Sub(m, i)' /\ Sub(n, i)' => m = n
  BY <1>3, <1>5 DEF Channel
<1>13. ASSUME owner[i] # None
       PROVE  /\ \A n \in DOMAIN up' : ~Unsub(n, i)' /\ (Sub(n, i)' => up'[n].key = owner[i])
              /\ subscribed[i] \in {None, owner[i]}
              /\ subscribed[i] = None => Subbed(i) \/ Ended(i) \/ i \in dropped
  BY <1>3, <1>5, <1>10, <1>13 DEF Channel
<1>14. ASSUME owner[i] = None
       PROVE  /\ subscribed[i] # None => \E n \in DOMAIN up' : Unsub(n, i)'
              /\ \A m \in DOMAIN up' : Sub(m, i)' => \E n \in DOMAIN up' : m < n /\ Unsub(n, i)'
  <2>1. subscribed[i] # None => \E n \in DOMAIN up' : Unsub(n, i)'
    BY <1>8, <1>14 DEF Channel
  <2>2. ASSUME NEW m \in DOMAIN up', Sub(m, i)'
        PROVE  \E n \in DOMAIN up' : m < n /\ Unsub(n, i)'
    <3>1. PICK n \in DOMAIN up : m + 1 < n /\ Unsub(n, i)
      BY <1>3, <1>5, <1>14, <2>2 DEF Channel
    <3> QED BY <1>3, <1>8, <1>11, <3>1
  <2> QED BY <2>1, <2>2
<1>15. subscribed[i] # None => ~Ended(i)
  BY DEF Channel
<1>16. Subbed(i) => New(i)
  BY DEF Channel
<1> QED BY <1>2, <1>7, <1>9, <1>12, <1>13, <1>14, <1>15, <1>16 DEF Channel, Alike

\* Before the ready there is nothing to serve.
LEMMA ChannelsBeforeReady ==
    (WellFormed /\ Phases /\ Wired /\ ~ready => Served)'
<1> SUFFICES ASSUME WellFormed', Phases', Wired', ~ready', peer' = "serving", NEW i \in Ids
             PROVE  Channel(i)'
  BY DEF Served
<1>1. /\ Stages' /\ Unconnected' /\ Unopened' /\ Unready'
  BY PhaseParts
<1>2. nextId' = 1 /\ Nothing'
  BY <1>1 DEF Unopened, Unconnected
<1>3. i \in Nat \ {0}
  BY StateClientAssumption DEF Ids
<1>4. owner'[i] = None
  BY <1>2, <1>3 DEF Wired
<1>5. \A n \in DOMAIN up' : up'[n] \in Messages
  <2>1. up' \in Seq(Messages)
    BY DEF WellFormed
  <2> QED BY <2>1
<1>6. \A n \in DOMAIN up' : up'[n].t = "open" /\ up'[n].id = 0
  BY <1>1, <1>5, MessagesSay DEF Unready
<1>7. New(i)'
  BY <1>1, <1>2 DEF New, Nothing, Ended, Unready
<1>8. \A n \in DOMAIN up' : ~Sub(n, i)' /\ ~Unsub(n, i)'
  BY <1>6 DEF Sub, Unsub
<1>9. \A n \in DOMAIN up' : up'[n].id # i
  BY <1>3, <1>6
<1>10. subscribed'[i] = None /\ ~Ended(i)'
  BY <1>7 DEF New
<1> HIDE DEF New
<1> QED BY <1>4, <1>7, <1>8, <1>9, <1>10 DEF Channel, Subbed

\* openChannel
LEMMA ChannelOpens ==
    ASSUME WellFormed, Phases, Wired, Served, ready, peer = "serving", NEW k \in Keys, OpenChannel(k),
           UNCHANGED <<peer, subscribed, dropped, sent, sentVersion, forced, down>>
    PROVE  Served'
<1> SUFFICES ASSUME NEW i \in Ids PROVE Channel(i)'
  BY DEF Served
<1> DEFINE c == nextId
           m == Message("sub", c, k)
<1>1. /\ c \in Ids /\ nextId' = c + 1 /\ nextId' \in Nat /\ c \in Nat /\ i \in Nat
      /\ owner'[c] = k /\ \A j \in Ids \ {c} : owner'[j] = owner[j]
  <2>1. /\ nextId \in Ids /\ nextId' = nextId + 1
        /\ owner'[nextId] = k /\ \A j \in Ids \ {nextId} : owner'[j] = owner[j]
    BY Opening
  <2> QED BY <2>1, Types
<1>2. sock = "open"
  BY DEF Phases
<1>3. Pushed(up, m, up')
  BY <1>2, Opening
<1>4. m.t = "sub" /\ m.id = c /\ m.key = k
  BY MessagesSay
<1>5. Channel(i)
  BY DEF Served
<1> HIDE DEF c, m
<1>6. Ended(i)' <=> Ended(i)
  BY DEF Ended
<1>7. CASE i # c
  <2>1. Alike(i)
    BY <1>1, <1>6, <1>7 DEF Alike, New
  <2>2. nextId' >= nextId
    BY <1>1 DEF c
  <2> QED BY <1>1, <1>3, <1>4, <1>5, <1>7, <2>1, <2>2, ChannelBeside
<1>8. CASE i = c
  <2>1. New(i) /\ \A n \in DOMAIN up : up[n].id # i
    BY <1>1, <1>5, <1>8 DEF Channel, c
  <2>2. New(i)'
    BY <1>6, <2>1, Zenon DEF New
  <2>3. \A n \in DOMAIN up' : (n \in DOMAIN up /\ up'[n] = up[n]) \/ (n = Len(up) + 1 /\ up'[n] = m)
    BY <1>3 DEF Pushed
  <2>4. Len(up) + 1 \in DOMAIN up' /\ up'[Len(up) + 1] = m
    BY <1>3 DEF Pushed
  <2>5. \A n \in DOMAIN up' : ~Unsub(n, i)' /\ (Sub(n, i)' => n = Len(up) + 1 /\ up'[n].key = k)
    BY <1>4, <2>1, <2>3 DEF Sub, Unsub
  <2>6. Subbed(i)'
    BY <1>4, <1>8, <2>4 DEF Subbed, Sub
  <2>7. ~(i >= nextId') /\ owner'[i] = k /\ k # None
    BY <1>1, <1>8, Types
  <2>8. subscribed'[i] = None
    BY <2>2 DEF New
  <2> HIDE DEF New, Sub, Unsub, Subbed
  <2> QED BY <2>2, <2>5, <2>6, <2>7, <2>8 DEF Channel
<1> QED BY <1>7, <1>8

\* The last holder lets its channel go.
LEMMA ChannelLetGo ==
    ASSUME WellFormed, Wired, Served, peer = "serving", sock = "open",
           NEW c \in Ids, owner[c] # None, Sends(<<Message("unsub", c, None)>>),
           owner' = [owner EXCEPT ![c] = None],
           UNCHANGED <<nextId, peer, subscribed, dropped, sent, sentVersion, forced, down>>
    PROVE  Served'
<1> SUFFICES ASSUME NEW i \in Ids PROVE Channel(i)'
  BY DEF Served
<1> DEFINE m == Message("unsub", c, None)
<1>1. Pushed(up, m, up')
  BY SendsOne, MessagesSay
<1>2. m.t = "unsub" /\ m.id = c
  BY MessagesSay
<1> HIDE DEF m
<1>3. Channel(i) /\ (Ended(i)' <=> Ended(i))
  BY DEF Served, Ended
<1>4. CASE i # c
  <2>1. Alike(i)
    BY <1>3, <1>4, Types DEF Alike, New
  <2>2. nextId' \in Nat /\ nextId' >= nextId
    BY Types
  <2> QED BY <1>1, <1>2, <1>3, <1>4, <2>1, <2>2, ChannelBeside
<1>5. CASE i = c
  <2>1. c < nextId /\ c \in Nat /\ nextId \in Nat
    BY Types DEF Wired
  <2>2. owner'[i] = None
    BY <1>5, Types
  <2>3. \A n \in DOMAIN up' : (n \in DOMAIN up /\ up'[n] = up[n]) \/ (n = Len(up) + 1 /\ up'[n] = m)
    BY <1>1 DEF Pushed
  <2>4. PICK p \in DOMAIN up' : up'[p] = m /\ \A n \in DOMAIN up : n < p
    BY <1>1 DEF Pushed
  <2>5. \A n \in DOMAIN up' : Sub(n, i)' => Sub(n, i) /\ n \in DOMAIN up
    BY <1>2, <2>3 DEF Sub
  <2>6. Unsub(p, i)'
    BY <1>2, <1>5, <2>4 DEF Unsub
  <2>7. New(i)' <=> New(i)
    BY <1>3, Zenon DEF New
  <2>8. Subbed(i)' => Subbed(i)
    BY <2>5 DEF Subbed
  <2>9. ~(i >= nextId')
    BY <1>5, <2>1
  <2> HIDE DEF New, Sub, Unsub, Subbed
  <2> QED BY <1>3, <2>2, <2>4, <2>5, <2>6, <2>7, <2>8, <2>9 DEF Channel
<1> QED BY <1>4, <1>5

\* The ready of a connection subscribes what is held.
LEMMA ReceiveReadyServed ==
    ASSUME WellFormed, Phases, ReceiveReady PROVE Served'
<1> SUFFICES ASSUME peer' = "serving", NEW i \in Ids PROVE Channel(i)'
  BY DEF Served
<1>1. PICK count \in Nat :
          /\ count <= MaxIds /\ nextId' = count + 1
          /\ \A n \in 1 .. count : owner'[n] \in Keys
          /\ \A n \in Ids : n > count => owner'[n] = None
          /\ Sends([n \in 1 .. count |-> Message("sub", n, owner'[n])])
  BY Readying
<1>2. /\ Receives({"ready"}) /\ UNCHANGED <<peer, subscribed, dropped, sent, sentVersion, forced>>
  BY DEF ReceiveReady, peerVars
<1>3. sock = "open" /\ peer = "serving" /\ 1 \in DOMAIN down /\ down[1].t = "ready"
  BY <1>2, ReceivesOne
<1>4. ~ready /\ Stages /\ Unopened /\ Unready
  BY <1>3, PhaseParts DEF ReadyFirst
<1>5. i \in Nat \ {0} /\ 1 .. count \subseteq Ids
  BY <1>1, Types DEF Ids
<1> DEFINE subs == [n \in 1 .. count |-> Message("sub", n, owner'[n])]
<1>6. \A n \in 1 .. count : subs[n].t = "sub" /\ subs[n].id = n /\ subs[n].key = owner'[n]
  BY MessagesSay
<1>7. subs \in [1 .. count -> Messages]
  <2>1. \A n \in 1 .. count : Message("sub", n, owner'[n]) \in Messages
    BY <1>1, <1>5, MessagesSay
  <2> HIDE DEF Messages, Message
  <2> QED BY <2>1
<1>8. up' = up \o subs
  BY <1>1, <1>3 DEF Sends
<1> HIDE DEF subs
<1>9. /\ DOMAIN up' = 1 .. Len(up) + count
      /\ \A n \in 1 .. Len(up) : up'[n] = up[n]
      /\ \A n \in 1 .. count : up'[Len(up) + n] = subs[n]
      /\ Len(up) \in Nat /\ DOMAIN up = 1 .. Len(up)
  <2>1. up \in Seq(Messages)
    BY DEF WellFormed
  <2> QED BY <1>7, <1>8, <2>1, Concatenating
<1>10. \A n \in 1 .. Len(up) : up'[n].t = "open" /\ up'[n].id = 0
  BY <1>4, <1>9, Queued, MessagesSay DEF Unready
<1>11. \A n \in DOMAIN up' : \/ n \in 1 .. Len(up)
                            \/ /\ n - Len(up) \in 1 .. count
                               /\ up'[n].t = "sub" /\ up'[n].id = n - Len(up)
                               /\ up'[n].key = owner'[n - Len(up)]
  <2> SUFFICES ASSUME NEW n \in DOMAIN up', n \notin 1 .. Len(up)
               PROVE  /\ n - Len(up) \in 1 .. count
                      /\ up'[n].t = "sub" /\ up'[n].id = n - Len(up)
                      /\ up'[n].key = owner'[n - Len(up)]
    OBVIOUS
  <2> DEFINE p == n - Len(up)
  <2>1. p \in 1 .. count /\ n = Len(up) + p
    BY <1>9
  <2> HIDE DEF p
  <2>2. up'[n] = subs[p]
    BY <1>9, <2>1
  <2>3. up'[n].t = "sub" /\ up'[n].id = p /\ up'[n].key = owner'[p]
    BY <1>6, <2>1, <2>2
  <2> QED BY <2>1, <2>3 DEF p
<1>12. \A n \in DOMAIN up' : ~Unsub(n, i)' /\ (Sub(n, i)' => n = Len(up) + i /\ i <= count /\ up'[n].key = owner'[i])
  BY <1>5, <1>9, <1>10, <1>11 DEF Sub, Unsub
<1>13. i <= count => Subbed(i)'
  <2> SUFFICES ASSUME i <= count PROVE Subbed(i)'
    OBVIOUS
  <2>1. PICK n : n = Len(up) + i
    OBVIOUS
  <2>2. n \in DOMAIN up' /\ up'[n] = subs[i] /\ i \in 1 .. count
    BY <1>5, <1>9, <2>1
  <2> QED BY <1>6, <2>2 DEF Subbed, Sub
<1>14. New(i)'
  <2>1. ~Ended(i)
    BY <1>4 DEF Unready, Ended
  <2>2. ~Ended(i)'
    BY <1>2, <1>3, <2>1, EndedRead DEF Ends
  <2> QED BY <1>2, <1>4, <2>2 DEF New, Unopened, Nothing
<1>15. i >= nextId' => \A n \in DOMAIN up' : up'[n].id # i
  BY <1>1, <1>5, <1>9, <1>10, <1>11
<1>16. owner'[i] = None => ~(i <= count)
  BY <1>1, <1>5, Types
<1>17. owner'[i] # None => i <= count
  BY <1>1, <1>5
<1>18. subscribed'[i] = None /\ ~Ended(i)'
  BY <1>14 DEF New
<1> HIDE DEF New, Sub, Unsub, Subbed
<1> QED BY <1>12, <1>13, <1>14, <1>15, <1>16, <1>17, <1>18 DEF Channel

\* An end takes the channel from its entry, unless it was let go already.
LEMMA ReceiveEndServed ==
    ASSUME WellFormed, Phases, Wired, Served, ReceiveEnd PROVE Served'
<1> SUFFICES ASSUME peer' = "serving", NEW i \in Ids PROVE Channel(i)'
  BY DEF Served
<1> DEFINE id == Head(down).id
<1>1. /\ Receives({"subend", "suberr"})
      /\ UNCHANGED <<nextId, up, peer, subscribed, dropped, sent, sentVersion, forced>>
  BY DEF ReceiveEnd, peerVars
<1>2. /\ 1 \in DOMAIN down /\ down[1].t \in Ends /\ down[1].id = id /\ id \in Ids
  BY <1>1, ReceivesOne, FramesSay DEF Ends
<1>3. owner' = owner \/ owner' = [owner EXCEPT ![id] = None]
  BY DEF ReceiveEnd
<1>4. owner'[id] = None /\ \A j \in Ids \ {id} : owner'[j] = owner[j]
  BY <1>2, <1>3, Types DEF ReceiveEnd
<1> HIDE DEF id
<1>5. Channel(i)
  BY <1>1 DEF Served
<1>6. CASE i # id
  <2>1. Ended(i)' <=> Ended(i)
    BY <1>1, <1>2, <1>6, EndedRead
  <2>2. Alike(i)
    BY <1>1, <1>4, <1>6, <2>1 DEF Alike, New
  <2>3. nextId' \in Nat /\ nextId' >= nextId
    BY <1>1, Types
  <2> QED BY <1>1, <1>5, <2>2, <2>3, ChannelBeside
<1>7. CASE i = id
  <2>1. Ended(i)
    BY <1>2, <1>7 DEF Ended
  <2>2. ~New(i) /\ subscribed[i] = None
    BY <1>5, <2>1 DEF Channel, New
  <2>3. ~Subbed(i) /\ ~(i >= nextId)
    BY <1>5, <2>2 DEF Channel
  <2>4. \A n \in DOMAIN up' : ~Sub(n, i)'
    BY <1>1, <2>3 DEF Subbed, Sub
  <2>5. owner'[i] = None /\ subscribed'[i] = None /\ ~(i >= nextId')
    BY <1>1, <1>4, <1>7, <2>2, <2>3
  <2> HIDE DEF New, Sub, Unsub
  <2> QED BY <2>4, <2>5 DEF Channel, Subbed
<1> QED BY <1>6, <1>7

\* The other frames and messages say nothing of channels.
LEMMA StillServed ==
    ASSUME WellFormed, Served, UNCHANGED <<owner, subscribed, dropped, sent, sentVersion, forced, peer, nextId>>,
           \A i \in Ids : Ended(i)' <=> Ended(i),
           \/ UNCHANGED up
           \/ \E m : Pushed(up, m, up') /\ m.t \notin {"sub", "unsub"} /\ m.id < nextId /\ m.id \in Nat
    PROVE  Served'
<1> SUFFICES ASSUME peer = "serving", NEW i \in Ids PROVE Channel(i)'
  BY DEF Served
<1>1. Channel(i) /\ Alike(i)
  BY DEF Served, Alike, New
<1>2. nextId' \in Nat /\ nextId' >= nextId /\ i \in Nat /\ nextId \in Nat
  BY Types
<1>3. ASSUME NEW m, m.id \in Nat, m.id < nextId PROVE m.id # i \/ i < nextId
  BY <1>2, <1>3
<1> QED BY <1>1, <1>2, <1>3, ChannelBeside

\* readLoop
LEMMA ServerReadsServed ==
    ASSUME WellFormed, Served, ServerReads PROVE Served'
<1> SUFFICES ASSUME NEW i \in Ids PROVE Channel(i)'
  BY DEF Served
<1> DEFINE m == up[1]
<1>1. /\ peer = "serving" /\ up # <<>> /\ up' = Tail(up)
      /\ UNCHANGED <<nextId, owner, dropped, sent, sentVersion>>
  BY DEF ServerReads, clientVars, channelVars
<1>2. Popped(up, up') /\ m \in Messages /\ Head(up) = m /\ 1 \in DOMAIN up
  BY <1>1, ServerTakesOne
<1>3. \/ /\ m.t = "sub" /\ subscribed' = [subscribed EXCEPT ![m.id] = m.key]
         /\ UNCHANGED <<forced, down>>
      \/ /\ m.t = "unsub" /\ subscribed' = [subscribed EXCEPT ![m.id] = None]
         /\ UNCHANGED <<forced, down>>
      \/ /\ m.t = "resnap" /\ forced' = [forced EXCEPT ![m.id] = subscribed[m.id] # None]
         /\ UNCHANGED <<subscribed, down>>
      \/ m.t = "ping" /\ Replies(Frame("pong", 0, 0, 0)) /\ UNCHANGED <<subscribed, forced>>
  BY <1>2 DEF ServerReads
<1>4. /\ m.t \in {"sub", "unsub", "resnap"} => m.id \in Ids
      /\ m.t \in {"open", "ping"} => m.id = 0
      /\ m.t = "sub" => m.key \in Keys
  BY <1>2, MessagesSay
<1>5. Channel(i)
  BY <1>1 DEF Served
<1>6. Ended(i)' <=> Ended(i)
  <2>1. CASE UNCHANGED down
    BY <2>1 DEF Ended
  <2>2. CASE Replies(Frame("pong", 0, 0, 0))
    BY <2>2, EndedTold, FramesSay DEF Ends
  <2> QED BY <1>3, <2>1, <2>2
<1>7. i \in Nat \ {0}
  BY Types
<1>8. \A n \in DOMAIN up' : n + 1 \in DOMAIN up /\ up'[n] = up[n + 1] /\ n \in Nat /\ n + 1 # 1
  BY <1>2 DEF Popped
<1>9. \A n \in DOMAIN up' : /\ Sub(n, i)' <=> Sub(n + 1, i)
                            /\ Unsub(n, i)' <=> Unsub(n + 1, i)
  BY <1>8 DEF Sub, Unsub
<1>10. DOMAIN up \subseteq Nat
  BY <1>2 DEF Popped
<1>11. CASE m.t = "sub" /\ m.id = i
  <2>1. Sub(1, i)
    BY <1>11 DEF Sub
  <2>2. New(i) /\ (\A n \in DOMAIN up : Sub(n, i) => n = 1) /\ ~(i >= nextId)
    BY <1>2, <1>5, <1>11, <2>1 DEF Channel, Subbed
  <2>3. \A n \in DOMAIN up' : ~Sub(n, i)'
    BY <1>8, <1>9, <2>2
  <2>4. subscribed'[i] = m.key /\ m.key \in Keys /\ m.key # None
    BY <1>3, <1>4, <1>7, <1>11, Types
  <2>5. CASE owner[i] # None
    <3>1. m.key = owner[i] /\ \A n \in DOMAIN up : ~Unsub(n, i)
      BY <1>2, <1>5, <2>1, <2>5 DEF Channel
    <3>2. \A n \in DOMAIN up' : ~Unsub(n, i)'
      BY <1>8, <1>9, <3>1
    <3>3. ~Ended(i)'
      BY <1>6, <2>2 DEF New
    <3> HIDE DEF New, Sub, Unsub, Ended, m
    <3> QED BY <1>1, <2>2, <2>3, <2>4, <2>5, <3>1, <3>2, <3>3 DEF Channel, Subbed
  <2>6. CASE owner[i] = None
    <3>1. PICK n \in DOMAIN up : 1 < n /\ Unsub(n, i)
      BY <1>2, <1>5, <2>1, <2>6 DEF Channel
    <3>2. n - 1 \in DOMAIN up' /\ up'[n - 1] = up[n]
      BY <1>2, <3>1 DEF Popped
    <3>3. \E p \in DOMAIN up' : Unsub(p, i)'
      BY <3>1, <3>2 DEF Unsub
    <3>4. ~Ended(i)'
      BY <1>6, <2>2 DEF New
    <3> HIDE DEF New, Sub, Unsub, Ended, m
    <3> QED BY <1>1, <2>2, <2>3, <2>4, <2>6, <3>3, <3>4 DEF Channel, Subbed
  <2> QED BY <2>5, <2>6
<1>12. CASE m.t = "unsub" /\ m.id = i
  <2>1. Unsub(1, i)
    BY <1>12 DEF Unsub
  <2>2. owner[i] = None
    BY <1>2, <1>5, <2>1 DEF Channel
  <2>3. ~(i >= nextId)
    BY <1>2, <1>5, <1>12 DEF Channel
  <2>4. subscribed'[i] = None /\ UNCHANGED forced
    BY <1>3, <1>7, <1>12, Types
  <2>5. New(i) => New(i)'
    BY <1>1, <1>6, <2>4 DEF New
  <2>6. Subbed(i)' => New(i)'
    <3>1. Subbed(i)' => Subbed(i)
      BY <1>8, <1>9 DEF Subbed
    <3> QED BY <1>5, <2>5, <3>1 DEF Channel
  <2>7. \A a, b \in DOMAIN up' : Sub(a, i)' /\ Sub(b, i)' => a = b
    <3> HIDE DEF Sub
    <3> QED BY <1>5, <1>8, <1>9 DEF Channel
  <2>8. ASSUME NEW a \in DOMAIN up', Sub(a, i)'
        PROVE  \E b \in DOMAIN up' : a < b /\ Unsub(b, i)'
    <3>1. PICK n \in DOMAIN up : a + 1 < n /\ Unsub(n, i)
      BY <1>5, <1>8, <1>9, <2>2, <2>8 DEF Channel
    <3>2. n - 1 \in DOMAIN up' /\ up'[n - 1] = up[n] /\ a < n - 1
      BY <1>2, <1>8, <3>1 DEF Popped
    <3>3. Unsub(n - 1, i)'
      BY <3>1, <3>2 DEF Unsub
    <3> QED BY <3>2, <3>3
  <2> HIDE DEF New, Sub, Unsub, Subbed
  <2> QED BY <1>1, <2>2, <2>3, <2>4, <2>6, <2>7, <2>8 DEF Channel
<1>13. CASE m.t = "resnap" /\ m.id = i
  <2>1. UNCHANGED <<subscribed, down>> /\ forced'[i] = (subscribed[i] # None)
    BY <1>3, <1>7, <1>13, Types
  <2>2. Alike(i)
    BY <1>1, <1>6, <2>1 DEF Alike, New
  <2> QED BY <1>1, <1>2, <1>5, <1>13, <2>2, ChannelElsewhere
<1>14. CASE m.t = "ping" \/ m.id # i
  <2>1. subscribed'[i] = subscribed[i] /\ forced'[i] = forced[i]
    BY <1>3, <1>4, <1>14, Types
  <2>2. Alike(i)
    BY <1>1, <1>6, <2>1 DEF Alike, New
  <2> QED BY <1>1, <1>2, <1>5, <1>14, <2>2, ChannelElsewhere
<1> QED BY <1>3, <1>11, <1>12, <1>13, <1>14

LEMMA ServerSnapsServed ==
    ASSUME WellFormed, Served, NEW j \in Ids, ServerSnaps(j) PROVE Served'
<1> SUFFICES ASSUME NEW i \in Ids PROVE Channel(i)'
  BY DEF Served
<1>1. /\ peer = "serving" /\ UNCHANGED <<owner, nextId, up, subscribed, dropped>> /\ subscribed[j] # None
      /\ Replies(Frame("snap", j, sent[j] + 1, version[subscribed[j]]))
      /\ \A n \in Ids \ {j} : sent'[n] = sent[n] /\ sentVersion'[n] = sentVersion[n] /\ forced'[n] = forced[n]
  BY Types DEF ServerSnaps, clientVars, channelVars
<1>2. Frame("snap", j, sent[j] + 1, version[subscribed[j]]) \in Frames
  BY <1>1, Types, FramesSay
<1>3. Ended(i)' <=> Ended(i)
  BY <1>1, <1>2, EndedTold, FramesSay DEF Ends
<1>4. Channel(i) /\ Alike(i)
  BY <1>1, <1>3 DEF Served, Alike, New
<1>5. nextId' \in Nat /\ nextId' >= nextId
  BY <1>1, Types
<1> QED BY <1>1, <1>4, <1>5, ChannelBeside

LEMMA ServerEndsServed ==
    ASSUME WellFormed, Served, NEW j \in Ids, ServerEnds(j) PROVE Served'
<1> SUFFICES ASSUME NEW i \in Ids PROVE Channel(i)'
  BY DEF Served
<1>1. /\ peer = "serving" /\ UNCHANGED <<owner, nextId, up, sent, sentVersion, forced>>
      /\ subscribed[j] # None /\ subscribed' = [subscribed EXCEPT ![j] = None]
  BY DEF ServerEnds, clientVars, channelVars
<1>2. \/ UNCHANGED dropped /\ \E f \in Frames : Replies(f) /\ f.t \in Ends /\ f.id = j
      \/ UNCHANGED down /\ dropped' = dropped \cup {j}
  BY FramesSay DEF ServerEnds, Ends
<1>3. /\ \/ Ended(i)' <=> (Ended(i) \/ i = j)
         \/ (Ended(i)' <=> Ended(i)) /\ j \in dropped'
      /\ i \in dropped => i \in dropped'
      /\ i # j => (Ended(i)' <=> Ended(i))
  <2>1. CASE UNCHANGED down /\ dropped' = dropped \cup {j}
    BY <2>1 DEF Ended
  <2>2. ASSUME NEW f \in Frames, Replies(f), f.t \in Ends, f.id = j, UNCHANGED dropped
        PROVE  (Ended(i)' <=> (Ended(i) \/ i = j)) /\ (i \in dropped => i \in dropped')
    BY <2>2, EndedTold
  <2> QED BY <1>2, <2>1, <2>2
<1>4. Channel(i) /\ nextId' \in Nat /\ nextId' >= nextId
  BY <1>1, Types DEF Served
<1>5. CASE i # j
  <2>1. Alike(i)
    BY <1>1, <1>3, <1>5 DEF Alike, New
  <2> QED BY <1>1, <1>4, <2>1, ChannelBeside
<1>6. CASE i = j
  <2>1. ~New(i) /\ ~Subbed(i) /\ ~(i >= nextId)
    BY <1>1, <1>4, <1>6 DEF New, Channel
  <2>2. subscribed'[i] = None /\ (Ended(i)' \/ i \in dropped')
    BY <1>1, <1>3, <1>6, Types
  <2>3. \A n : (Sub(n, i)' <=> Sub(n, i)) /\ (Unsub(n, i)' <=> Unsub(n, i))
    BY <1>1 DEF Sub, Unsub
  <2> HIDE DEF New, Sub, Unsub
  <2> QED BY <1>1, <1>4, <2>1, <2>2, <2>3 DEF Channel, Subbed
<1> QED BY <1>5, <1>6

LEMMA AcquireServed ==
    ASSUME WellFormed, Phases, Wired, Served, NEW k \in Keys, Acquire(k), ready PROVE Served'
<1>1. UNCHANGED <<ready, peer, subscribed, dropped, sent, sentVersion, forced, down>>
  BY DEF Acquire, peerVars
<1>2. CASE AcquireShared(k)
  <2>1. UNCHANGED <<nextId, owner, up>>
    BY <1>2 DEF AcquireShared, channelVars
  <2> QED BY <1>1, <2>1, StillServed DEF Ended
<1>3. CASE AcquireFirst(k)
  <2>1. OpenChannel(k)
    BY <1>3 DEF AcquireFirst
  <2> QED BY <1>1, <2>1, ChannelOpens DEF Served
<1> QED BY <1>2, <1>3 DEF Acquire

LEMMA ReleaseServed ==
    ASSUME WellFormed, Phases, Wired, Served, NEW k \in Keys, Release(k), ready PROVE Served'
<1>1. UNCHANGED <<peer, nextId, subscribed, dropped, sent, sentVersion, forced, down>>
  BY DEF Release, peerVars
<1>2. CASE UNCHANGED <<up, owner>>
  BY <1>1, <1>2, StillServed DEF Ended
<1>3. CASE ~UNCHANGED <<up, owner>>
  <2>1. /\ chan[k] \in Ids
        /\ Sends(<<Message("unsub", chan[k], None)>>) /\ owner' = [owner EXCEPT ![chan[k]] = None]
    BY <1>3, Types DEF Release, ReleaseClosesChannel
  <2>2. owner[chan[k]] # None
    BY <2>1, Types DEF Wired, ChannelsAgree
  <2>3. sock = "open"
    BY DEF Phases
  <2> QED BY <1>1, <2>1, <2>2, <2>3, ChannelLetGo DEF Served
<1> QED BY <1>2, <1>3

LEMMA RetryServed ==
    ASSUME WellFormed, Phases, Wired, Served, NEW k \in Keys, Retry(k), ready PROVE Served'
<1>1. UNCHANGED <<peer, subscribed, dropped, sent, sentVersion, forced, down>>
  BY DEF Retry, peerVars
<1>2. CASE RetryAsks(k)
  <2>1. /\ chan[k] \in Ids /\ chan[k] # 0
        /\ Sends(<<Message("resnap", chan[k], None)>>) /\ UNCHANGED <<nextId, owner>>
    BY <1>2, Types DEF RetryAsks
  <2>2. owner[chan[k]] # None
    BY <2>1, Types DEF Wired, ChannelsAgree
  <2>3. chan[k] < nextId /\ chan[k] \in Nat
    BY <2>1, <2>2, Types DEF Wired
  <2>4. UNCHANGED up \/ Pushed(up, Message("resnap", chan[k], None), up')
    BY <2>1, SendsOne, MessagesSay
  <2> QED BY <1>1, <2>1, <2>3, <2>4, StillServed, MessagesSay DEF Ended
<1>3. CASE RetryOpens(k)
  <2>1. OpenChannel(k)
    BY <1>3 DEF RetryOpens
  <2> QED BY <1>1, <2>1, ChannelOpens DEF Served
<1> QED BY <1>2, <1>3 DEF Retry, RetryWaits

LEMMA PingServed ==
    ASSUME WellFormed, Phases, Wired, Served, Ping PROVE Served'
<1>1. UNCHANGED <<owner, nextId, peer, subscribed, dropped, sent, sentVersion, forced, down>>
  BY DEF Ping, peerVars, channelVars
<1>2. UNCHANGED up \/ Pushed(up, Message("ping", 0, None), up')
  BY SendsOne, MessagesSay DEF Ping
<1>3. 0 < nextId /\ 0 \in Nat
  BY Types
<1> QED BY <1>1, <1>2, <1>3, StillServed, MessagesSay DEF Ended

LEMMA ReceiveSnapshotServed ==
    ASSUME WellFormed, Phases, Wired, Served, ReceiveSnapshot PROVE Served'
<1>1. /\ Receives({"snap"})
      /\ UNCHANGED <<owner, nextId, peer, subscribed, dropped, sent, sentVersion, forced>>
  BY DEF ReceiveSnapshot, peerVars
<1>2. \A i \in Ids : Ended(i)' <=> Ended(i)
  BY <1>1, ReceivesOne, EndedRead DEF Ends
<1>3. Head(down).id \in Ids
  BY <1>1, ReceivesOne, FramesSay
<1>4. CASE UNCHANGED up
  BY <1>1, <1>2, <1>4, StillServed
<1>5. CASE ~UNCHANGED up
  <2>1. owner[Head(down).id] # None
    BY <1>5 DEF ReceiveSnapshot
  <2>2. Sends(<<Message("resnap", Head(down).id, None)>>) \/ Sends(<<>>)
    BY <1>5 DEF ReceiveSnapshot
  <2>3. ~Sends(<<>>)
    <3>1. up \in Seq(Messages)
      BY DEF WellFormed
    <3> QED BY <1>5, <3>1 DEF Sends
  <2>4. Pushed(up, Message("resnap", Head(down).id, None), up')
    BY <1>3, <1>5, <2>2, <2>3, SendsOne, MessagesSay
  <2>5. Head(down).id < nextId /\ Head(down).id \in Nat
    BY <1>3, <2>1, Types DEF Wired
  <2> QED BY <1>1, <1>2, <2>4, <2>5, StillServed, MessagesSay
<1> QED BY <1>4, <1>5

LEMMA ReceiveOtherServed ==
    ASSUME WellFormed, Phases, Wired, Served, ReceiveMismatch \/ ReceiveGarbage \/ ReceivePong
    PROVE  Served'
<1>1. UNCHANGED <<owner, nextId, up, peer, subscribed, dropped, sent, sentVersion, forced>>
  BY DEF ReceiveMismatch, ReceiveGarbage, ReceivePong, channelVars, peerVars
<1>2. PICK kinds : Receives(kinds) /\ kinds \cap Ends = {}
  BY DEF ReceiveMismatch, ReceiveGarbage, ReceivePong, Ends
<1>3. \A i \in Ids : Ended(i)' <=> Ended(i)
  BY <1>2, ReceivesOne, EndedRead
<1> QED BY <1>1, <1>3, StillServed

LEMMA ServerSaysMoreServed ==
    ASSUME WellFormed, Phases, Wired, Served, ServerSaysMore PROVE Served'
<1>1. UNCHANGED <<owner, nextId, up, peer, subscribed, dropped, sent, sentVersion, forced>>
  BY DEF ServerSaysMore, clientVars, channelVars, peerVars
<1>2. \A i \in Ids : Ended(i)' <=> Ended(i)
  BY EndedTold, FramesSay DEF ServerSaysMore, Ends
<1> QED BY <1>1, <1>2, StillServed

LEMMA ChangeServed ==
    ASSUME WellFormed, Phases, Wired, Served, NEW k \in Keys, Change(k) PROVE Served'
<1>1. UNCHANGED <<owner, nextId, up, down, peer, subscribed, dropped, sent, sentVersion, forced>>
  BY DEF Change, clientVars, channelVars, peerVars
<1> QED BY <1>1, StillServed DEF Ended

\* These steps end a service or come before it.
LEMMA ServingGoesOn ==
    ASSUME WellFormed, Phases, ready', peer' = "serving"
    PROVE  ~(Start \/ Stop \/ Reconnect \/ PongTimeout \/ SocketCloses \/ ConnectionLost \/ SocketRejected
               \/ SocketOpens \/ ServerAccepts \/ ServerRestarts \/ GoesSilent)
<1>1. ready => peer # "handshake" /\ sock = "open"
  BY DEF Phases
<1>2. Start \/ Reconnect => sock = "none"
  BY DEF Phases, OneWayForward, Start, Reconnect
<1>3. Start \/ Reconnect \/ SocketOpens \/ ServerAccepts => ready' = ready
  BY DEF Start, Reconnect, Connect, SocketOpens, ServerAccepts, clientVars
<1>4. ~(Stop \/ PongTimeout \/ SocketCloses \/ ConnectionLost \/ SocketRejected)
  BY DEF Stop, PongTimeout, SocketCloses, ConnectionLost, OnClose, SocketRejected, Disconnect
<1>5. ~(ServerRestarts \/ GoesSilent)
  BY DEF ServerRestarts, GoesSilent
<1>6. ~(SocketOpens \/ ServerAccepts)
  BY <1>1, <1>3 DEF SocketOpens, ServerAccepts
<1> QED BY <1>1, <1>2, <1>3, <1>4, <1>5, <1>6

\* What goes on while a connection is served neither begins nor ends it.
LEMMA WasServed ==
    ASSUME Next, ready', peer' = "serving", ~ReceiveReady,
           ~(Start \/ Stop \/ Reconnect \/ PongTimeout \/ SocketCloses \/ ConnectionLost \/ SocketRejected
               \/ SocketOpens \/ ServerAccepts \/ ServerRestarts \/ GoesSilent)
    PROVE  ready /\ peer = "serving"
<1>1. ASSUME NEW k \in Keys, Acquire(k) \/ Release(k) \/ Retry(k) \/ Change(k)
      PROVE  UNCHANGED <<ready, peer>>
  BY <1>1, Zenon DEF Acquire, Release, Retry, Change, clientVars
<1>2. CASE Ping \/ ReceiveMismatch \/ ReceiveGarbage \/ ReceiveSnapshot \/ ReceiveEnd \/ ReceivePong
  BY <1>2, Zenon DEF Ping, ReceiveMismatch, ReceiveGarbage, ReceiveSnapshot, ReceiveEnd, ReceivePong
<1>3. CASE ServerReads \/ ServerSaysMore
  BY <1>3, Zenon DEF ServerReads, ServerSaysMore, clientVars
<1>4. ASSUME NEW i \in Ids, ServerSnaps(i) \/ ServerEnds(i) PROVE UNCHANGED <<ready, peer>>
  BY <1>4, Zenon DEF ServerSnaps, ServerEnds, clientVars
<1> QED BY <1>1, <1>2, <1>3, <1>4 DEF Next

LEMMA ServedStep ==
    ASSUME WellFormed, Phases, Wired, Served, WellFormed', Phases', Wired', Next
    PROVE  Served'
<1>1. CASE ~ready'
  BY <1>1, ChannelsBeforeReady
<1>2. CASE peer' # "serving"
  BY <1>2 DEF Served
<1>3. CASE ready' /\ peer' = "serving"
  <2>1. CASE Start \/ Stop \/ Reconnect \/ PongTimeout \/ SocketCloses \/ ConnectionLost \/ SocketRejected
             \/ SocketOpens \/ ServerAccepts \/ ServerRestarts \/ GoesSilent
    BY <1>3, <2>1, ServingGoesOn
  <2>2. ASSUME NEW k \in Keys, Acquire(k) \/ Release(k) \/ Retry(k) PROVE Served'
    <3>1. ready
      BY <1>3, <2>2 DEF Acquire, Release, Retry
    <3> QED BY <2>2, <3>1, AcquireServed, ReleaseServed, RetryServed
  <2>3. ASSUME NEW k \in Keys, Change(k) PROVE Served'
    BY <2>3, ChangeServed
  <2>4. ASSUME NEW i \in Ids, ServerSnaps(i) \/ ServerEnds(i) PROVE Served'
    BY <2>4, ServerSnapsServed, ServerEndsServed
  <2> QED BY <2>1, <2>2, <2>3, <2>4, PingServed, ReceiveReadyServed, ReceiveSnapshotServed,
             ReceiveEndServed,
             ReceiveOtherServed, ServerReadsServed, ServerSaysMoreServed DEF Next
<1> QED BY <1>1, <1>2, <1>3

-----------------------------------------------------------------------------
(* Snapshots that do not decode.                                             *)

LEMMA BadGrows ==
    /\ \A n \in Nat : Bad(n) \in Nat
    /\ \A m, n \in Nat : m <= n => Bad(m) <= Bad(n)
    /\ \A n \in Nat : Bad(n + 1) = Bad(n) + IF n \in Undecodable THEN 1 ELSE 0
<1> DEFINE S(n) == Undecodable \cap 0 .. n - 1
<1>1. \A n \in Nat : IsFiniteSet(S(n)) /\ Cardinality(S(n)) \in Nat
  <2> SUFFICES ASSUME NEW n \in Nat PROVE IsFiniteSet(S(n)) /\ Cardinality(S(n)) \in Nat
    OBVIOUS
  <2>1. IsFiniteSet(0 .. n - 1)
    BY FS_Interval
  <2>2. S(n) \subseteq 0 .. n - 1
    OBVIOUS
  <2> QED BY <2>1, <2>2, FS_Subset, FS_CardinalityType
<1>2. ASSUME NEW m \in Nat, NEW n \in Nat, m <= n PROVE Cardinality(S(m)) <= Cardinality(S(n))
  <2>1. S(m) \subseteq S(n)
    BY <1>2
  <2> QED BY <1>1, <2>1, FS_Subset
<1>3. ASSUME NEW n \in Nat
      PROVE  Cardinality(S(n + 1)) = Cardinality(S(n)) + IF n \in Undecodable THEN 1 ELSE 0
  <2>1. S(n + 1) = IF n \in Undecodable THEN S(n) \cup {n} ELSE S(n)
    OBVIOUS
  <2>2. n \notin S(n)
    OBVIOUS
  <2> HIDE DEF S
  <2>3. IsFiniteSet(S(n)) /\ Cardinality(S(n)) \in Nat
    BY <1>1
  <2>4. Cardinality(S(n) \cup {n}) = Cardinality(S(n)) + 1
    BY <2>2, <2>3, FS_AddElement
  <2> QED BY <2>1, <2>3, <2>4
<1> QED BY <1>1, <1>2, <1>3 DEF Bad

\* The snapshots asked for on a queue
LEMMA AsksCounted ==
    ASSUME NEW s, NEW i, DOMAIN s = 1 .. Len(s), Len(s) \in Nat
    PROVE  IsFiniteSet(Asks(s, i)) /\ Cardinality(Asks(s, i)) \in Nat
<1>1. IsFiniteSet(DOMAIN s) /\ Asks(s, i) \subseteq DOMAIN s
  BY FS_Interval DEF Asks
<1> QED BY <1>1, FS_Subset, FS_CardinalityType

LEMMA AsksPushed ==
    ASSUME NEW s, NEW m, NEW r, NEW i, Pushed(s, m, r)
    PROVE  Cardinality(Asks(r, i)) = Cardinality(Asks(s, i)) + IF m.t = "resnap" /\ m.id = i THEN 1 ELSE 0
<1>1. IsFiniteSet(Asks(s, i)) /\ Cardinality(Asks(s, i)) \in Nat
  BY AsksCounted DEF Pushed
<1>2. Asks(r, i) = IF m.t = "resnap" /\ m.id = i THEN Asks(s, i) \cup {Len(s) + 1} ELSE Asks(s, i)
  <2>1. \A n \in DOMAIN r : (n \in DOMAIN s /\ r[n] = s[n]) \/ (n = Len(s) + 1 /\ r[n] = m)
    BY DEF Pushed
  <2>2. DOMAIN s \subseteq DOMAIN r /\ Len(s) + 1 \in DOMAIN r /\ \A n \in DOMAIN s : n # Len(s) + 1 /\ r[n] = s[n]
    BY DEF Pushed
  <2> QED BY <2>1, <2>2 DEF Asks
<1>3. Len(s) + 1 \notin Asks(s, i)
  BY DEF Asks, Pushed
<1>4. Cardinality(Asks(s, i) \cup {Len(s) + 1}) = Cardinality(Asks(s, i)) + 1
  BY <1>1, <1>3, FS_AddElement
<1> QED BY <1>1, <1>2, <1>4

LEMMA AsksPopped ==
    ASSUME NEW s, NEW r, NEW i, Popped(s, r), DOMAIN r = 1 .. Len(r), Len(r) \in Nat
    PROVE  Cardinality(Asks(s, i)) = Cardinality(Asks(r, i)) + IF s[1].t = "resnap" /\ s[1].id = i THEN 1 ELSE 0
<1> DEFINE later == Asks(s, i) \ {1}
           f == [n \in Asks(r, i) |-> n + 1]
<1>1. IsFiniteSet(Asks(s, i)) /\ Cardinality(Asks(s, i)) \in Nat /\ IsFiniteSet(Asks(r, i)) /\ Cardinality(Asks(r, i)) \in Nat
  BY AsksCounted DEF Popped
<1>2. f \in Bijection(Asks(r, i), later)
  <2>1. \A n \in Asks(r, i) : n + 1 \in later
    BY DEF Asks, Popped
  <2>2. \A n \in later : \E p \in Asks(r, i) : p + 1 = n
    <3> SUFFICES ASSUME NEW n \in later PROVE \E p \in Asks(r, i) : p + 1 = n
      OBVIOUS
    <3>1. n \in 2 .. Len(s) /\ s[n].t = "resnap" /\ s[n].id = i
      BY DEF Asks, Popped
    <3>2. n - 1 \in DOMAIN r /\ r[n - 1] = s[n] /\ (n - 1) + 1 = n
      BY <3>1 DEF Popped
    <3> QED BY <3>1, <3>2 DEF Asks
  <2>3. Asks(r, i) \subseteq Nat
    BY DEF Asks
  <2> QED BY <2>1, <2>2, <2>3 DEF Bijection, Injection, Surjection, IsInjective
<1>3. Cardinality(later) = Cardinality(Asks(r, i))
  BY <1>1, <1>2, FS_Bijection DEF ExistsBijection
<1>4. 1 \in Asks(s, i) <=> s[1].t = "resnap" /\ s[1].id = i
  BY DEF Asks, Popped
<1>5. Cardinality(later) = IF 1 \in Asks(s, i) THEN Cardinality(Asks(s, i)) - 1 ELSE Cardinality(Asks(s, i))
  BY <1>1, FS_RemoveElement
<1> HIDE DEF later
<1> QED BY <1>1, <1>3, <1>4, <1>5

\* The numbers of a channel
LEMMA MeterTypes ==
    (WellFormed =>
        \A i \in Ids :
            /\ sent[i] \in Nat /\ sentVersion[i] \in Nat /\ Asked(i) \in Nat /\ acts \in Nat
            /\ Coming(i) \subseteq Nat /\ sentVersion[i] \in Coming(i)
            /\ \A v \in Nat : Budget(i, v) \in Nat
            /\ Load(i) \in Nat)
<1> SUFFICES ASSUME WellFormed, NEW i \in Ids
             PROVE  /\ sent[i] \in Nat /\ sentVersion[i] \in Nat /\ Asked(i) \in Nat /\ acts \in Nat
                    /\ Coming(i) \subseteq Nat /\ sentVersion[i] \in Coming(i)
                    /\ \A v \in Nat : Budget(i, v) \in Nat
                    /\ Load(i) \in Nat
  OBVIOUS
<1>1. sent[i] \in Nat /\ sentVersion[i] \in Nat /\ acts \in Nat
  BY Types, Parts DEF Counts
<1>2. Asked(i) \in Nat
  BY Queued, AsksCounted DEF Asked
<1>3. Coming(i) \subseteq Nat /\ sentVersion[i] \in Coming(i)
  BY <1>1, Queued, FramesSay, Types DEF Coming, Snap
<1>4. \A v \in Nat : Budget(i, v) \in Nat
  BY BadGrows DEF Budget
<1>5. Load(i) \in Nat
  BY <1>1, <1>2 DEF Load
<1> QED BY <1>1, <1>2, <1>3, <1>4, <1>5

LEMMA MeterTypesNext ==
    (WellFormed =>
        \A i \in Ids :
            /\ sent[i] \in Nat /\ sentVersion[i] \in Nat /\ Asked(i) \in Nat /\ acts \in Nat
            /\ Coming(i) \subseteq Nat /\ sentVersion[i] \in Coming(i)
            /\ \A v \in Nat : Budget(i, v) \in Nat
            /\ Load(i) \in Nat)'
BY MeterTypes, PTL

\* A channel with nothing sent or asked for twice is within its bound.
LEMMA LightIsBounded ==
    (WellFormed => \A i \in Ids : Load(i) <= 1 => Bounded(i))
<1> SUFFICES ASSUME WellFormed, NEW i \in Ids, Load(i) <= 1, NEW v \in Coming(i)
             PROVE  Load(i) <= 1 + sentVersion[i] + Budget(i, v) + 2 * acts
  BY DEF Bounded
<1>1. /\ sentVersion[i] \in Nat /\ acts \in Nat /\ v \in Nat /\ Load(i) \in Nat
      /\ Budget(i, v) \in Nat
  BY MeterTypes
<1> HIDE DEF Load, Budget
<1> QED BY <1>1

LEMMA LightIsBoundedNext ==
    (WellFormed => \A i \in Ids : Load(i) <= 1 => Bounded(i))'
BY LightIsBounded, PTL

\* A channel stays within its bound when no more was sent or asked for than its
\* user did, and what may have been asked for did not shrink by more.
LEMMA StillBounded ==
    ASSUME WellFormed, WellFormed', NEW i \in Ids, Bounded(i), Coming(i)' \subseteq Coming(i),
           sentVersion'[i] = sentVersion[i], acts' >= acts,
           \A v \in Nat : Load(i)' + Budget(i, v) <= Load(i) + Budget(i, v)' + 2 * (acts' - acts)
    PROVE  Bounded(i)'
<1> SUFFICES ASSUME NEW v \in Coming(i)'
             PROVE  Load(i)' <= 1 + sentVersion'[i] + Budget(i, v)' + 2 * acts'
  BY DEF Bounded
<1>1. /\ sentVersion[i] \in Nat /\ acts \in Nat /\ Load(i) \in Nat /\ Coming(i) \subseteq Nat
      /\ \A n \in Nat : Budget(i, n) \in Nat
  BY MeterTypes
<1>2. acts' \in Nat /\ Load(i)' \in Nat /\ \A n \in Nat : Budget(i, n)' \in Nat
  BY MeterTypesNext
<1>3. v \in Nat /\ v \in Coming(i)
  BY <1>1
<1>4. Load(i) <= 1 + sentVersion[i] + Budget(i, v) + 2 * acts
  BY <1>3 DEF Bounded
<1>5. Load(i)' + Budget(i, v) <= Load(i) + Budget(i, v)' + 2 * (acts' - acts)
  BY <1>3
<1>6. Budget(i, v) \in Nat /\ Budget(i, v)' \in Nat
  BY <1>1, <1>2, <1>3
<1> HIDE DEF Load, Budget, Coming
<1> QED BY <1>1, <1>2, <1>4, <1>5, <1>6

\* The budget only depends on the entry and its use of the automatic resnap.
LEMMA BudgetSame ==
    ASSUME NEW i \in Ids, owner'[i] = owner[i], owner[i] # None => used'[owner[i]] = used[owner[i]]
    PROVE  \A v \in Nat : Budget(i, v)' = Budget(i, v)
BY DEF Budget, Bad

LEMMA BudgetLetGo ==
    ASSUME NEW i \in Ids, owner'[i] = None
    PROVE  \A v \in Nat : Budget(i, v) <= Budget(i, v)'
<1> SUFFICES ASSUME NEW v \in Nat PROVE Budget(i, v) <= Budget(i, v)'
  OBVIOUS
<1>1. Budget(i, v)' = Bad(v + 1)
  BY DEF Budget, Bad
<1>2. Bad(v) <= Bad(v + 1) /\ Bad(v + 1) <= Bad(v + 1)
  BY BadGrows
<1> QED BY <1>1, <1>2 DEF Budget

\* What is on its way
LEMMA ComingRead ==
    ASSUME WellFormed, NEW kinds, Receives(kinds), NEW i \in Ids, sentVersion'[i] = sentVersion[i]
    PROVE  /\ Coming(i)' \subseteq Coming(i)
           /\ InOrder(i) /\ subscribed'[i] \in {subscribed[i], None} /\ UNCHANGED version => InOrder(i)'
<1>1. Popped(down, down')
  BY ReceivesOne
<1>2. \A n \in DOMAIN down' : n \in Nat /\ n + 1 \in DOMAIN down /\ down'[n] = down[n + 1]
  BY <1>1 DEF Popped
<1>3. \A n \in DOMAIN down' : (Snap(n, i)' <=> Snap(n + 1, i)) /\ down'[n].version = down[n + 1].version
  BY <1>2 DEF Snap
<1> HIDE DEF Snap
<1>4. Coming(i)' \subseteq Coming(i)
  BY <1>2, <1>3 DEF Coming
<1>5. ASSUME InOrder(i), subscribed'[i] \in {subscribed[i], None}, UNCHANGED version
      PROVE  InOrder(i)'
  <2>1. \A m, n \in DOMAIN down' : m < n => m + 1 < n + 1
    BY <1>2
  <2>2. \A m, n \in DOMAIN down' : Snap(m, i)' /\ Snap(n, i)' /\ m < n => down'[m].version <= down'[n].version
    BY <1>2, <1>3, <1>5, <2>1 DEF InOrder
  <2>3. \A n \in DOMAIN down' : Snap(n, i)' => down'[n].version <= sentVersion'[i]
    BY <1>2, <1>3, <1>5 DEF InOrder
  <2> QED BY <1>5, <2>2, <2>3, Types DEF InOrder
<1> QED BY <1>4, <1>5

\* The snapshots of a channel when the frame that is sent is not one of them
LEMMA SnapsBeside ==
    ASSUME WellFormed, NEW i \in Ids,
           \/ UNCHANGED down
           \/ \E f \in Frames : Replies(f) /\ (f.t # "snap" \/ f.id # i)
    PROVE  /\ \A n \in DOMAIN down' : Snap(n, i)' => n \in DOMAIN down /\ down'[n] = down[n] /\ Snap(n, i)
           /\ \A n \in DOMAIN down : n \in DOMAIN down' /\ down'[n] = down[n] /\ (Snap(n, i) => Snap(n, i)')
<1>1. CASE UNCHANGED down
  BY <1>1 DEF Snap
<1>2. CASE ~UNCHANGED down
  <2>1. PICK f : Pushed(down, f, down') /\ (f.t # "snap" \/ f.id # i)
    BY <1>2, RepliesOne
  <2> QED BY <2>1 DEF Pushed, Snap
<1> QED BY <1>1, <1>2

LEMMA ComingBeside ==
    ASSUME WellFormed, NEW i \in Ids, sentVersion'[i] = sentVersion[i],
           \/ UNCHANGED down
           \/ \E f \in Frames : Replies(f) /\ (f.t # "snap" \/ f.id # i)
    PROVE  /\ Coming(i)' = Coming(i)
           /\ InOrder(i) /\ subscribed'[i] \in {subscribed[i], None} /\ UNCHANGED version => InOrder(i)'
<1>1. /\ \A n \in DOMAIN down' : Snap(n, i)' => n \in DOMAIN down /\ down'[n] = down[n] /\ Snap(n, i)
      /\ \A n \in DOMAIN down : n \in DOMAIN down' /\ down'[n] = down[n] /\ (Snap(n, i) => Snap(n, i)')
  BY SnapsBeside
<1> HIDE DEF Snap
<1>2. Coming(i)' = Coming(i)
  BY <1>1 DEF Coming
<1>3. ASSUME InOrder(i), subscribed'[i] \in {subscribed[i], None}, UNCHANGED version
      PROVE  InOrder(i)'
  BY <1>1, <1>3, Types DEF InOrder
<1> QED BY <1>2, <1>3

LEMMA AskedSends ==
    ASSUME WellFormed, NEW m \in Messages, Sends(<<m>>), NEW i \in Ids
    PROVE  /\ Asked(i)' <= Asked(i) + 1
           /\ m.t # "resnap" \/ m.id # i => Asked(i)' = Asked(i)
<1>1. CASE Pushed(up, m, up')
  BY <1>1, AsksPushed, MeterTypes DEF Asked
<1>2. CASE up' = up
  BY <1>2, MeterTypes DEF Asked
<1> QED BY <1>1, <1>2, SendsOne

LEMMA AskedTaken ==
    ASSUME WellFormed, up # <<>>, up' = Tail(up), NEW i \in Ids
    PROVE  Asked(i) = Asked(i)' + IF up[1].t = "resnap" /\ up[1].id = i THEN 1 ELSE 0
<1>1. Popped(up, up') /\ up' \in Seq(Messages)
  BY ServerTakesOne
<1>2. DOMAIN up' = 1 .. Len(up') /\ Len(up') \in Nat
  BY <1>1
<1> QED BY <1>1, <1>2, AsksPopped DEF Asked

LEMMA LoadSame ==
    ASSUME NEW i \in Ids, sent'[i] = sent[i], forced'[i] = forced[i], Asked(i)' = Asked(i)
    PROVE  Load(i)' = Load(i)
BY DEF Load

InMeasure(i) == InOrder(i) /\ Bounded(i)

\* Before the ready nothing was sent.
LEMMA MeasureBeforeReady ==
    (WellFormed /\ Phases /\ ~ready => \A i \in Ids : InMeasure(i))
<1> SUFFICES ASSUME WellFormed, Phases, ~ready, NEW i \in Ids PROVE InMeasure(i)
  OBVIOUS
<1>1. Unopened /\ Unready
  BY PhaseParts
<1>2. /\ subscribed[i] = None /\ sent[i] = 0 /\ sentVersion[i] = 0 /\ ~forced[i]
  BY <1>1 DEF Unopened, Nothing
<1>3. Asks(up, i) = {}
  BY <1>1 DEF Unready, Asks
<1>4. Asked(i) = 0
  BY <1>3, FS_EmptySet DEF Asked
<1>5. Load(i) <= 1
  BY <1>2, <1>4 DEF Load
<1>6. InOrder(i)
  BY <1>1, <1>2, Types DEF InOrder, Unready, Snap
<1> QED BY <1>5, <1>6, LightIsBounded DEF InMeasure

LEMMA MeasureBeforeReadyNext ==
    (WellFormed /\ Phases /\ ~ready => \A i \in Ids : InMeasure(i))'
BY MeasureBeforeReady, PTL

\* A step beside channel i, of the client or of the server
LEMMA MeasureBeside ==
    ASSUME WellFormed, WellFormed', NEW i \in Ids, InMeasure(i),
           sent'[i] = sent[i], forced'[i] = forced[i], sentVersion'[i] = sentVersion[i],
           subscribed'[i] \in {subscribed[i], None}, UNCHANGED version,
           Asked(i)' = Asked(i), acts' >= acts,
           owner'[i] = None \/ (owner'[i] = owner[i] /\ (owner[i] # None => used'[owner[i]] = used[owner[i]])),
           \/ UNCHANGED down
           \/ \E kinds : Receives(kinds)
           \/ \E f \in Frames : Replies(f) /\ (f.t # "snap" \/ f.id # i)
    PROVE  InMeasure(i)'
<1>1. Load(i)' = Load(i) /\ Load(i) \in Nat
  BY LoadSame, MeterTypes
<1>2. \A v \in Nat : Budget(i, v) \in Nat /\ Budget(i, v)' \in Nat /\ Budget(i, v) <= Budget(i, v)'
  BY BudgetSame, BudgetLetGo, MeterTypes, MeterTypesNext
<1>3. Coming(i)' \subseteq Coming(i) /\ InOrder(i)'
  BY ComingRead, ComingBeside DEF InMeasure
<1>4. acts \in Nat /\ acts' \in Nat
  BY MeterTypes, MeterTypesNext
<1>5. \A v \in Nat : Load(i)' + Budget(i, v) <= Load(i) + Budget(i, v)' + 2 * (acts' - acts)
  <2> HIDE DEF Load, Budget
  <2> QED BY <1>1, <1>2, <1>4
<1>6. Bounded(i)'
  BY <1>3, <1>5, StillBounded DEF InMeasure
<1> QED BY <1>3, <1>6 DEF InMeasure

\* openChannel
LEMMA OpeningMeasured ==
    ASSUME WellFormed, WellFormed', Wired, \A i \in Ids : Channel(i) /\ InMeasure(i),
           NEW k \in Keys, OpenChannel(k), chan[k] = 0, acts' >= acts,
           UNCHANGED <<sent, forced, sentVersion, subscribed, version, down>>
    PROVE  \A i \in Ids : InMeasure(i)'
<1>1. /\ nextId \in Ids /\ \A j \in Keys \ {k} : used'[j] = used[j]
      /\ \A n \in Ids \ {nextId} : owner'[n] = owner[n]
  BY Opening
<1>2. Message("sub", nextId, k) \in Messages /\ Message("sub", nextId, k).t # "resnap"
  BY <1>1, MessagesSay
<1>3. \A i \in Ids : Asked(i)' = Asked(i)
  BY <1>2, AskedSends DEF OpenChannel
<1>4. ASSUME NEW i \in Ids, i # nextId PROVE InMeasure(i)'
  <2>1. owner[i] # k
    BY Types DEF Wired, ChannelsAgree
  <2>2. owner'[i] = owner[i] /\ (owner[i] # None => used'[owner[i]] = used[owner[i]])
    BY <1>1, <1>4, <2>1, Types
  <2> QED BY <1>3, <2>2, MeasureBeside
<1>5. ASSUME NEW i \in Ids, i = nextId PROVE InMeasure(i)'
  <2>1. New(i) /\ \A n \in DOMAIN up : up[n].id # i
    BY <1>1, <1>5, Types DEF Channel
  <2>2. Asks(up, i) = {}
    BY <2>1 DEF Asks
  <2>3. Asked(i)' = 0
    BY <1>3, <2>2, FS_EmptySet DEF Asked
  <2>4. Load(i)' <= 1
    BY <2>1, <2>3 DEF Load, New
  <2>5. Bounded(i)'
    BY <2>4, LightIsBoundedNext
  <2>6. InOrder(i)'
    BY ComingBeside DEF InMeasure
  <2> QED BY <2>5, <2>6 DEF InMeasure
<1> QED BY <1>4, <1>5

LEMMA AcquireMeasured ==
    ASSUME WellFormed, WellFormed', Wired, \A i \in Ids : Channel(i) /\ InMeasure(i),
           NEW k \in Keys, Acquire(k), ready
    PROVE  \A i \in Ids : InMeasure(i)'
<1>1. UNCHANGED <<sent, forced, sentVersion, subscribed, version, down, acts>> /\ acts' >= acts
  BY MeterTypes, Parts DEF Acquire, peerVars, serverVars, lifeVars, Counts
<1>2. CASE AcquireShared(k)
  <2>1. UNCHANGED <<owner, used, up>>
    BY <1>2 DEF AcquireShared, channelVars
  <2>2. \A i \in Ids : Asked(i)' = Asked(i)
    BY <2>1 DEF Asked
  <2> QED BY <1>1, <2>1, <2>2, MeasureBeside
<1>3. CASE AcquireFirst(k)
  <2>1. OpenChannel(k) /\ chan[k] = 0
    BY <1>3, Types DEF AcquireFirst, Wired
  <2> QED BY <1>1, <2>1, OpeningMeasured
<1> QED BY <1>2, <1>3 DEF Acquire

LEMMA ReleaseMeasured ==
    ASSUME WellFormed, WellFormed', \A i \in Ids : InMeasure(i), NEW k \in Keys, Release(k)
    PROVE  \A i \in Ids : InMeasure(i)'
<1>1. UNCHANGED <<sent, forced, sentVersion, subscribed, version, down, acts, used>> /\ acts' >= acts
  BY MeterTypes, Parts DEF Release, peerVars, serverVars, lifeVars, Counts
<1>2. CASE UNCHANGED <<up, owner>>
  <2>1. \A i \in Ids : Asked(i)' = Asked(i)
    BY <1>2 DEF Asked
  <2> QED BY <1>1, <1>2, <2>1, MeasureBeside
<1>3. CASE ~UNCHANGED <<up, owner>>
  <2>1. /\ chan[k] \in Ids
        /\ Sends(<<Message("unsub", chan[k], None)>>) /\ owner' = [owner EXCEPT ![chan[k]] = None]
    BY <1>3, Types DEF Release, ReleaseClosesChannel
  <2>2. \A i \in Ids : Asked(i)' = Asked(i)
    BY <2>1, AskedSends, MessagesSay
  <2>3. \A i \in Ids : owner'[i] = None \/ owner'[i] = owner[i]
    BY <2>1, Types
  <2> QED BY <1>1, <2>2, <2>3, MeasureBeside
<1> QED BY <1>2, <1>3

LEMMA RetryAsksMeasured ==
    ASSUME WellFormed, WellFormed', Wired, NEW k \in Keys, Retry(k), RetryAsks(k),
           NEW i \in Ids, InMeasure(i)
    PROVE  InMeasure(i)'
<1>1. /\ UNCHANGED <<sent, forced, sentVersion, subscribed, version, down, owner>>
      /\ acts' = acts + 1 /\ used' = [used EXCEPT ![k] = FALSE]
      /\ chan[k] \in Ids /\ Sends(<<Message("resnap", chan[k], None)>>)
  BY Types DEF Retry, RetryAsks, Act, peerVars, serverVars
<1>2. acts \in Nat /\ acts' \in Nat /\ Asked(i) \in Nat /\ Asked(i)' \in Nat
  BY MeterTypes, MeterTypesNext
<1>3. Asked(i)' <= Asked(i) + 1 /\ (chan[k] # i => Asked(i)' = Asked(i))
  BY <1>1, AskedSends, MessagesSay
<1>4. CASE chan[k] # i
  <2>1. owner[i] # k
    BY <1>4 DEF Wired, ChannelsAgree
  <2>2. acts' >= acts
    BY <1>1, <1>2
  <2>3. owner[i] # None => used'[owner[i]] = used[owner[i]]
    BY <1>1, <2>1, Types
  <2> QED BY <1>1, <1>3, <1>4, <2>2, <2>3, MeasureBeside
<1>5. CASE chan[k] = i
  <2>1. Coming(i)' \subseteq Coming(i) /\ InOrder(i)'
    BY <1>1, ComingBeside DEF InMeasure
  <2>2. Load(i) \in Nat /\ Load(i)' \in Nat /\ Load(i)' <= Load(i) + 1
    <3>1. Load(i) \in Nat /\ Load(i)' \in Nat /\ sent[i] \in Nat
      BY MeterTypes, MeterTypesNext
    <3> QED BY <1>1, <1>2, <1>3, <3>1 DEF Load
  <2>3. \A v \in Nat : Budget(i, v) <= Budget(i, v)' + 1 /\ Budget(i, v) \in Nat /\ Budget(i, v)' \in Nat
    <3> SUFFICES ASSUME NEW v \in Nat
                 PROVE  Budget(i, v) <= Budget(i, v)' + 1 /\ Budget(i, v) \in Nat /\ Budget(i, v)' \in Nat
      OBVIOUS
    <3>1. Bad(v) \in Nat /\ Bad(v + 1) \in Nat /\ Bad(v) <= Bad(v + 1) /\ Bad(v + 1) <= Bad(v) + 1
      <4>1. v + 1 \in Nat /\ v <= v + 1
        OBVIOUS
      <4>2. Bad(v) \in Nat /\ Bad(v + 1) \in Nat /\ Bad(v) <= Bad(v + 1)
        BY <4>1, BadGrows
      <4>3. Bad(v + 1) = Bad(v) \/ Bad(v + 1) = Bad(v) + 1
        <5>1. Bad(v + 1) = Bad(v) + IF v \in Undecodable THEN 1 ELSE 0
          BY BadGrows
        <5> QED BY <4>2, <5>1
      <4> QED BY <4>2, <4>3
    <3>2. Budget(i, v) \in {Bad(v), Bad(v + 1)} /\ Budget(i, v)' \in {Bad(v), Bad(v + 1)}
      BY DEF Budget, Bad
    <3> HIDE DEF Budget, Bad
    <3> QED BY <3>1, <3>2
  <2>4. \A v \in Nat : Load(i)' + Budget(i, v) <= Load(i) + Budget(i, v)' + 2 * (acts' - acts)
    <3> HIDE DEF Load, Budget
    <3> QED BY <1>1, <1>2, <2>2, <2>3
  <2>5. acts' >= acts
    BY <1>1, <1>2
  <2> QED BY <1>1, <2>1, <2>4, <2>5, StillBounded DEF InMeasure
<1> QED BY <1>4, <1>5

LEMMA RetryMeasured ==
    ASSUME WellFormed, WellFormed', Wired, \A i \in Ids : Channel(i) /\ InMeasure(i),
           NEW k \in Keys, Retry(k), ready
    PROVE  \A i \in Ids : InMeasure(i)'
<1>1. CASE RetryAsks(k)
  BY <1>1, RetryAsksMeasured
<1>2. CASE RetryOpens(k)
  <2>1. UNCHANGED <<sent, forced, sentVersion, subscribed, version, down>> /\ acts' >= acts
    BY MeterTypes, Parts DEF Retry, Act, peerVars, serverVars, Counts
  <2>2. OpenChannel(k) /\ chan[k] = 0
    BY <1>2 DEF RetryOpens
  <2> QED BY <2>1, <2>2, OpeningMeasured
<1> QED BY <1>1, <1>2 DEF Retry, RetryWaits

LEMMA PingMeasured ==
    ASSUME WellFormed, WellFormed', \A i \in Ids : InMeasure(i), Ping
    PROVE  \A i \in Ids : InMeasure(i)'
<1>1. UNCHANGED <<sent, forced, sentVersion, subscribed, version, down, acts, used, owner>> /\ acts' >= acts
  BY Parts DEF Ping, peerVars, serverVars, lifeVars, channelVars, Counts
<1>2. \A i \in Ids : Asked(i)' = Asked(i)
  BY AskedSends, MessagesSay DEF Ping
<1> QED BY <1>1, <1>2, MeasureBeside

LEMMA ChangeMeasured ==
    ASSUME WellFormed, WellFormed', \A i \in Ids : InMeasure(i), NEW k \in Keys, Change(k)
    PROVE  \A i \in Ids : InMeasure(i)'
<1> SUFFICES ASSUME NEW i \in Ids PROVE InMeasure(i)'
  OBVIOUS
<1>1. /\ UNCHANGED <<sent, forced, sentVersion, subscribed, down, up, acts, used, owner>>
      /\ version' = [version EXCEPT ![k] = @ + 1]
  BY DEF Change, peerVars, clientVars, lifeVars, channelVars
<1>2. \A j \in Keys : version[j] \in Nat /\ version'[j] \in Nat /\ version[j] <= version'[j]
  BY <1>1, Types
<1>3. sentVersion[i] \in Nat
  BY MeterTypes
<1>4. InOrder(i)'
  BY <1>1, <1>2, <1>3 DEF InMeasure, InOrder, Snap
<1>5. Bounded(i)'
  <2>1. /\ Load(i)' = Load(i) /\ Coming(i)' = Coming(i) /\ \A v : Budget(i, v)' = Budget(i, v)
    BY <1>1 DEF Load, Coming, Snap, Budget, Bad, Asked
  <2> HIDE DEF Load, Coming, Budget
  <2> QED BY <1>1, <2>1 DEF InMeasure, Bounded
<1> QED BY <1>4, <1>5 DEF InMeasure

LEMMA ReceiveReadyMeasured ==
    ASSUME WellFormed, WellFormed', Phases, ReceiveReady
    PROVE  \A i \in Ids : InMeasure(i)'
<1> SUFFICES ASSUME NEW i \in Ids PROVE InMeasure(i)'
  OBVIOUS
<1>1. PICK count \in Nat :
          /\ count <= MaxIds
          /\ \A n \in 1 .. count : owner'[n] \in Keys
          /\ Sends([n \in 1 .. count |-> Message("sub", n, owner'[n])])
  BY Readying
<1>2. /\ Receives({"ready"})
      /\ UNCHANGED <<subscribed, sent, sentVersion, forced, version>>
  BY DEF ReceiveReady, peerVars, serverVars
<1>3. 1 \in DOMAIN down /\ down[1].t = "ready"
  BY <1>2, ReceivesOne
<1>4. ~ready /\ Unopened /\ Unready
  BY <1>3, PhaseParts DEF ReadyFirst
<1>5. InMeasure(i)
  BY <1>4, MeasureBeforeReady
<1>6. InOrder(i)'
  BY <1>2, <1>5, ComingRead DEF InMeasure
<1>7. Asks(up', i) = {}
  <2> DEFINE subs == [n \in 1 .. count |-> Message("sub", n, owner'[n])]
  <2>1. \A n \in 1 .. count : subs[n].t = "sub" /\ subs[n] \in Messages
    <3>1. \A n \in 1 .. count : n \in Ids
      BY <1>1, Types DEF Ids
    <3>2. \A n \in 1 .. count : owner'[n] \in Keys
      BY <1>1
    <3>3. \A n \in 1 .. count : subs[n] = Message("sub", n, owner'[n])
      OBVIOUS
    <3> HIDE DEF subs
    <3> QED BY <3>1, <3>2, <3>3, MessagesSay
  <2>2. up' = up \o subs \/ up' = up
    BY <1>1 DEF Sends
  <2>3. subs \in [1 .. count -> Messages]
    <3> HIDE DEF Messages, Message
    <3> QED BY <2>1
  <2> HIDE DEF subs
  <2>4. up \in Seq(Messages)
    BY DEF WellFormed
  <2>5. \A n \in DOMAIN up : up[n].t # "resnap"
    BY <1>4 DEF Unready
  <2>7. /\ DOMAIN (up \o subs) = 1 .. Len(up) + count
        /\ \A p \in 1 .. Len(up) : (up \o subs)[p] = up[p]
        /\ \A p \in 1 .. count : (up \o subs)[Len(up) + p] = subs[p]
        /\ Len(up) \in Nat /\ DOMAIN up = 1 .. Len(up)
    BY <2>3, <2>4, Concatenating
  <2>6. \A n \in DOMAIN (up \o subs) : (up \o subs)[n].t # "resnap"
    <3> SUFFICES ASSUME NEW n \in DOMAIN (up \o subs) PROVE (up \o subs)[n].t # "resnap"
      OBVIOUS
    <3>2. CASE n \in 1 .. Len(up)
      BY <2>5, <2>7, <3>2
    <3>3. CASE n \notin 1 .. Len(up)
      <4>1. PICK p \in 1 .. count : n = Len(up) + p
        <5>1. n - Len(up) \in 1 .. count /\ n = Len(up) + (n - Len(up))
          BY <2>7, <3>3
        <5> QED BY <5>1
      <4> QED BY <2>1, <2>7, <4>1
    <3> QED BY <3>2, <3>3
  <2> QED BY <2>2, <2>5, <2>6 DEF Asks
<1>8. Load(i)' <= 1
  <2>1. Asked(i)' = 0
    BY <1>7, FS_EmptySet DEF Asked
  <2> QED BY <1>2, <1>4, <2>1 DEF Load, Unopened, Nothing
<1> QED BY <1>6, <1>8, LightIsBoundedNext DEF InMeasure

\* A snapshot of channel i: the automatic resnap is paid for by the version that
\* did not decode, as what follows on the channel is no older.
LEMMA ReceiveSnapshotMeasured ==
    ASSUME WellFormed, WellFormed', Wired, ReceiveSnapshot, NEW i \in Ids, InMeasure(i)
    PROVE  InMeasure(i)'
<1> DEFINE f == down[1]
           k == owner[f.id]
<1>1. /\ Receives({"snap"})
      /\ UNCHANGED <<sent, forced, sentVersion, subscribed, version, owner, acts>>
  BY DEF ReceiveSnapshot, peerVars, serverVars, lifeVars
<1>2. /\ Head(down) = f /\ 1 \in DOMAIN down /\ f.t = "snap" /\ f.id \in Ids /\ f.version \in Nat
      /\ Popped(down, down')
  BY <1>1, ReceivesOne, FramesSay, Types
<1>3. \/ UNCHANGED <<used, up>>
      \/ /\ k # None /\ f.version \notin Undecodable
         /\ used' = [used EXCEPT ![k] = FALSE] /\ UNCHANGED up
      \/ /\ k # None /\ f.version \in Undecodable /\ used' = [used EXCEPT ![k] = TRUE]
         /\ Sends(IF ~used[k] THEN <<Message("resnap", f.id, None)>> ELSE <<>>)
  BY <1>2 DEF ReceiveSnapshot, ResnapsOnce
<1>4. Coming(i)' \subseteq Coming(i) /\ InOrder(i)'
  BY <1>1, ComingRead DEF InMeasure
<1>5. /\ acts \in Nat /\ acts' \in Nat /\ Load(i) \in Nat /\ Load(i)' \in Nat /\ sentVersion[i] \in Nat
      /\ Asked(i) \in Nat /\ Asked(i)' \in Nat /\ Coming(i) \subseteq Nat
  BY MeterTypes, MeterTypesNext
<1> HIDE DEF f, k
<1>6. k # None => k \in Keys
  BY <1>2, Types DEF k
<1>7. CASE UNCHANGED <<used, up>>
  <2>1. Asked(i)' = Asked(i) /\ acts' >= acts
    BY <1>1, <1>5, <1>7 DEF Asked
  <2> QED BY <1>1, <1>7, <2>1, MeasureBeside
<1>8. CASE k # None /\ f.id # i
  <2>1. owner[i] # k
    BY <1>2, <1>6, <1>8, Types DEF Wired, ChannelsAgree, k
  <2>2. owner[i] # None => used'[owner[i]] = used[owner[i]]
    BY <1>3, <1>6, <2>1, Types
  <2>3. Asked(i)' = Asked(i)
    <3>1. CASE UNCHANGED up
      BY <3>1 DEF Asked
    <3>2. CASE Sends(<<Message("resnap", f.id, None)>>)
      BY <1>2, <1>8, <3>2, AskedSends, MessagesSay
    <3>3. CASE Sends(<<>>)
      <4>1. UNCHANGED up
        <5>1. up \in Seq(Messages)
          BY DEF WellFormed
        <5> QED BY <3>3, <5>1 DEF Sends
      <4> QED BY <4>1 DEF Asked
    <3> QED BY <1>3, <3>1, <3>2, <3>3
  <2>4. acts' >= acts
    BY <1>1, <1>5
  <2> QED BY <1>1, <2>2, <2>3, <2>4, MeasureBeside
<1>9. CASE k # None /\ f.id = i /\ ~UNCHANGED <<used, up>>
  <2>1. k \in Keys /\ owner[i] = k /\ owner'[i] = k
    BY <1>1, <1>6, <1>9 DEF k
  <2>2. f.version \in Coming(i)
    BY <1>2, <1>9 DEF Coming, Snap, f
  <2>3. Load(i) <= 1 + sentVersion[i] + Budget(i, f.version) + 2 * acts
    BY <2>2 DEF InMeasure, Bounded
  <2>4. \A v \in Coming(i)' : f.version <= v
    <3>1. f.version <= sentVersion[i]
      BY <1>2, <1>9 DEF InMeasure, InOrder, Snap, f
    <3>2. ASSUME NEW n \in DOMAIN down', Snap(n, i)' PROVE f.version <= down'[n].version
      <4>1. n + 1 \in DOMAIN down /\ down'[n] = down[n + 1] /\ 1 < n + 1
        BY <1>2 DEF Popped
      <4>2. Snap(1, i) /\ Snap(n + 1, i)
        BY <1>2, <1>9, <3>2, <4>1 DEF Snap, f
      <4>3. down[1].version <= down[n + 1].version
        BY <1>2, <4>1, <4>2 DEF InMeasure, InOrder
      <4> QED BY <4>1, <4>3 DEF f
    <3>3. UNCHANGED sentVersion
      BY <1>1
    <3> HIDE DEF Snap
    <3> QED BY <3>1, <3>2, <3>3 DEF Coming
  <2>5. /\ Bad(f.version) \in Nat /\ f.version + 1 \in Nat
        /\ Bad(f.version + 1) = Bad(f.version) + IF f.version \in Undecodable THEN 1 ELSE 0
    BY <1>2, BadGrows
  <2>6. ASSUME NEW v \in Coming(i)'
        PROVE  /\ Bad(v) \in Nat /\ Bad(f.version) <= Bad(v)
               /\ Bad(v + 1) \in Nat /\ Bad(f.version + 1) <= Bad(v + 1)
    <3>1. v \in Nat /\ v + 1 \in Nat /\ f.version <= v /\ f.version + 1 <= v + 1
      BY <1>2, <1>4, <1>5, <2>4
    <3> QED BY <1>2, <2>5, <3>1, BadGrows
  <2>7. sent'[i] = sent[i] /\ forced'[i] = forced[i] /\ acts' = acts /\ sentVersion'[i] = sentVersion[i]
    BY <1>1
  <2>8. CASE f.version \notin Undecodable /\ used' = [used EXCEPT ![k] = FALSE] /\ UNCHANGED up
    <3>1. Load(i)' = Load(i)
      BY <2>7, <2>8 DEF Load, Asked
    <3>2. Budget(i, f.version) = Bad(f.version)
      BY <2>5, <2>8 DEF Budget
    <3>3. ~used'[owner'[i]] /\ owner'[i] # None
      BY <1>9, <2>1, <2>8, Types
    <3>4. \A v \in Coming(i)' : Budget(i, v)' = Bad(v)
      BY <3>3 DEF Budget, Bad
    <3>5. ASSUME NEW v \in Coming(i)'
          PROVE  Load(i)' <= 1 + sentVersion'[i] + Budget(i, v)' + 2 * acts'
      <4> HIDE DEF Load, Budget, Bad, Coming
      <4> QED BY <1>5, <2>3, <2>5, <2>6, <2>7, <3>1, <3>2, <3>4
    <3>6. Bounded(i)'
      BY <3>5 DEF Bounded
    <3> QED BY <1>4, <3>6 DEF InMeasure
  <2>9. CASE f.version \in Undecodable /\ used' = [used EXCEPT ![k] = TRUE] /\ ~used[k]
             /\ Sends(<<Message("resnap", f.id, None)>>)
    <3>1. Asked(i)' <= Asked(i) + 1
      BY <1>2, <2>9, AskedSends, MessagesSay
    <3>2. Load(i)' <= Load(i) + 1
      <4>1. sent[i] \in Nat
        BY MeterTypes
      <4> QED BY <1>5, <2>7, <3>1, <4>1 DEF Load
    <3>3. Budget(i, f.version) = Bad(f.version)
      BY <1>9, <2>1, <2>9 DEF Budget
    <3>4. used'[owner'[i]]
      BY <2>1, <2>9, Types
    <3>5. \A v \in Coming(i)' : Budget(i, v)' = Bad(v + 1)
      BY <3>4 DEF Budget, Bad
    <3>6. Bad(f.version + 1) = Bad(f.version) + 1
      BY <2>5, <2>9
    <3>7. ASSUME NEW v \in Coming(i)'
          PROVE  Load(i)' <= 1 + sentVersion'[i] + Budget(i, v)' + 2 * acts'
      <4> HIDE DEF Load, Budget, Bad, Coming
      <4> QED BY <1>5, <2>3, <2>5, <2>6, <2>7, <3>2, <3>3, <3>5, <3>6
    <3>8. Bounded(i)'
      BY <3>7 DEF Bounded
    <3> QED BY <1>4, <3>8 DEF InMeasure
  <2>10. CASE used' = [used EXCEPT ![k] = TRUE] /\ used[k] /\ Sends(<<>>)
    <3>1. UNCHANGED up
      <4>1. up \in Seq(Messages)
        BY DEF WellFormed
      <4> QED BY <2>10, <4>1 DEF Sends
    <3>2. UNCHANGED used
      BY <2>1, <2>10, Types
    <3> QED BY <1>7, <3>1, <3>2
  <2> QED BY <1>3, <1>9, <2>1, <2>8, <2>9, <2>10, Types
<1> QED BY <1>3, <1>7, <1>8, <1>9

LEMMA ReceiveEndMeasured ==
    ASSUME WellFormed, WellFormed', \A i \in Ids : InMeasure(i), ReceiveEnd
    PROVE  \A i \in Ids : InMeasure(i)'
<1>1. /\ Receives({"subend", "suberr"})
      /\ UNCHANGED <<sent, forced, sentVersion, subscribed, version, up, acts, used>> /\ acts' >= acts
  BY Parts DEF ReceiveEnd, peerVars, serverVars, lifeVars, Counts
<1>2. Head(down).id \in Ids
  BY <1>1, ReceivesOne, FramesSay DEF Ends
<1>3. \A i \in Ids : owner'[i] = None \/ owner'[i] = owner[i]
  BY <1>2, Types DEF ReceiveEnd
<1>4. \A i \in Ids : Asked(i)' = Asked(i)
  BY <1>1 DEF Asked
<1> QED BY <1>1, <1>3, <1>4, MeasureBeside

LEMMA ReceiveOtherMeasured ==
    ASSUME WellFormed, WellFormed', \A i \in Ids : InMeasure(i),
           ReceiveMismatch \/ ReceiveGarbage \/ ReceivePong
    PROVE  \A i \in Ids : InMeasure(i)'
<1>1. UNCHANGED <<sent, forced, sentVersion, subscribed, version, up, acts, used, owner>> /\ acts' >= acts
  BY Parts
     DEF ReceiveMismatch, ReceiveGarbage, ReceivePong, channelVars, peerVars, serverVars,
         lifeVars, Counts
<1>2. \E kinds : Receives(kinds)
  BY DEF ReceiveMismatch, ReceiveGarbage, ReceivePong
<1>3. \A i \in Ids : Asked(i)' = Asked(i)
  BY <1>1 DEF Asked
<1> QED BY <1>1, <1>2, <1>3, MeasureBeside

LEMMA ServerReadsMeasured ==
    ASSUME WellFormed, WellFormed', NEW i \in Ids, Channel(i), InMeasure(i), ServerReads
    PROVE  InMeasure(i)'
<1> DEFINE m == up[1]
<1>1. /\ up # <<>> /\ up' = Tail(up)
      /\ UNCHANGED <<owner, used, sent, sentVersion, version, acts>>
  BY DEF ServerReads, clientVars, channelVars, lifeVars, serverVars
<1>2. m \in Messages /\ Head(up) = m /\ 1 \in DOMAIN up
  BY <1>1, ServerTakesOne
<1>3. \/ /\ m.t = "sub" /\ subscribed' = [subscribed EXCEPT ![m.id] = m.key]
         /\ UNCHANGED <<forced, down>>
      \/ /\ m.t = "unsub" /\ subscribed' = [subscribed EXCEPT ![m.id] = None]
         /\ UNCHANGED <<forced, down>>
      \/ /\ m.t = "resnap" /\ forced' = [forced EXCEPT ![m.id] = subscribed[m.id] # None]
         /\ UNCHANGED <<subscribed, down>>
      \/ m.t = "ping" /\ Replies(Frame("pong", 0, 0, 0)) /\ UNCHANGED <<subscribed, forced>>
  BY <1>2 DEF ServerReads
<1>4. UNCHANGED down \/ \E f \in Frames : Replies(f) /\ (f.t # "snap" \/ f.id # i)
  BY <1>3, FramesSay
<1>5. Asked(i) = Asked(i)' + IF m.t = "resnap" /\ m.id = i THEN 1 ELSE 0
  BY <1>1, AskedTaken
<1>6. /\ Asked(i) \in Nat /\ Asked(i)' \in Nat /\ sent[i] \in Nat /\ Load(i) \in Nat /\ Load(i)' \in Nat
      /\ acts \in Nat /\ acts' >= acts
  BY <1>1, MeterTypes, MeterTypesNext
<1>7. m.t \in {"sub", "unsub", "resnap"} => m.id \in Ids
  BY <1>2, MessagesSay
<1>8. \A v \in Nat : Budget(i, v)' = Budget(i, v) /\ Budget(i, v) \in Nat
  BY <1>1, BudgetSame, MeterTypes
<1>9. Load(i)' <= Load(i)
  <2>1. CASE m.t = "resnap" /\ m.id = i
    BY <1>1, <1>5, <1>6, <2>1 DEF Load
  <2>2. CASE ~(m.t = "resnap" /\ m.id = i)
    <3>1. forced'[i] = forced[i]
      BY <1>3, <1>7, <2>2, Types
    <3>2. Asked(i)' = Asked(i)
      BY <1>5, <1>6, <2>2
    <3> QED BY <1>1, <1>6, <3>1, <3>2 DEF Load
  <2> QED BY <2>1, <2>2
<1>10. Coming(i)' \subseteq Coming(i)
  BY <1>1, <1>4, ComingBeside
<1>11. InOrder(i)'
  <2>1. CASE subscribed'[i] = subscribed[i]
    BY <1>1, <1>4, <2>1, ComingBeside DEF InMeasure
  <2>2. CASE subscribed'[i] # subscribed[i]
    <3>1. m.id = i /\ m.t \in {"sub", "unsub"}
      BY <1>3, <1>7, <2>2, Types
    <3>2. UNCHANGED <<down, sentVersion, version>>
      BY <1>1, <1>3, <3>1
    <3>3. m.t = "sub" => sentVersion[i] = 0
      <4>1. m.t = "sub" => Subbed(i)
        BY <1>2, <3>1 DEF Subbed, Sub
      <4> QED BY <4>1 DEF Channel, New
    <3>4. m.t = "unsub" => subscribed'[i] = None /\ None \notin Keys
      BY <1>3, <3>1, Types
    <3>5. \A j \in Keys : version'[j] \in Nat
      BY <3>2, Types
    <3> QED BY <3>1, <3>2, <3>3, <3>4, <3>5 DEF InMeasure, InOrder, Snap
  <2> QED BY <2>1, <2>2
<1>12. \A v \in Nat : Load(i)' + Budget(i, v) <= Load(i) + Budget(i, v)' + 2 * (acts' - acts)
  <2> HIDE DEF Load, Budget
  <2> QED BY <1>1, <1>6, <1>8, <1>9
<1>13. Bounded(i)'
  BY <1>1, <1>6, <1>10, <1>12, StillBounded DEF InMeasure
<1> QED BY <1>11, <1>13 DEF InMeasure

\* A snapshot sent: the first one, one that was asked for, or one of a newer version.
LEMMA ServerSnapsMeasured ==
    ASSUME WellFormed, WellFormed', NEW i \in Ids, InMeasure(i), ServerSnaps(i)
    PROVE  InMeasure(i)'
<1> DEFINE k == subscribed[i]
           f == Frame("snap", i, sent[i] + 1, version[k])
<1>1. /\ k # None /\ Replies(f)
      /\ sent[i] = 0 \/ sentVersion[i] # version[k] \/ forced[i]
      /\ sent' = [sent EXCEPT ![i] = @ + 1]
      /\ sentVersion' = [sentVersion EXCEPT ![i] = version[k]]
      /\ forced' = [forced EXCEPT ![i] = FALSE]
      /\ UNCHANGED <<up, owner, used, version, subscribed, acts>>
  BY DEF ServerSnaps, clientVars, channelVars, lifeVars, serverVars
<1>2. /\ sent'[i] = sent[i] + 1 /\ sentVersion'[i] = version[k] /\ ~forced'[i] /\ Asked(i)' = Asked(i)
  BY <1>1, Types DEF Asked
<1>3. k \in Keys /\ version[k] \in Nat /\ version[k] \in Versions /\ sent[i] + 1 \in Nat /\ sentVersion[i] \in Nat
  BY <1>1, Types
<1>4. f \in Frames /\ f.t = "snap" /\ f.id = i /\ f.version = version[k]
  BY <1>3, FramesSay
<1>5. Pushed(down, f, down')
  BY <1>1, <1>4, RepliesOne
<1>6. /\ sent[i] \in Nat /\ acts \in Nat /\ Asked(i) \in Nat /\ Load(i) \in Nat /\ Load(i)' \in Nat
      /\ Coming(i) \subseteq Nat /\ sentVersion[i] \in Coming(i)
      /\ \A v \in Nat : Budget(i, v) \in Nat /\ Budget(i, v)' \in Nat
  BY MeterTypes, MeterTypesNext
<1> HIDE DEF f
<1>7. \A v \in Nat : Budget(i, v)' = Budget(i, v)
  BY <1>1, BudgetSame
<1>8. sentVersion[i] <= version[k]
  BY <1>3 DEF InMeasure, InOrder
<1> HIDE DEF k
<1>9. \A n \in DOMAIN down' : \/ n \in DOMAIN down /\ down'[n] = down[n]
                              \/ n = Len(down) + 1 /\ down'[n] = f
  BY <1>5 DEF Pushed
<1>10. \A n \in DOMAIN down : n \in Nat /\ n < Len(down) + 1
  BY <1>5 DEF Pushed
<1>11. Len(down) \in Nat
  BY <1>5 DEF Pushed
<1>12. InOrder(i)'
  <2>1. ASSUME NEW n \in DOMAIN down', Snap(n, i)' PROVE down'[n].version \in Nat /\ down'[n].version <= version[k]
    <3>1. CASE n \in DOMAIN down /\ down'[n] = down[n]
      <4>1. Snap(n, i)
        BY <2>1, <3>1 DEF Snap
      <4>2. down[n].version <= sentVersion[i] /\ down[n].version \in Nat
        BY <3>1, <4>1, Queued, FramesSay, Types DEF InMeasure, InOrder, Snap
      <4> QED BY <1>3, <1>8, <3>1, <4>2
    <3>2. CASE down'[n] = f
      BY <1>3, <1>4, <3>2
    <3> QED BY <1>9, <3>1, <3>2
  <2>2. ASSUME NEW a \in DOMAIN down', NEW b \in DOMAIN down', Snap(a, i)', Snap(b, i)', a < b
        PROVE  down'[a].version <= down'[b].version
    <3>1. a \in DOMAIN down /\ down'[a] = down[a]
      BY <1>9, <1>10, <1>11, <2>2
    <3>2. CASE b \in DOMAIN down /\ down'[b] = down[b]
      <4>1. Snap(a, i) /\ Snap(b, i)
        BY <2>2, <3>1, <3>2 DEF Snap
      <4> QED BY <2>2, <3>1, <3>2, <4>1 DEF InMeasure, InOrder
    <3>3. CASE down'[b] = f
      BY <1>4, <2>1, <2>2, <3>3
    <3> QED BY <1>9, <3>2, <3>3
  <2>3. \A j \in Keys : subscribed'[i] = j => sentVersion'[i] <= version'[j]
    BY <1>1, <1>2, <1>3 DEF k
  <2> HIDE DEF Snap
  <2> QED BY <1>2, <2>1, <2>2, <2>3 DEF InOrder
<1>13. Load(i)' + sentVersion[i] <= Load(i) + sentVersion'[i]
  <2>1. sent[i] # 0 /\ ~forced[i] => sentVersion[i] < version[k]
    BY <1>1, <1>3, <1>8 DEF k
  <2>2. forced[i] \in BOOLEAN
    BY Types
  <2>3. Load(i)' = sent[i] + 1 + Asked(i)
    BY <1>2, <1>6 DEF Load
  <2>4. CASE sent[i] = 0
    <3>1. Load(i) >= 1 + Asked(i)
      BY <1>6, <2>4 DEF Load
    <3> HIDE DEF Load
    <3> QED BY <1>2, <1>3, <1>6, <1>8, <2>3, <2>4, <3>1
  <2>5. CASE sent[i] # 0 /\ forced[i]
    <3>1. Load(i) = sent[i] + 1 + Asked(i)
      BY <1>6, <2>5 DEF Load
    <3> HIDE DEF Load
    <3> QED BY <1>2, <1>3, <1>6, <1>8, <2>3, <3>1
  <2>6. CASE sent[i] # 0 /\ ~forced[i]
    <3>1. Load(i) = sent[i] + Asked(i)
      BY <1>6, <2>6 DEF Load
    <3> HIDE DEF Load
    <3> QED BY <1>2, <1>3, <1>6, <2>1, <2>3, <2>6, <3>1
  <2> QED BY <2>2, <2>4, <2>5, <2>6
<1>14. ASSUME NEW v \in Coming(i)'
       PROVE  Load(i)' <= 1 + sentVersion'[i] + Budget(i, v)' + 2 * acts'
  <2>1. \E u \in Coming(i) : u \in Nat /\ u <= v /\ v \in Nat
    <3>1. CASE v = sentVersion'[i]
      BY <1>2, <1>3, <1>6, <1>8, <3>1
    <3>2. ASSUME NEW n \in DOMAIN down', Snap(n, i)', v = down'[n].version
          PROVE  \E u \in Coming(i) : u \in Nat /\ u <= v /\ v \in Nat
      <4>1. CASE n \in DOMAIN down /\ down'[n] = down[n]
        <5>1. v \in Coming(i)
          BY <3>2, <4>1 DEF Coming, Snap
        <5> QED BY <1>6, <5>1
      <4>2. CASE down'[n] = f
        BY <1>3, <1>4, <1>6, <1>8, <3>2, <4>2
      <4> QED BY <1>9, <4>1, <4>2
    <3> QED BY <3>1, <3>2 DEF Coming
  <2>2. PICK u \in Coming(i) : u \in Nat /\ u <= v /\ v \in Nat
    BY <2>1
  <2>3. Load(i) <= 1 + sentVersion[i] + Budget(i, u) + 2 * acts
    BY <2>2 DEF InMeasure, Bounded
  <2>4. Budget(i, u) <= Budget(i, v)
    <3>1. u + 1 \in Nat /\ v + 1 \in Nat /\ u + 1 <= v + 1
      BY <2>2
    <3> QED BY <2>2, <3>1, BadGrows DEF Budget
  <2>5. /\ Budget(i, u) \in Nat /\ Budget(i, v) \in Nat /\ Budget(i, v)' = Budget(i, v) /\ acts' = acts
        /\ sentVersion'[i] \in Nat
    BY <1>1, <1>2, <1>3, <1>6, <1>7, <2>2
  <2> HIDE DEF Load, Budget, Coming
  <2> QED BY <1>3, <1>6, <1>13, <2>3, <2>4, <2>5
<1>15. Bounded(i)'
  BY <1>14 DEF Bounded
<1> QED BY <1>12, <1>15 DEF InMeasure

LEMMA ServerSnapsElsewhereMeasured ==
    ASSUME WellFormed, WellFormed', NEW i \in Ids, NEW j \in Ids, j # i, InMeasure(i), ServerSnaps(j)
    PROVE  InMeasure(i)'
<1>1. /\ Replies(Frame("snap", j, sent[j] + 1, version[subscribed[j]])) /\ subscribed[j] # None
      /\ sent'[i] = sent[i] /\ forced'[i] = forced[i] /\ sentVersion'[i] = sentVersion[i]
      /\ UNCHANGED <<up, owner, used, version, subscribed, acts>>
  BY Types DEF ServerSnaps, clientVars, channelVars, lifeVars, serverVars
<1>2. Frame("snap", j, sent[j] + 1, version[subscribed[j]]) \in Frames
  BY <1>1, Types, FramesSay
<1>3. \E f \in Frames : Replies(f) /\ (f.t # "snap" \/ f.id # i)
  BY <1>1, <1>2, FramesSay
<1>4. Asked(i)' = Asked(i) /\ acts' >= acts
  BY <1>1, MeterTypes DEF Asked
<1> QED BY <1>1, <1>3, <1>4, MeasureBeside

LEMMA ServerEndsMeasured ==
    ASSUME WellFormed, WellFormed', NEW i \in Ids, NEW j \in Ids, InMeasure(i), ServerEnds(j)
    PROVE  InMeasure(i)'
<1>1. /\ subscribed' = [subscribed EXCEPT ![j] = None]
      /\ UNCHANGED <<up, owner, used, version, sent, sentVersion, forced, acts>>
  BY DEF ServerEnds, clientVars, channelVars, lifeVars, serverVars
<1>2. UNCHANGED down \/ \E f \in Frames : Replies(f) /\ (f.t # "snap" \/ f.id # i)
  BY FramesSay DEF ServerEnds
<1>3. Asked(i)' = Asked(i) /\ acts' >= acts /\ subscribed'[i] \in {subscribed[i], None}
  BY <1>1, MeterTypes, Types DEF Asked
<1> QED BY <1>1, <1>2, <1>3, MeasureBeside

LEMMA ServerSaysMoreMeasured ==
    ASSUME WellFormed, WellFormed', NEW i \in Ids, InMeasure(i), ServerSaysMore
    PROVE  InMeasure(i)'
<1>1. UNCHANGED <<up, owner, used, version, subscribed, sent, sentVersion, forced, acts>>
  BY DEF ServerSaysMore, clientVars, channelVars, lifeVars, serverVars, peerVars
<1>2. \E f \in Frames : Replies(f) /\ (f.t # "snap" \/ f.id # i)
  BY FramesSay DEF ServerSaysMore
<1>3. Asked(i)' = Asked(i) /\ acts' >= acts
  BY <1>1, MeterTypes DEF Asked
<1> QED BY <1>1, <1>2, <1>3, MeasureBeside

-----------------------------------------------------------------------------
(* What the entries of the channels were told.                               *)

\* Before the ready nothing was sent, and nothing has a channel.
LEMMA InformedBeforeReady ==
    (WellFormed /\ Phases /\ Wired /\ ~ready /\ peer = "serving" => \A i \in Ids : Informed(i))
<1> SUFFICES ASSUME WellFormed, Phases, Wired, ~ready, peer = "serving", NEW i \in Ids
             PROVE  Informed(i)
  OBVIOUS
<1>1. \A n \in DOMAIN down : ~Snap(n, i)
  BY DEF Phases, Snap
<1>2. \A k \in Keys : chan[k] = 0
  BY DEF Phases
<1>3. \A k \in Keys : owner[i] # k
  BY <1>2, Types DEF Wired, ChannelsAgree
<1> QED BY <1>1, <1>3 DEF Informed, Numbered

LEMMA InformedBeforeReadyNext ==
    (WellFormed /\ Phases /\ Wired /\ ~ready /\ peer = "serving" => \A i \in Ids : Informed(i))'
BY InformedBeforeReady, PTL

\* A step that leaves the snapshots of channel i and its entry alone
LEMMA InformedBeside ==
    ASSUME WellFormed, NEW i \in Ids, Informed(i),
           sent'[i] = sent[i], sentVersion'[i] = sentVersion[i],
           \A k \in Keys : owner'[i] = k =>
               owner[i] = k /\ seq'[k] = seq[k] /\ view'[k] = view[k] /\ shown'[k] = shown[k],
           \/ UNCHANGED down
           \/ \E f \in Frames : Replies(f) /\ (f.t # "snap" \/ f.id # i)
    PROVE  Informed(i)'
<1>1. /\ \A n \in DOMAIN down' : Snap(n, i)' => n \in DOMAIN down /\ down'[n] = down[n] /\ Snap(n, i)
      /\ \A n \in DOMAIN down : n \in DOMAIN down' /\ down'[n] = down[n] /\ (Snap(n, i) => Snap(n, i)')
  BY SnapsBeside
<1> HIDE DEF Snap
<1>2. Numbered(i)'
  BY <1>1 DEF Informed, Numbered
<1>3. ASSUME NEW k \in Keys, owner'[i] = k PROVE Heard(i, k)'
  <2>1. Heard(i, k) /\ seq'[k] = seq[k] /\ (\A v : Displays(k, v)' = Displays(k, v))
    BY <1>3 DEF Informed, Displays
  <2> HIDE DEF Displays
  <2> QED BY <1>1, <2>1 DEF Heard
<1> QED BY <1>2, <1>3 DEF Informed

\* The client reads a frame: what follows keeps its order.
LEMMA NumberedRead ==
    ASSUME WellFormed, NEW kinds, Receives(kinds), NEW i \in Ids, Numbered(i),
           sent'[i] = sent[i], sentVersion'[i] = sentVersion[i]
    PROVE  /\ Numbered(i)'
           /\ \A n \in DOMAIN down' : Snap(n, i)' => n + 1 \in DOMAIN down /\ down'[n] = down[n + 1]
                                                     /\ Snap(n + 1, i) /\ 1 < n + 1
           /\ \A n \in DOMAIN down \ {1} : Snap(n, i) =>
                 \E m \in DOMAIN down' : Snap(m, i)' /\ down'[m] = down[n]
<1>1. Popped(down, down')
  BY ReceivesOne
<1>2. \A n \in DOMAIN down' : n \in Nat /\ n + 1 \in DOMAIN down /\ 1 < n + 1 /\ down'[n] = down[n + 1]
  BY <1>1 DEF Popped
<1>3. \A n \in DOMAIN down' : Snap(n, i)' <=> Snap(n + 1, i)
  BY <1>2 DEF Snap
<1>4. ASSUME NEW n \in DOMAIN down \ {1}, Snap(n, i)
      PROVE  \E m \in DOMAIN down' : Snap(m, i)' /\ down'[m] = down[n]
  <2>1. n - 1 \in DOMAIN down' /\ (n - 1) + 1 = n
    BY <1>1 DEF Popped
  <2> QED BY <1>2, <1>3, <1>4, <2>1
<1> HIDE DEF Snap
<1>5. \A m, n \in DOMAIN down' : m < n => m + 1 < n + 1
  BY <1>2
<1>6. Numbered(i)'
  BY <1>2, <1>3, <1>5 DEF Numbered
<1> QED BY <1>2, <1>3, <1>4, <1>6

\* A frame that is read by another entry, or by none
LEMMA InformedRead ==
    ASSUME WellFormed, NEW kinds, Receives(kinds), NEW i \in Ids, Informed(i), ~Snap(1, i),
           sent'[i] = sent[i], sentVersion'[i] = sentVersion[i],
           \A k \in Keys : owner'[i] = k =>
               owner[i] = k /\ seq'[k] = seq[k] /\ view'[k] = view[k] /\ shown'[k] = shown[k]
    PROVE  Informed(i)'
<1>1. /\ Numbered(i)'
      /\ \A n \in DOMAIN down' : Snap(n, i)' => n + 1 \in DOMAIN down /\ down'[n] = down[n + 1]
                                                /\ Snap(n + 1, i)
      /\ \A n \in DOMAIN down \ {1} : Snap(n, i) =>
             \E m \in DOMAIN down' : Snap(m, i)' /\ down'[m] = down[n]
  BY NumberedRead DEF Informed
<1> HIDE DEF Snap
<1>2. ASSUME NEW k \in Keys, owner'[i] = k PROVE Heard(i, k)'
  <2>1. Heard(i, k) /\ seq'[k] = seq[k] /\ (\A v : Displays(k, v)' = Displays(k, v))
    BY <1>2 DEF Informed, Displays
  <2> HIDE DEF Displays
  <2>2. ASSUME NEW n \in DOMAIN down', Snap(n, i)' PROVE seq'[k] < down'[n].seq
    BY <1>1, <2>1, <2>2 DEF Heard
  <2>3. ASSUME NEW n \in DOMAIN down, Snap(n, i), down[n].seq = sent[i]
        PROVE  \E m \in DOMAIN down' : Snap(m, i)' /\ down'[m].seq = sent'[i]
    <3>1. n # 1
      BY <2>3
    <3> QED BY <1>1, <2>3, <3>1
  <2> QED BY <2>1, <2>2, <2>3 DEF Heard
<1> QED BY <1>1, <1>2 DEF Informed

\* openChannel
LEMMA OpeningInformed ==
    ASSUME WellFormed, Wired, \A i \in Ids : Channel(i) /\ Informed(i),
           NEW k \in Keys, OpenChannel(k), chan[k] = 0, UNCHANGED <<sent, sentVersion, down>>,
           \A j \in Keys \ {k} : view'[j] = view[j] /\ shown'[j] = shown[j]
    PROVE  \A i \in Ids : Informed(i)'
<1>1. /\ nextId \in Ids /\ owner'[nextId] = k /\ seq'[k] = 0
      /\ \A j \in Keys \ {k} : seq'[j] = seq[j]
      /\ \A n \in Ids \ {nextId} : owner'[n] = owner[n]
  BY Opening
<1>2. ASSUME NEW i \in Ids, i # nextId PROVE Informed(i)'
  <2>1. owner[i] # k
    BY Types DEF Wired, ChannelsAgree
  <2> QED BY <1>1, <1>2, <2>1, InformedBeside
<1>3. ASSUME NEW i \in Ids, i = nextId PROVE Informed(i)'
  <2>1. Numbered(i) /\ sent[i] = 0
    BY <1>3, Types DEF Informed, Channel, New
  <2>2. \A n \in DOMAIN down : ~Snap(n, i)
    <3>1. 1 .. 0 = {}
      OBVIOUS
    <3> QED BY <2>1, <3>1 DEF Numbered
  <2>3. Numbered(i)' /\ Heard(i, k)'
    BY <1>1, <2>1, <2>2 DEF Numbered, Heard, Snap
  <2> QED BY <1>1, <1>3, <2>3 DEF Informed
<1> QED BY <1>2, <1>3

LEMMA AcquireInformed ==
    ASSUME WellFormed, Wired, \A i \in Ids : Channel(i) /\ Informed(i), NEW k \in Keys, Acquire(k), ready
    PROVE  \A i \in Ids : Informed(i)'
<1>1. UNCHANGED <<sent, sentVersion, down>>
  BY DEF Acquire, peerVars
<1>2. CASE AcquireShared(k)
  BY <1>1, <1>2, InformedBeside DEF AcquireShared, channelVars, viewVars
<1>3. CASE AcquireFirst(k)
  <2>1. OpenChannel(k) /\ chan[k] = 0
    BY <1>3, Types DEF AcquireFirst, Wired
  <2>2. \A j \in Keys \ {k} : view'[j] = view[j] /\ shown'[j] = shown[j]
    BY <1>3, Parts DEF AcquireFirst, Views
  <2> QED BY <1>1, <2>1, <2>2, OpeningInformed
<1> QED BY <1>2, <1>3 DEF Acquire

LEMMA ReleaseInformed ==
    ASSUME WellFormed, Wired, \A i \in Ids : Informed(i), NEW k \in Keys, Release(k)
    PROVE  \A i \in Ids : Informed(i)'
<1> SUFFICES ASSUME NEW i \in Ids PROVE Informed(i)'
  OBVIOUS
<1>1. UNCHANGED <<sent, sentVersion, down, seq, shown>>
  BY DEF Release, peerVars
<1>2. ASSUME NEW j \in Keys, owner'[i] = j PROVE owner[i] = j /\ view'[j] = view[j]
  <2>1. CASE ~LastRelease(k)
    BY <1>2, <2>1 DEF Release
  <2>2. CASE LastRelease(k)
    <3>1. ReleaseClosesChannel(k) /\ view' = [view EXCEPT ![k] = "none"]
      BY <2>2 DEF Release
    <3>2. owner[i] = j /\ j # k
      BY <1>2, <3>1, Types DEF Wired, ChannelsAgree, ReleaseClosesChannel
    <3> QED BY <3>1, <3>2, Types
  <2> QED BY <2>1, <2>2
<1> QED BY <1>1, <1>2, InformedBeside

LEMMA RetryInformed ==
    ASSUME WellFormed, Wired, \A i \in Ids : Channel(i) /\ Informed(i), NEW k \in Keys, Retry(k), ready
    PROVE  \A i \in Ids : Informed(i)'
<1>1. UNCHANGED <<sent, sentVersion, down, shown>>
  BY DEF Retry, peerVars
<1>2. CASE RetryAsks(k)
  BY <1>1, <1>2, InformedBeside DEF RetryAsks
<1>3. CASE RetryOpens(k)
  <2>1. \A j \in Keys \ {k} : view'[j] = view[j] /\ shown'[j] = shown[j]
    BY <1>1, <1>3, Types DEF RetryOpens
  <2> QED BY <1>1, <1>3, <2>1, OpeningInformed DEF RetryOpens
<1> QED BY <1>2, <1>3 DEF Retry, RetryWaits

LEMMA PlainInformed ==
    ASSUME WellFormed, \A i \in Ids : Informed(i),
           \/ Ping \/ ServerReads \/ ServerSaysMore
           \/ (\E k \in Keys : Change(k)) \/ (\E j \in Ids : ServerEnds(j))
    PROVE  \A i \in Ids : Informed(i)'
<1> SUFFICES ASSUME NEW i \in Ids PROVE Informed(i)'
  OBVIOUS
<1>1. UNCHANGED <<sent, sentVersion, owner, seq, view, shown>>
  BY DEF Ping, ServerReads, ServerSaysMore, Change, ServerEnds, clientVars, channelVars, viewVars,
         peerVars
<1>2. UNCHANGED down \/ \E f \in Frames : Replies(f) /\ (f.t # "snap" \/ f.id # i)
  BY FramesSay DEF Ping, ServerReads, ServerSaysMore, Change, ServerEnds
<1> QED BY <1>1, <1>2, InformedBeside

LEMMA ReceiveReadyInformed ==
    ASSUME WellFormed, WellFormed', Phases, ReceiveReady
    PROVE  \A i \in Ids : Informed(i)'
<1> SUFFICES ASSUME NEW i \in Ids PROVE Informed(i)'
  OBVIOUS
<1>1. /\ Receives({"ready"}) /\ UNCHANGED <<sent, sentVersion>>
      /\ seq' = [k \in Keys |-> 0]
  BY DEF ReceiveReady, peerVars, ResetEntries
<1>2. 1 \in DOMAIN down /\ down[1].t = "ready"
  BY <1>1, ReceivesOne
<1>3. ~ready
  BY <1>2, PhaseParts DEF ReadyFirst
<1>4. sent[i] = 0 /\ \A n \in DOMAIN down : ~Snap(n, i)
  BY <1>3 DEF Phases, Nothing, Snap
<1>5. Numbered(i)
  BY <1>4 DEF Numbered
<1>6. Numbered(i)' /\ \A n \in DOMAIN down' : ~Snap(n, i)'
  <2> HIDE DEF Snap
  <2> QED BY <1>1, <1>4, <1>5, NumberedRead
<1>7. ASSUME NEW k \in Keys PROVE Heard(i, k)'
  <2> HIDE DEF Snap
  <2> QED BY <1>1, <1>4, <1>6 DEF Heard
<1> QED BY <1>6, <1>7 DEF Informed

LEMMA ReceiveEndInformed ==
    ASSUME WellFormed, Wired, \A i \in Ids : Informed(i), ReceiveEnd
    PROVE  \A i \in Ids : Informed(i)'
<1> SUFFICES ASSUME NEW i \in Ids PROVE Informed(i)'
  OBVIOUS
<1>1. Receives({"subend", "suberr"}) /\ UNCHANGED <<sent, sentVersion, seq, shown>>
  BY DEF ReceiveEnd, peerVars
<1>2. ~Snap(1, i) /\ Head(down).id \in Ids
  BY <1>1, ReceivesOne, FramesSay DEF Snap, Ends
<1>3. ASSUME NEW k \in Keys, owner'[i] = k PROVE owner[i] = k /\ view'[k] = view[k]
  <2>1. CASE owner[Head(down).id] = None
    BY <1>3, <2>1 DEF ReceiveEnd
  <2>2. CASE owner[Head(down).id] # None
    <3>1. /\ owner' = [owner EXCEPT ![Head(down).id] = None]
          /\ view' = [view EXCEPT ![owner[Head(down).id]] = "error"]
      BY <2>2 DEF ReceiveEnd
    <3>2. owner[i] = k /\ i # Head(down).id
      BY <1>2, <1>3, <3>1, Types
    <3>3. owner[Head(down).id] # k
      BY <1>2, <3>2, Types DEF Wired, ChannelsAgree
    <3> QED BY <3>1, <3>2, <3>3, Types
  <2> QED BY <2>1, <2>2
<1> QED BY <1>1, <1>2, <1>3, InformedRead

LEMMA ReceiveOtherInformed ==
    ASSUME WellFormed, \A i \in Ids : Informed(i), ReceiveMismatch \/ ReceiveGarbage \/ ReceivePong
    PROVE  \A i \in Ids : Informed(i)'
<1> SUFFICES ASSUME NEW i \in Ids PROVE Informed(i)'
  OBVIOUS
<1>1. UNCHANGED <<sent, sentVersion, owner, seq, view, shown>>
  BY DEF ReceiveMismatch, ReceiveGarbage, ReceivePong, channelVars, viewVars, peerVars
<1>2. Receives({"differs"}) \/ Receives({"garbage"}) \/ Receives({"pong"})
  BY DEF ReceiveMismatch, ReceiveGarbage, ReceivePong
<1>3. ~Snap(1, i)
  BY <1>2, ReceivesOne DEF Snap
<1> QED BY <1>1, <1>2, <1>3, InformedRead

\* A snapshot of channel i is news to its entry, and is displayed.
LEMMA ReceiveSnapshotInformed ==
    ASSUME WellFormed, Wired, ReceiveSnapshot, NEW i \in Ids, Informed(i)
    PROVE  Informed(i)'
<1> DEFINE f == down[1]
           k == owner[f.id]
<1>1. Receives({"snap"}) /\ UNCHANGED <<sent, sentVersion, owner>>
  BY DEF ReceiveSnapshot, peerVars
<1>2. /\ Head(down) = f /\ 1 \in DOMAIN down /\ f.t = "snap" /\ f.id \in Ids /\ f.seq \in Nat
      /\ f.version \in Versions
  BY <1>1, ReceivesOne, FramesSay
<1>3. \/ ~(k # None /\ f.seq > seq[k]) /\ UNCHANGED <<seq, view, shown>>
      \/ /\ k # None /\ f.seq > seq[k] /\ f.version \notin Undecodable
         /\ seq' = [seq EXCEPT ![k] = f.seq] /\ view' = [view EXCEPT ![k] = "ready"]
         /\ shown' = [shown EXCEPT ![k] = f.version]
      \/ /\ k # None /\ f.seq > seq[k] /\ f.version \in Undecodable
         /\ seq' = [seq EXCEPT ![k] = f.seq] /\ view' = [view EXCEPT ![k] = "error"]
         /\ UNCHANGED shown
  BY <1>2 DEF ReceiveSnapshot, viewVars
<1>4. k # None => k \in Keys
  BY <1>2, Types
<1>5. seq \in [Keys -> Nat] /\ view \in [Keys -> {"none", "loading", "ready", "error"}] /\ shown \in [Keys -> Versions]
  BY Types, Parts DEF Views
<1>6. CASE f.id # i
  <2>1. ~Snap(1, i)
    BY <1>6 DEF Snap
  <2>2. ASSUME NEW j \in Keys, owner[i] = j PROVE j # k
    BY <1>2, <1>6, <2>2, Types DEF Wired, ChannelsAgree
  <2> HIDE DEF f, k
  <2>3. \A j \in Keys : owner[i] = j => seq'[j] = seq[j] /\ view'[j] = view[j] /\ shown'[j] = shown[j]
    BY <1>3, <1>4, <1>5, <2>2
  <2> QED BY <1>1, <2>1, <2>3, InformedRead
<1>7. CASE f.id = i
  <2>1. Snap(1, i)
    BY <1>2, <1>7 DEF Snap
  <2>2. /\ Numbered(i)'
        /\ \A n \in DOMAIN down' : Snap(n, i)' => n + 1 \in DOMAIN down /\ down'[n] = down[n + 1]
                                                  /\ Snap(n + 1, i) /\ 1 < n + 1
        /\ \A n \in DOMAIN down \ {1} : Snap(n, i) =>
               \E m \in DOMAIN down' : Snap(m, i)' /\ down'[m] = down[n]
    BY <1>1, NumberedRead DEF Informed
  <2>3. /\ f.seq \in 1 .. sent[i] /\ (f.seq = sent[i] => f.version = sentVersion[i])
        /\ \A n \in DOMAIN down : Snap(n, i) /\ 1 < n => f.seq < down[n].seq
    BY <1>2, <2>1 DEF Informed, Numbered
  <2>4. ASSUME NEW j \in Keys, owner[i] = j PROVE Heard(i, j)'
    <3>1. j = k /\ Heard(i, j) /\ sent[i] \in Nat
      BY <1>7, <2>4, Types DEF Informed
    <3>2. f.seq > seq[j]
      BY <1>2, <1>5, <2>1, <3>1 DEF Heard
    <3> HIDE DEF f, k, Snap
    <3>3. /\ seq'[j] = f.seq
          /\ IF f.version \in Undecodable THEN view'[j] = "error"
             ELSE view'[j] = "ready" /\ shown'[j] = f.version
      BY <1>3, <1>5, <2>4, <3>1, <3>2, Types
    <3>4. \A n \in DOMAIN down' : Snap(n, i)' => seq'[j] < down'[n].seq
      BY <2>2, <2>3, <3>3
    <3>5. seq'[j] # sent'[i] => \E n \in DOMAIN down' : Snap(n, i)' /\ down'[n].seq = sent'[i]
      <4> SUFFICES ASSUME f.seq # sent[i]
                   PROVE  \E n \in DOMAIN down' : Snap(n, i)' /\ down'[n].seq = sent[i]
        BY <1>1, <3>3
      <4>1. seq[j] # sent[i]
        BY <1>5, <2>3, <3>1, <3>2 DEF Heard
      <4>2. PICK n \in DOMAIN down : Snap(n, i) /\ down[n].seq = sent[i]
        BY <3>1, <4>1 DEF Heard
      <4>3. n # 1
        BY <4>2 DEF f
      <4> QED BY <2>2, <4>2, <4>3
    <3>6. seq'[j] <= sent'[i]
      BY <1>1, <2>3, <3>1, <3>3
    <3>7. seq'[j] = sent'[i] => Displays(j, sentVersion[i])'
      BY <1>1, <2>3, <3>3 DEF Displays
    <3> HIDE DEF Displays
    <3> QED BY <3>4, <3>5, <3>6, <3>7 DEF Heard
  <2> QED BY <1>1, <2>2, <2>4 DEF Informed
<1> QED BY <1>6, <1>7

\* A snapshot sent has the next number.
LEMMA ServerSnapsInformed ==
    ASSUME WellFormed, NEW i \in Ids, Informed(i), ServerSnaps(i)
    PROVE  Informed(i)'
<1> DEFINE f == Frame("snap", i, sent[i] + 1, version[subscribed[i]])
<1>1. /\ subscribed[i] # None /\ Replies(f)
      /\ sent' = [sent EXCEPT ![i] = @ + 1]
      /\ sentVersion' = [sentVersion EXCEPT ![i] = version[subscribed[i]]]
      /\ UNCHANGED <<owner, seq, view, shown>>
  BY DEF ServerSnaps, clientVars, channelVars, viewVars
<1>2. sent'[i] = sent[i] + 1 /\ sentVersion'[i] = version[subscribed[i]] /\ sent[i] \in Nat
  BY <1>1, Types
<1>3. version[subscribed[i]] \in Versions
  BY <1>1, Types
<1>4. f \in Frames /\ f.t = "snap" /\ f.id = i /\ f.seq = sent[i] + 1 /\ f.version = version[subscribed[i]]
  BY <1>2, <1>3, FramesSay
<1>5. Pushed(down, f, down')
  BY <1>1, <1>4, RepliesOne
<1> HIDE DEF f
<1>6. /\ \A n \in DOMAIN down' : \/ n \in DOMAIN down /\ down'[n] = down[n] /\ n < Len(down) + 1
                                 \/ n = Len(down) + 1 /\ down'[n] = f
      /\ Len(down) + 1 \in DOMAIN down' /\ down'[Len(down) + 1] = f
      /\ Len(down) \in Nat /\ \A n \in DOMAIN down' : n \in Nat
  BY <1>5 DEF Pushed
<1>7. /\ \E n \in DOMAIN down' : down'[n] = f /\ Snap(n, i)'
      /\ \A n \in DOMAIN down' : down'[n] = down[n] => (Snap(n, i)' <=> Snap(n, i))
  BY <1>4, <1>6 DEF Snap
<1> HIDE DEF Snap
<1>8. \A n \in DOMAIN down : Snap(n, i) => down[n].seq \in 1 .. sent[i]
  BY DEF Informed, Numbered
<1>9. ASSUME NEW n \in DOMAIN down', Snap(n, i)'
      PROVE  /\ down'[n].seq \in 1 .. sent'[i]
             /\ down'[n].seq = sent'[i] => down'[n].version = sentVersion'[i]
  <2>1. CASE n \in DOMAIN down /\ down'[n] = down[n]
    BY <1>2, <1>7, <1>8, <1>9, <2>1
  <2>2. CASE down'[n] = f
    BY <1>2, <1>4, <2>2
  <2> QED BY <1>6, <2>1, <2>2
<1>10. ASSUME NEW m \in DOMAIN down', NEW n \in DOMAIN down', Snap(m, i)', Snap(n, i)', m < n
       PROVE  down'[m].seq < down'[n].seq
  <2>1. m \in DOMAIN down /\ down'[m] = down[m] /\ Snap(m, i)
    BY <1>6, <1>7, <1>10
  <2>2. CASE n \in DOMAIN down /\ down'[n] = down[n]
    BY <1>7, <1>10, <2>1, <2>2 DEF Informed, Numbered
  <2>3. CASE down'[n] = f
    BY <1>2, <1>4, <1>8, <2>1, <2>3
  <2> QED BY <1>6, <2>2, <2>3
<1>11. Numbered(i)'
  BY <1>9, <1>10 DEF Numbered
<1>12. ASSUME NEW k \in Keys, owner[i] = k PROVE Heard(i, k)'
  <2>1. Heard(i, k) /\ seq'[k] = seq[k] /\ seq[k] \in Nat
    BY <1>1, <1>12, Types DEF Informed
  <2>2. seq'[k] < sent'[i]
    BY <1>2, <2>1 DEF Heard
  <2>3. ASSUME NEW n \in DOMAIN down', Snap(n, i)' PROVE seq'[k] < down'[n].seq
    <3>1. CASE n \in DOMAIN down /\ down'[n] = down[n]
      BY <1>7, <2>1, <2>3, <3>1 DEF Heard
    <3>2. CASE down'[n] = f
      BY <1>2, <1>4, <2>2, <3>2
    <3> QED BY <1>6, <3>1, <3>2
  <2>4. \E n \in DOMAIN down' : Snap(n, i)' /\ down'[n].seq = sent'[i]
    BY <1>2, <1>4, <1>7
  <2>5. seq'[k] <= sent'[i] /\ seq'[k] # sent'[i]
    BY <1>2, <2>1, <2>2
  <2> QED BY <2>3, <2>4, <2>5 DEF Heard
<1> QED BY <1>1, <1>11, <1>12 DEF Informed

LEMMA ServerSnapsElsewhereInformed ==
    ASSUME WellFormed, NEW i \in Ids, NEW j \in Ids, j # i, Informed(i), ServerSnaps(j)
    PROVE  Informed(i)'
<1>1. /\ Replies(Frame("snap", j, sent[j] + 1, version[subscribed[j]])) /\ subscribed[j] # None
      /\ sent'[i] = sent[i] /\ sentVersion'[i] = sentVersion[i]
      /\ UNCHANGED <<owner, seq, view, shown>>
  BY Types DEF ServerSnaps, clientVars, channelVars, viewVars
<1>2. Frame("snap", j, sent[j] + 1, version[subscribed[j]]) \in Frames
  BY <1>1, Types, FramesSay
<1>3. \E f \in Frames : Replies(f) /\ (f.t # "snap" \/ f.id # i)
  BY <1>1, <1>2, FramesSay
<1> QED BY <1>1, <1>3, InformedBeside

LEMMA ToldStep ==
    ASSUME WellFormed, Phases, Wired, Served, Told, WellFormed', Phases', Wired', Next
    PROVE  Told'
<1>1. CASE peer' # "serving"
  BY <1>1 DEF Told
<1>2. CASE peer' = "serving" /\ ~ready'
  BY <1>2, InformedBeforeReadyNext DEF Told
<1>3. CASE peer' = "serving" /\ ready'
  <2> SUFFICES \A i \in Ids : Informed(i)'
    BY DEF Told
  <2>1. CASE Start \/ Stop \/ Reconnect \/ PongTimeout \/ SocketCloses \/ ConnectionLost \/ SocketRejected
             \/ SocketOpens \/ ServerAccepts \/ ServerRestarts \/ GoesSilent
    BY <1>3, <2>1, ServingGoesOn
  <2>2. CASE ReceiveReady
    BY <2>2, ReceiveReadyInformed
  <2>3. CASE ~(Start \/ Stop \/ Reconnect \/ PongTimeout \/ SocketCloses \/ ConnectionLost \/ SocketRejected
                 \/ SocketOpens \/ ServerAccepts \/ ServerRestarts \/ GoesSilent) /\ ~ReceiveReady
    <3>1. ready /\ peer = "serving"
      BY <1>3, <2>3, WasServed
    <3>2. \A i \in Ids : Channel(i) /\ Informed(i)
      BY <3>1 DEF Served, Told
    <3>3. ASSUME NEW k \in Keys, Acquire(k) \/ Release(k) \/ Retry(k) PROVE \A i \in Ids : Informed(i)'
      BY <3>1, <3>2, <3>3, AcquireInformed, ReleaseInformed, RetryInformed
    <3>4. ASSUME NEW j \in Ids, ServerSnaps(j) PROVE \A i \in Ids : Informed(i)'
      BY <3>2, <3>4, ServerSnapsInformed, ServerSnapsElsewhereInformed
    <3>5. CASE ReceiveSnapshot \/ ReceiveEnd \/ ReceiveMismatch \/ ReceiveGarbage \/ ReceivePong
      BY <3>2, <3>5, ReceiveSnapshotInformed, ReceiveEndInformed, ReceiveOtherInformed
    <3> QED BY <2>3, <3>2, <3>3, <3>4, <3>5, PlainInformed DEF Next
  <2> QED BY <2>1, <2>2, <2>3
<1> QED BY <1>1, <1>2, <1>3

-----------------------------------------------------------------------------
(* The invariant and what follows from it.                                   *)

\* What is bound for a channel that is served is bound for its snapshots.
LEMMA MeasuredIsBounded ==
    (WellFormed /\ (peer = "serving" => \A i \in Ids : InMeasure(i))
        => (peer = "serving" => NoResnapStorm))
<1> SUFFICES ASSUME WellFormed, NEW i \in Ids, NEW k \in Keys, InMeasure(i), subscribed[i] = k
             PROVE  sent[i] <= 1 + version[k] + Cardinality(Undecodable \cap 0 .. version[k]) + 2 * acts
  BY DEF NoResnapStorm
<1> DEFINE s == sentVersion[i]
           b == Budget(i, s)
           v == version[k]
<1>1. s \in Coming(i) /\ s \in Nat /\ acts \in Nat /\ sent[i] \in Nat /\ Load(i) \in Nat /\ b \in Nat
  BY MeterTypes
<1>2. Load(i) <= 1 + s + b + 2 * acts
  BY <1>1 DEF InMeasure, Bounded
<1>3. sent[i] <= Load(i)
  <2>1. Asked(i) \in Nat
    BY MeterTypes
  <2> QED BY <1>1, <2>1 DEF Load
<1>4. s <= v /\ v \in Nat
  BY Types DEF InMeasure, InOrder
<1>5. b <= Bad(v + 1)
  <2>1. s + 1 \in Nat /\ v + 1 \in Nat /\ s <= v + 1 /\ s + 1 <= v + 1
    BY <1>1, <1>4
  <2> QED BY <1>1, <2>1, BadGrows DEF Budget
<1>6. Bad(v + 1) \in Nat /\ Bad(v + 1) = Cardinality(Undecodable \cap 0 .. v)
  <2>1. v + 1 \in Nat /\ (v + 1) - 1 = v
    BY <1>4
  <2> HIDE DEF v
  <2>2. Bad(v + 1) = Cardinality(Undecodable \cap 0 .. v)
    BY <2>1 DEF Bad
  <2> QED BY <2>1, <2>2, BadGrows
<1> HIDE DEF s, b, v
<1>7. sent[i] <= 1 + v + Bad(v + 1) + 2 * acts
  <2> HIDE DEF Load, Bad
  <2> QED BY <1>1, <1>2, <1>3, <1>4, <1>5, <1>6
<1> QED BY <1>6, <1>7 DEF v

LEMMA MeasuredIsBoundedNext ==
    (WellFormed /\ (peer = "serving" => \A i \in Ids : InMeasure(i))
        => (peer = "serving" => NoResnapStorm))'
BY MeasuredIsBounded, PTL

\* A connection that is not served sends nothing more.
LEMMA UnservedStaysBounded ==
    ASSUME WellFormed, WellFormed', NoResnapStorm,
           \A i \in Ids : subscribed'[i] = None \/ (subscribed'[i] = subscribed[i] /\ sent'[i] = sent[i]),
           \A k \in Keys : version'[k] >= version[k], acts' >= acts
    PROVE  NoResnapStorm'
<1> SUFFICES ASSUME NEW i \in Ids, NEW k \in Keys, subscribed'[i] = k
             PROVE  sent'[i] <= 1 + version'[k] + Cardinality(Undecodable \cap 0 .. version'[k]) + 2 * acts'
  BY DEF NoResnapStorm
<1>1. subscribed[i] = k /\ sent'[i] = sent[i]
  BY Types
<1>2. sent[i] <= 1 + version[k] + Cardinality(Undecodable \cap 0 .. version[k]) + 2 * acts
  BY <1>1 DEF NoResnapStorm
<1>3. /\ version[k] \in Nat /\ version'[k] \in Nat /\ version'[k] >= version[k] /\ sent[i] \in Nat
      /\ acts \in Nat /\ acts' \in Nat
  BY Types, MeterTypes, MeterTypesNext, Parts DEF Peers
<1>4. \A n \in Nat : Cardinality(Undecodable \cap 0 .. n) = Bad(n + 1)
  <2> SUFFICES ASSUME NEW n \in Nat PROVE Cardinality(Undecodable \cap 0 .. n) = Bad(n + 1)
    OBVIOUS
  <2>1. (n + 1) - 1 = n
    OBVIOUS
  <2> QED BY <2>1 DEF Bad
<1> DEFINE a == Cardinality(Undecodable \cap 0 .. version[k])
           b == Cardinality(Undecodable \cap 0 .. version'[k])
<1>5. a \in Nat /\ b \in Nat /\ a <= b
  <2>1. version[k] + 1 \in Nat /\ version'[k] + 1 \in Nat /\ version[k] + 1 <= version'[k] + 1
    BY <1>3
  <2>2. a = Bad(version[k] + 1) /\ b = Bad(version'[k] + 1)
    BY <1>3, <1>4
  <2> HIDE DEF a, b
  <2> QED BY <2>1, <2>2, BadGrows
<1>6. sent[i] <= 1 + version[k] + a + 2 * acts
  BY <1>2
<1> HIDE DEF a, b
<1>7. sent'[i] <= 1 + version'[k] + b + 2 * acts'
  BY <1>1, <1>3, <1>5, <1>6
<1> QED BY <1>7 DEF b

LEMMA MeasureStep ==
    ASSUME WellFormed, Phases, Wired, Served, Metered, WellFormed', Phases', Next,
           ready', peer' = "serving"
    PROVE  \A i \in Ids : InMeasure(i)'
<1>1. CASE Start \/ Stop \/ Reconnect \/ PongTimeout \/ SocketCloses \/ ConnectionLost \/ SocketRejected
           \/ SocketOpens \/ ServerAccepts \/ ServerRestarts \/ GoesSilent
  BY <1>1, ServingGoesOn
<1>2. CASE ReceiveReady
  BY <1>2, ReceiveReadyMeasured
<1>3. ASSUME peer = "serving", ready, ~ReceiveReady,
             ~(Start \/ Stop \/ Reconnect \/ PongTimeout \/ SocketCloses \/ ConnectionLost \/ SocketRejected
                 \/ SocketOpens \/ ServerAccepts \/ ServerRestarts \/ GoesSilent)
      PROVE  \A i \in Ids : InMeasure(i)'
  <2>1. \A i \in Ids : Channel(i) /\ InMeasure(i)
    BY <1>3 DEF Served, Metered, InMeasure
  <2>2. ASSUME NEW k \in Keys, Acquire(k) \/ Release(k) \/ Retry(k) \/ Change(k)
        PROVE  \A i \in Ids : InMeasure(i)'
    BY <1>3, <2>1, <2>2, AcquireMeasured, ReleaseMeasured, RetryMeasured, ChangeMeasured
  <2>3. ASSUME NEW j \in Ids, ServerSnaps(j) \/ ServerEnds(j)
        PROVE  \A i \in Ids : InMeasure(i)'
    BY <2>1, <2>3, ServerSnapsMeasured, ServerSnapsElsewhereMeasured, ServerEndsMeasured
  <2> QED BY <1>3, <2>1, <2>2, <2>3, PingMeasured, ReceiveSnapshotMeasured,
             ReceiveEndMeasured, ReceiveOtherMeasured,
             ServerReadsMeasured, ServerSaysMoreMeasured DEF Next
<1>4. CASE ~(Start \/ Stop \/ Reconnect \/ PongTimeout \/ SocketCloses \/ ConnectionLost \/ SocketRejected
               \/ SocketOpens \/ ServerAccepts \/ ServerRestarts \/ GoesSilent) /\ ~ReceiveReady
  <2>1. ready /\ peer = "serving"
    BY <1>4, WasServed
  <2> QED BY <1>3, <1>4, <2>1
<1> QED BY <1>1, <1>2, <1>4

LEMMA MeteredStep ==
    ASSUME WellFormed, Phases, Wired, Served, Metered, WellFormed', Phases', Next
    PROVE  Metered'
<1>1. peer' = "serving" => \A i \in Ids : InMeasure(i)'
  BY MeasureStep, MeasureBeforeReadyNext
<1>2. CASE peer' = "serving"
  BY <1>1, <1>2, MeasuredIsBoundedNext DEF Metered, InMeasure
<1>3. CASE peer' # "serving"
  <2>1. \A i \in Ids : subscribed'[i] = None \/ (subscribed'[i] = subscribed[i] /\ sent'[i] = sent[i])
    <3>1. Disconnect \/ UNCHANGED <<subscribed, sent>>
      BY <1>3
         DEF Next, Start, Reconnect, Connect, Stop, Acquire, Release, Retry, Change, Ping,
             PongTimeout, SocketOpens,
                  SocketCloses, ConnectionLost, OnClose, SocketRejected, ReceiveReady, ReceiveMismatch, ReceiveGarbage,
                  ReceiveSnapshot, ReceiveEnd, ReceivePong, ServerAccepts, ServerReads, ServerSnaps, ServerEnds,
                  ServerSaysMore, ServerRestarts, GoesSilent, peerVars
    <3> QED BY <3>1 DEF Disconnect
  <2>2. \A k \in Keys : version'[k] >= version[k]
    <3>1. UNCHANGED version \/ \E k \in Keys : version' = [version EXCEPT ![k] = @ + 1]
      BY
         DEF Next, Start, Reconnect, Connect, Stop, Acquire, Release, Retry, Change, Ping,
             PongTimeout, SocketOpens,
             SocketCloses, ConnectionLost, OnClose, SocketRejected, ReceiveReady, ReceiveMismatch, ReceiveGarbage,
             ReceiveSnapshot, ReceiveEnd, ReceivePong, ServerAccepts, ServerReads, ServerSnaps, ServerEnds,
             ServerSaysMore, ServerRestarts, GoesSilent, serverVars
    <3>2. \A k \in Keys : version[k] \in Nat
      BY Types
    <3> QED BY <3>1, <3>2, Types
  <2>3. acts' >= acts
    <3>1. acts' \in {acts, acts + 1}
      BY
         DEF Next, Start, Reconnect, Connect, Stop, Acquire, Release, Retry, Change, Ping,
             PongTimeout, SocketOpens,
             SocketCloses, ConnectionLost, OnClose, SocketRejected, ReceiveReady, ReceiveMismatch, ReceiveGarbage,
             ReceiveSnapshot, ReceiveEnd, ReceivePong, ServerAccepts, ServerReads, ServerSnaps, ServerEnds,
             ServerSaysMore, ServerRestarts, GoesSilent, clientVars, lifeVars, Act
    <3>2. acts \in Nat
      BY Parts DEF Counts
    <3> QED BY <3>1, <3>2
  <2>4. NoResnapStorm'
    BY <2>1, <2>2, <2>3, UnservedStaysBounded DEF Metered
  <2> QED BY <1>3, <2>4 DEF Metered
<1> QED BY <1>2, <1>3

LEMMA WellFormedStep == ASSUME WellFormed, Wired, Next PROVE WellFormed'
BY StartTyped, StopTyped, AcquireTyped, ReleaseTyped, RetryTyped, ChangeTyped, ReconnectTyped,
   PingTyped, PongTimeoutTyped, SocketOpensTyped, SocketClosesTyped, ConnectionLostTyped,
   SocketRejectedTyped, ReceiveReadyTyped, ReceiveMismatchTyped, ReceiveGarbageTyped,
   ReceiveSnapshotTyped, ReceiveEndTyped, ReceivePongTyped, ServerAcceptsTyped, ServerReadsTyped,
   ServerSnapsTyped, ServerEndsTyped, ServerSaysMoreTyped, ServerRestartsTyped, GoesSilentTyped
   DEF Next

LEMMA PhasesStep == ASSUME WellFormed, Phases, Wired, Next PROVE Phases'
BY StartPhased, StopPhased, AcquirePhased, ReleasePhased, RetryPhased, ChangePhased,
   ReconnectPhased,
   PingPhased, PongTimeoutPhased, SocketOpensPhased, SocketClosesPhased, ConnectionLostPhased,
   SocketRejectedPhased, ReceiveReadyPhased, ReceiveMismatchPhased, ReceiveGarbagePhased,
   ReceiveSnapshotPhased, ReceiveEndPhased, ReceivePongPhased, ServerAcceptsPhased, ServerReadsPhased,
   ServerSnapsPhased, ServerEndsPhased, ServerSaysMorePhased, ServerRestartsPhased, GoesSilentPhased
   DEF Next

LEMMA WiredStep == ASSUME WellFormed, Phases, Wired, Next PROVE Wired'
BY StartWired, StopWired, AcquireWired, ReleaseWired, RetryWired, ChangeWired, ReconnectWired,
   PingWired, PongTimeoutWired, SocketOpensWired, SocketClosesWired, ConnectionLostWired,
   SocketRejectedWired, ReceiveReadyWired, ReceiveMismatchWired, ReceiveGarbageWired,
   ReceiveSnapshotWired, ReceiveEndWired, ReceivePongWired, ServerAcceptsWired, ServerReadsWired,
   ServerSnapsWired, ServerEndsWired, ServerSaysMoreWired, ServerRestartsWired, GoesSilentWired
   DEF Next

\* What a connection is at any time
ClientInv == WellFormed /\ Phases /\ Wired /\ Served /\ Metered /\ Told

LEMMA ClientInvInit == Init => ClientInv
<1> SUFFICES ASSUME Init PROVE ClientInv
  OBVIOUS
<1>1. 0 \in Versions /\ 1 \in 1 .. MaxIds + 1 /\ None \notin Keys /\ MaxHolders \in Nat
  BY ZeroTypes, StateClientAssumption
<1>2. Flags /\ Connection /\ Counts
  BY DEF Init, Flags, Connection, ConnStates, Counts
<1>3. Wires /\ Ages
  BY DEF Init, Wires, Ages
<1>4. Entries /\ Views /\ Peers
  BY <1>1 DEF Init, Entries, Views, Peers
<1>5. WellFormed
  BY <1>2, <1>3, <1>4, Parts
<1>6. Phases
  BY DEF Init, Phases, OneWayForward, Nothing, Ends
<1>7. Wired
  BY <1>1, Types, <1>5 DEF Init, Wired, ChannelsAgree, NothingForgotten
<1>8. Served
  BY DEF Init, Served
<1>9. Metered
  BY <1>1 DEF Init, Metered, NoResnapStorm
<1>10. Told
  BY DEF Init, Told
<1> QED BY <1>5, <1>6, <1>7, <1>8, <1>9, <1>10 DEF ClientInv

LEMMA ClientInvStep == ClientInv /\ [Next]_vars => ClientInv'
<1> SUFFICES ASSUME ClientInv, [Next]_vars PROVE ClientInv'
  OBVIOUS
<1>0. WellFormed /\ Phases /\ Wired /\ Served /\ Metered /\ Told
  BY DEF ClientInv
<1>1. CASE Next
  <2>1. WellFormed' /\ Phases' /\ Wired'
    BY <1>0, <1>1, WellFormedStep, PhasesStep, WiredStep
  <2>2. Served' /\ Metered' /\ Told'
    BY <1>0, <1>1, <2>1, ServedStep, MeteredStep, ToldStep
  <2> QED BY <2>1, <2>2 DEF ClientInv
<1>2. CASE UNCHANGED vars
  <2>1. /\ UNCHANGED <<started, allowed, timer, acts, ready, conn, instance, pinging, awaiting>>
        /\ UNCHANGED <<nextId, owner, chan, seq, used, holders, view, shown, sock, up, down, peer>>
        /\ UNCHANGED <<subscribed, dropped, sent, sentVersion, forced, serverInstance, dialect, version>>
        /\ UNCHANGED faults
    BY <1>2 DEF vars, lifeVars, liveVars, channelVars, viewVars, peerVars, serverVars
  <2>2. WellFormed'
    BY <1>0, <2>1, Parts DEF Flags, Connection, Counts, Wires, Entries, Views, Peers, Ages
  <2>3. Phases'
    BY <1>0, <2>1 DEF Phases, OneWayForward, Nothing
  <2>4. Wired'
    BY <1>0, <2>1 DEF Wired, ChannelsAgree, NothingForgotten
  <2>5. Served'
    BY <1>0, <2>1 DEF Served, Channel, New, Ended, Subbed, Sub, Unsub
  <2>6. Metered'
    <3>1. \A i \in Ids : InOrder(i) => InOrder(i)'
      BY <2>1 DEF InOrder, Snap
    <3>2. \A i \in Ids : Bounded(i) => Bounded(i)'
      <4> SUFFICES ASSUME NEW i \in Ids, Bounded(i) PROVE Bounded(i)'
        OBVIOUS
      <4>1. Load(i)' = Load(i) /\ Coming(i)' = Coming(i) /\ \A v : Budget(i, v)' = Budget(i, v)
        BY <2>1 DEF Load, Budget, Coming, Asked, Bad, Snap
      <4> HIDE DEF Load, Budget, Coming
      <4> QED BY <2>1, <4>1 DEF Bounded
    <3>3. NoResnapStorm'
      BY <1>0, <2>1 DEF Metered, NoResnapStorm
    <3> QED BY <1>0, <2>1, <3>1, <3>2, <3>3 DEF Metered
  <2>7. Told'
    BY <1>0, <2>1 DEF Told, Informed, Numbered, Heard, Displays, Snap
  <2> QED BY <2>2, <2>3, <2>4, <2>5, <2>6, <2>7 DEF ClientInv
<1> QED BY <1>1, <1>2

LEMMA Connected == Spec => []ClientInv
BY ClientInvInit, ClientInvStep, PTL DEF Spec

(* Channels and entries know each other through releases, ends, retries and   *)
(* reconnections; on a ready connection no held key is without a channel or   *)
(* the error that took it away; a client that may reconnect has a socket or a *)
(* timer for one, never both; every variable has its type.                    *)
THEOREM ConnectionsStayInOrder == Spec => []ConnectionInv
<1>1. ClientInv => ConnectionInv
  BY DEF ClientInv, WellFormed, Wired, Phases, ConnectionInv
<1> QED BY <1>1, Connected, PTL

(* Once the server has read what the client sent, both have the same open     *)
(* channels, but for ends that are still on their way.                        *)
THEOREM SidesAgree == Spec => []ServerAgrees
<1>1. ClientInv => ServerAgrees
  <2> SUFFICES ASSUME ClientInv, peer = "serving", up = <<>>, NEW i \in Ids
               PROVE  /\ subscribed[i] # None => owner[i] = subscribed[i]
                      /\ owner[i] # None =>
                            \/ subscribed[i] = owner[i] \/ i \in dropped
                            \/ \E n \in 1 .. Len(down) :
                                  down[n].t \in {"subend", "suberr"} /\ down[n].id = i
    BY DEF ServerAgrees
  <2>1. Channel(i) /\ DOMAIN up = {} /\ DOMAIN down = 1 .. Len(down)
    BY Queued DEF ClientInv, Served
  <2>2. ~Subbed(i) /\ ~(\E n \in DOMAIN up : Unsub(n, i))
    BY <2>1 DEF Subbed
  <2>3. subscribed[i] # None => owner[i] # None
    BY <2>1, <2>2 DEF Channel
  <2>4. owner[i] # None => subscribed[i] = owner[i] \/ Ended(i) \/ i \in dropped
    BY <2>1, <2>2 DEF Channel
  <2>5. owner[i] # None => subscribed[i] \in {None, owner[i]}
    BY <2>1 DEF Channel
  <2> QED BY <2>1, <2>3, <2>4, <2>5 DEF Ended, Ends
<1> QED BY <1>1, Connected, PTL

(* A snapshot that never decodes is not asked for over and over: what a       *)
(* channel carries is bounded by its versions, those that do not decode and   *)
(* the retries of the user.                                                   *)
THEOREM ResnapsAreBounded == Spec => []NoResnapStorm
<1>1. ClientInv => NoResnapStorm
  BY DEF ClientInv, Metered
<1> QED BY <1>1, Connected, PTL

(* On a connection at rest every watched key shows the current state, or the  *)
(* error of what took its channel away or does not decode: no snapshot was    *)
(* dropped for good.                                                          *)
THEOREM NothingIsMissed == Spec => []NothingStale
<1>1. ClientInv => NothingStale
  <2> SUFFICES ASSUME ClientInv, AtRest, NEW k \in Keys, holders[k] > 0, chan[k] \notin dropped
               PROVE  IF chan[k] = 0 \/ version[k] \in Undecodable THEN view[k] = "error"
                      ELSE view[k] = "ready" /\ shown[k] = version[k]
    BY DEF NothingStale
  <2>1. /\ WellFormed /\ Wired /\ ready /\ peer = "serving" /\ DOMAIN up = {} /\ DOMAIN down = {}
        /\ \A i \in Ids : Channel(i) /\ Informed(i)
    BY Queued DEF ClientInv, AtRest, Served, Told
  <2>2. CASE chan[k] = 0
    BY <2>1, <2>2 DEF Wired, NothingForgotten
  <2>3. ASSUME NEW i \in Ids, chan[k] = i
        PROVE  Displays(k, version[k])
    <3>1. owner[i] = k
      BY <2>1, <2>3 DEF Wired, ChannelsAgree
    <3>2. subscribed[i] = k
      BY <2>1, <2>3, <3>1, Types DEF Channel, Subbed, Ended
    <3>3. sent[i] # 0 /\ sentVersion[i] = version[k]
      BY <3>2, Types, <2>1 DEF AtRest
    <3>4. Heard(i, k)
      BY <2>1, <3>1 DEF Informed
    <3> QED BY <2>1, <3>3, <3>4 DEF Heard
  <2>4. chan[k] \in Ids \cup {0}
    BY <2>1, Types
  <2>5. 0 \notin Ids
    BY <2>1, Types
  <2> QED BY <2>2, <2>3, <2>4, <2>5 DEF Displays
<1> QED BY <1>1, Connected, PTL
=============================================================================
