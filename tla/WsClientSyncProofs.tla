----------------------------- MODULE WsClientSyncProofs -----------------------------
(***************************************************************************)
(* Theorems about what the client keeps and what the exchange serves: for  *)
(* a program that obeys the rules of WsClient (Obeys), any channels, any   *)
(* markets, and any numbers of calls, losses and refusals, the two agree   *)
(* whenever all is quiet (InSync), and no id waits for an answer that      *)
(* cannot come (PendingAnswerable).  The inductive invariant follows every *)
(* request on its way: while the client waits for a sid, its subscribe is  *)
(* still to be served or its confirmation is still to be read (Wanted),    *)
(* and once it knows the sid, the requests on their way make of what the   *)
(* exchange serves what the client keeps (Followed).                       *)
(***************************************************************************)
EXTENDS WsClientProofs

\* The program obeys every rule and never calls close, and "ok" carries its
\* markets where the client does not look (as the message models say).
Disciplined ==
    /\ Rules = {"after_connect", "not_reconnecting", "confirmed", "alone", "gap_loop"}
    /\ "close" \notin Operations
    /\ ~OkCarriesTickers

-----------------------------------------------------------------------------
(* The invariant.                                                          *)

\* The positions of the subscribes, and of the requests about subscription s.
Subscribes(i) == i \in 1 .. Len(requests) /\ requests[i].cmd = "subscribe"
Unsubscribes(i, s) ==
    i \in 1 .. Len(requests) /\ requests[i].cmd = "unsubscribe" /\ requests[i].sid = s
Updates(i, s) ==
    i \in 1 .. Len(requests) /\ requests[i].cmd = "update_subscription" /\ requests[i].sid = s
Changes(i, s, m, action) ==
    Updates(i, s) /\ requests[i].action = action /\ m \in requests[i].markets

\* Market m is served in subscription s once the requests on their way are.
WillServe(s, m) ==
    \/ /\ m \in subs[s].markets
       /\ \A j \in 1 .. Len(requests) : ~Changes(j, s, m, "delete_markets")
    \/ \E i \in 1 .. Len(requests) :
           /\ Changes(i, s, m, "add_markets")
           /\ \A j \in 1 .. Len(requests) : Changes(j, s, m, "delete_markets") => j < i

\* Subscribes are asked for and confirmed in the order of their ids.
IdsRise ==
    /\ \A i, j \in 1 .. Len(requests) :
           Subscribes(i) /\ Subscribes(j) /\ i < j => requests[i].id < requests[j].id
    /\ \A i \in 1 .. Len(replies), j \in 1 .. Len(requests) :
           Confirms(i) /\ Subscribes(j) => replies[i].id < requests[j].id
    /\ \A i, j \in 1 .. Len(replies) :
           Confirms(i) /\ Confirms(j) /\ i < j => replies[i].id < replies[j].id

\* A channel that has its sid has nothing collected.
Kept ==
    \A c \in DOMAIN channels :
        /\ channels[c].markets # {}
        /\ channels[c].pending \subseteq channels[c].markets
        /\ channels[c].sid # NoSid => channels[c].pending = {}

\* A channel is in its resubscription pause, or still to be recovered.
Waiting(c) == c \in DOMAIN resub \cup recovery.left

\* At most one id is pending for a channel, which has no sid and does not wait.
Awaited ==
    /\ \A i \in DOMAIN pending :
           /\ pending[i] \in DOMAIN channels /\ channels[pending[i]].sid = NoSid
           /\ ~Waiting(pending[i])
    /\ \A i, j \in DOMAIN pending : pending[i] = pending[j] => i = j

Paused ==
    \A c \in DOMAIN resub :
        c \in DOMAIN channels /\ channels[c].sid = NoSid /\ resub[c] = channels[c].markets

\* The subscribe of a pending id is on its way, behind the end of the channel's
\* subscriptions before it; or its confirmation is.
Asked(id) ==
    \E i \in 1 .. Len(requests) :
        /\ Subscribes(i) /\ requests[i].id = id
        /\ channels[pending[id]].markets = requests[i].markets \cup channels[pending[id]].pending
        /\ \A s \in DOMAIN subs : subs[s].channel = pending[id] =>
               \E j \in 1 .. Len(requests) : j < i /\ Unsubscribes(j, s)
Told(id) ==
    \E i \in 1 .. Len(replies) :
        /\ Confirms(i) /\ replies[i].id = id
        /\ channels[pending[id]].markets
               = subs[replies[i].sid].markets \cup channels[pending[id]].pending
        /\ \A j \in 1 .. Len(requests) : ~Updates(j, replies[i].sid)
Wanted == \A id \in DOMAIN pending : Asked(id) \/ Told(id)

\* A kept channel has its sid, or awaits it, or waits.
Placed ==
    \A c \in DOMAIN channels : channels[c].sid = NoSid => IsPending(c) \/ Waiting(c)

\* What is on its way is awaited, and what is served is known, about to be
\* known, or about to be ended.
Answers ==
    /\ \A i \in 1 .. Len(requests) : Subscribes(i) => requests[i].id \in DOMAIN pending
    /\ \A i \in 1 .. Len(replies) : Confirms(i) => replies[i].id \in DOMAIN pending
Given ==
    \A i \in 1 .. Len(requests) :
        requests[i].cmd = "update_subscription" => requests[i].sid < nextSid
Owned(s) ==
    \/ s \in DOMAIN sidMap
    \/ \E i \in 1 .. Len(replies) : Confirms(i) /\ replies[i].sid = s
    \/ \E i \in 1 .. Len(requests) : Unsubscribes(i, s)

\* In a subscription that the client knows, what it keeps is what will be served.
Followed ==
    \A s \in DOMAIN sidMap : \A m \in Markets :
        m \in channels[sidMap[s]].markets <=> WillServe(s, m)

Wire == Wanted /\ Placed /\ Answers /\ Given /\ (\A s \in DOMAIN subs : Owned(s)) /\ Followed

Synced == IdsRise /\ Kept /\ Awaited /\ Paused /\ (link = "open" => Wire)

\* While a task is under way on a connection, nothing is recovered, no channel that
\* it has left is in its pause, and but for add_market each has its sid.
Attended == listener \notin {"sleeping", "recovering"} /\ link # "none"
OpFree ==
    /\ Attended
    /\ \A c \in op.left :
           /\ c \notin DOMAIN resub
           /\ op.name # "add_market" /\ c \in DOMAIN channels => channels[c].sid # NoSid
SweepFree ==
    /\ Attended
    /\ DOMAIN resub = {}
    /\ \A c \in DOMAIN channels : channels[c].sid # NoSid
Tasks ==
    /\ op.sentIn <= session /\ sweep.sentIn <= session
    /\ op # NoOp => sweep = NoSweep
    /\ op # NoOp /\ ~Interrupted(op) => OpFree
    /\ sweep # NoSweep /\ ~Interrupted(sweep) => SweepFree

\* Where the listener is, and what there is then.
Phases ==
    /\ listening <=> link # "none"
    /\ link = "none" =>
           /\ listener = "off"
           /\ DOMAIN channels = {} /\ DOMAIN pending = {} /\ DOMAIN resub = {}
    /\ listener = "sleeping" => link = "closed" /\ DOMAIN pending = {}
    /\ listener = "recovering" => recovery.size = Cardinality(DOMAIN channels)
    /\ DOMAIN resub # {} => listener = "off"

Mapped == pending = [i \in DOMAIN pending |-> pending[i]]

SInv == Synced /\ Tasks /\ Phases /\ Mapped

-----------------------------------------------------------------------------
(* Requests that are sent behind those on their way.                       *)

New(i) == i \in (1 .. Len(requests')) \ (1 .. Len(requests))

Extends ==
    \A i \in 1 .. Len(requests) : i \in 1 .. Len(requests') /\ requests'[i] = requests[i]

LEMMA RequestSent ==
    ASSUME TypeOK, link = "open", NEW r \in Request, Send(r)
    PROVE  /\ Extends
           /\ \A i : New(i) => i = Len(requests) + 1 /\ requests'[i] = r
           /\ New(Len(requests) + 1) /\ requests'[Len(requests) + 1] = r
           /\ Len(requests) \in Nat
<1>1. requests \in Seq(Request) /\ requests' = Append(requests, r)
  BY DEF TypeOK, ServerTypeOK, Send
<1>2. /\ Len(requests') = Len(requests) + 1 /\ Len(requests) \in Nat
      /\ \A i \in 1 .. Len(requests) : requests'[i] = requests[i]
      /\ requests'[Len(requests) + 1] = r
  BY <1>1, AppendElements
<1> QED
  BY <1>2 DEF Extends, New

LEMMA NothingNew ==
    ASSUME requests' = requests
    PROVE  Extends /\ \A i : ~New(i)
BY DEF Extends, New

\* Whatever a request makes of channel c, it still does.
Follows(c) ==
    \A ms : channels[c].markets = ms \cup channels[c].pending
                => channels'[c].markets = ms \cup channels'[c].pending

LEMMA AskedStays ==
    ASSUME Extends, subs' = subs, NEW id, pending'[id] = pending[id], Follows(pending[id]),
           Asked(id)
    PROVE  Asked(id)'
<1>1. PICK i \in 1 .. Len(requests) :
          /\ Subscribes(i) /\ requests[i].id = id
          /\ channels[pending[id]].markets
                 = requests[i].markets \cup channels[pending[id]].pending
          /\ \A s \in DOMAIN subs : subs[s].channel = pending[id] =>
                 \E j \in 1 .. Len(requests) : j < i /\ Unsubscribes(j, s)
  BY DEF Asked
<1>2. i \in 1 .. Len(requests') /\ requests'[i] = requests[i] /\ Subscribes(i)'
  BY <1>1 DEF Extends, Subscribes
<1>3. channels'[pending'[id]].markets
          = requests'[i].markets \cup channels'[pending'[id]].pending
  BY <1>1, <1>2 DEF Follows
<1>4. \A s : \A j \in 1 .. Len(requests) : Unsubscribes(j, s) =>
          j \in 1 .. Len(requests') /\ Unsubscribes(j, s)'
  BY DEF Extends, Unsubscribes
<1>5. \A s \in DOMAIN subs' : subs'[s].channel = pending'[id] =>
          \E j \in 1 .. Len(requests') : j < i /\ Unsubscribes(j, s)'
  BY <1>1, <1>4
<1> QED
  BY <1>1, <1>2, <1>3, <1>5 DEF Asked

LEMMA ToldStays ==
    ASSUME IInv, Extends, subs' = subs, replies' = replies,
           \A i : New(i) /\ requests'[i].cmd = "update_subscription"
                      => requests'[i].sid \in DOMAIN sidMap,
           NEW id, pending'[id] = pending[id], Follows(pending[id]), Told(id)
    PROVE  Told(id)'
<1>1. PICK i \in 1 .. Len(replies) :
          /\ Confirms(i) /\ replies[i].id = id
          /\ channels[pending[id]].markets
                 = subs[replies[i].sid].markets \cup channels[pending[id]].pending
          /\ \A j \in 1 .. Len(requests) : ~Updates(j, replies[i].sid)
  BY DEF Told
<1>2. Confirms(i)' /\ i \in 1 .. Len(replies')
  BY <1>1 DEF Confirms
<1>3. channels'[pending'[id]].markets
          = subs'[replies'[i].sid].markets \cup channels'[pending'[id]].pending
  BY <1>1 DEF Follows
<1>4. replies[i].sid \notin DOMAIN sidMap
  BY <1>1 DEF IInv, Indexed, Confirmed
<1>5. ASSUME NEW j \in 1 .. Len(requests') PROVE ~Updates(j, replies[i].sid)'
  BY <1>1, <1>4 DEF Updates, Extends, New
<1> QED
  BY <1>1, <1>2, <1>3, <1>5 DEF Told

LEMMA WillServeStays ==
    ASSUME Extends, NEW s, NEW m, subs'[s].markets = subs[s].markets,
           \A i : New(i) => /\ ~Changes(i, s, m, "add_markets")'
                            /\ ~Changes(i, s, m, "delete_markets")'
    PROVE  WillServe(s, m)' <=> WillServe(s, m)
<1>1. \A a \in {"add_markets", "delete_markets"} : \A i :
          Changes(i, s, m, a)' <=> Changes(i, s, m, a)
  BY DEF Changes, Updates, Extends, New
<1>2. \A a : \A i : /\ Changes(i, s, m, a) => i \in 1 .. Len(requests)
                    /\ Changes(i, s, m, a)' => i \in 1 .. Len(requests')
  BY DEF Changes, Updates
<1>3. (\A j \in 1 .. Len(requests') : ~Changes(j, s, m, "delete_markets")')
          <=> (\A j \in 1 .. Len(requests) : ~Changes(j, s, m, "delete_markets"))
  BY <1>1, <1>2
<1>4. \A i : (\A j \in 1 .. Len(requests') : Changes(j, s, m, "delete_markets")' => j < i)
          <=> (\A j \in 1 .. Len(requests) : Changes(j, s, m, "delete_markets") => j < i)
  BY <1>1, <1>2
<1> QED
  BY <1>1, <1>2, <1>3, <1>4 DEF WillServe

\* The requests on their way, when the program or the listener has sent one.
LEMMA WireStays ==
    ASSUME IInv, Synced, link = "open", WireOnlySends, Extends,
           \A id \in DOMAIN pending :
               id \in DOMAIN pending' /\ pending'[id] = pending[id] /\ Follows(pending[id]),
           \A id \in DOMAIN pending' \ DOMAIN pending : Asked(id)',
           Placed',
           \A i : New(i) /\ Subscribes(i)' => requests'[i].id \in DOMAIN pending',
           \A i : New(i) /\ requests'[i].cmd = "update_subscription"
                      => requests'[i].sid \in DOMAIN sidMap,
           \A s \in DOMAIN sidMap \ DOMAIN sidMap' : \E i : New(i) /\ Unsubscribes(i, s)',
           Followed'
    PROVE  Wire'
<1>1. Wire /\ UNCHANGED <<link, session, replies, subs, nextSid, spent>>
  BY DEF Synced, WireOnlySends
<1>2. \A i \in 1 .. Len(requests') : New(i) \/ (i \in 1 .. Len(requests) /\ requests'[i] = requests[i])
  BY DEF New, Extends
<1>3. Wanted'
  <2>1. ASSUME NEW id \in DOMAIN pending PROVE Asked(id)' \/ Told(id)'
    BY <1>1, <2>1, AskedStays, ToldStays DEF Wire, Wanted
  <2> QED
    BY <2>1 DEF Wanted
<1>4. Answers'
  BY <1>1, <1>2 DEF Wire, Answers, Subscribes, Confirms
<1>5. Given'
  BY <1>1, <1>2 DEF Wire, Given, IInv, Indexed, Old
<1>6. ASSUME NEW s \in DOMAIN subs' PROVE Owned(s)'
  <2>1. Owned(s)
    BY <1>1, <1>6 DEF Wire
  <2>2. CASE s \in DOMAIN sidMap
    BY <2>2 DEF Owned, New
  <2>3. CASE \E i \in 1 .. Len(replies) : Confirms(i) /\ replies[i].sid = s
    BY <1>1, <2>3 DEF Owned, Confirms
  <2>4. CASE \E i \in 1 .. Len(requests) : Unsubscribes(i, s)
    BY <2>4 DEF Owned, Unsubscribes, Extends
  <2> QED
    BY <2>1, <2>2, <2>3, <2>4 DEF Owned
<1> QED
  BY <1>3, <1>4, <1>5, <1>6 DEF Wire

-----------------------------------------------------------------------------
(* A step of the client about one channel.                                 *)

\* Of all channels only c may get other markets or another sid, begin to wait or
\* cease to: the recovery ends early only when its connection does.
Touches(c) ==
    /\ WireOnlySends
    /\ \A d \in Channels \ {c} :
           /\ d \in DOMAIN channels' <=> d \in DOMAIN channels
           /\ d \in DOMAIN channels =>
                  /\ channels'[d].markets = channels[d].markets
                  /\ channels'[d].pending = channels[d].pending
                  /\ channels'[d].sid = channels[d].sid
           /\ d \in DOMAIN resub' <=> d \in DOMAIN resub
           /\ d \in DOMAIN resub => resub'[d] = resub[d]
           /\ d \in recovery'.left => d \in recovery.left
           /\ link = "open" /\ d \in recovery.left => d \in recovery'.left

LEMMA IdsStillRise ==
    ASSUME IInv, IdsRise, replies' = replies, Extends,
           \A i : New(i) /\ Subscribes(i)' => requests'[i].id = nextId /\ i = Len(requests) + 1
    PROVE  IdsRise'
<1>1. /\ Len(requests) \in Nat /\ nextId \in Nat
      /\ \A i \in 1 .. Len(requests) : Subscribes(i) => requests[i].id < nextId
      /\ \A i \in 1 .. Len(replies) : Confirms(i) => replies[i].id < nextId
  BY Elements DEF IInv, Indexed, TypeOK, ServerTypeOK, Old, Subscribes
<1>2. \A i \in 1 .. Len(requests') : Subscribes(i)' =>
          \/ i \in 1 .. Len(requests) /\ Subscribes(i) /\ requests'[i] = requests[i]
          \/ i = Len(requests) + 1 /\ requests'[i].id = nextId
  BY DEF New, Extends, Subscribes
<1>3. ASSUME NEW i \in 1 .. Len(requests'), NEW j \in 1 .. Len(requests'),
             Subscribes(i)', Subscribes(j)', i < j
      PROVE  requests'[i].id < requests'[j].id
  <2>1. i \in 1 .. Len(requests) /\ Subscribes(i) /\ requests'[i] = requests[i]
    <3>1. i # Len(requests) + 1
      BY <1>1, <1>2, <1>3
    <3> QED
      BY <1>2, <1>3, <3>1
  <2> QED
    BY <1>1, <1>2, <1>3, <2>1 DEF IdsRise
<1>4. ASSUME NEW i \in 1 .. Len(replies'), NEW j \in 1 .. Len(requests'),
             Confirms(i)', Subscribes(j)'
      PROVE  replies'[i].id < requests'[j].id
  BY <1>1, <1>2, <1>4 DEF IdsRise, Confirms
<1>5. \A i, j \in 1 .. Len(replies') :
          Confirms(i)' /\ Confirms(j)' /\ i < j => replies'[i].id < replies'[j].id
  BY DEF IdsRise, Confirms
<1> QED
  BY <1>3, <1>4, <1>5 DEF IdsRise

LEMMA StillKept ==
    ASSUME IInv', Kept, Paused, NEW c, Touches(c),
           c \in DOMAIN channels' =>
               /\ channels'[c].markets # {}
               /\ channels'[c].pending \subseteq channels'[c].markets
               /\ channels'[c].sid # NoSid => channels'[c].pending = {},
           c \in DOMAIN resub' => /\ c \in DOMAIN channels' /\ channels'[c].sid = NoSid
                                  /\ resub'[c] = channels'[c].markets
    PROVE  Kept' /\ Paused'
<1>1. DOMAIN channels' \subseteq Channels /\ DOMAIN resub' \subseteq Channels
  BY DEF IInv, Indexed, TypeOK
<1>2. ASSUME NEW d \in DOMAIN channels'
      PROVE  /\ channels'[d].markets # {}
             /\ channels'[d].pending \subseteq channels'[d].markets
             /\ channels'[d].sid # NoSid => channels'[d].pending = {}
  BY <1>1, <1>2 DEF Touches, Kept
<1>3. ASSUME NEW d \in DOMAIN resub'
      PROVE  /\ d \in DOMAIN channels' /\ channels'[d].sid = NoSid
             /\ resub'[d] = channels'[d].markets
  BY <1>1, <1>3 DEF Touches, Paused
<1> QED
  BY <1>2, <1>3 DEF Kept, Paused

LEMMA StillAwaited ==
    ASSUME IInv, IInv', Awaited, NEW c, Touches(c),
           \A id \in DOMAIN pending' :
               \/ id \in DOMAIN pending /\ pending'[id] = pending[id]
               \/ id = nextId /\ pending'[id] = c /\ ~IsPending(c),
           (\E id \in DOMAIN pending' : pending'[id] = c) =>
               c \in DOMAIN channels' /\ channels'[c].sid = NoSid /\ ~Waiting(c)'
    PROVE  Awaited'
<1>1. \A id \in DOMAIN pending' : pending'[id] \in Channels
  BY DEF IInv, Indexed, TypeOK
<1>2. ASSUME NEW id \in DOMAIN pending'
      PROVE  /\ pending'[id] \in DOMAIN channels' /\ channels'[pending'[id]].sid = NoSid
             /\ ~Waiting(pending[id])'
  <2>1. CASE pending'[id] = c
    BY <2>1
  <2>2. CASE pending'[id] # c
    <3>1. id \in DOMAIN pending /\ pending'[id] = pending[id]
      BY <2>2
    <3>2. /\ pending[id] \in DOMAIN channels /\ channels[pending[id]].sid = NoSid
          /\ ~Waiting(pending[id])
      BY <3>1 DEF Awaited
    <3> QED
      BY <1>1, <2>2, <3>1, <3>2 DEF Touches, Waiting
  <2> QED
    BY <2>1, <2>2
<1>3. ASSUME NEW i \in DOMAIN pending', NEW j \in DOMAIN pending', pending'[i] = pending'[j]
      PROVE  i = j
  BY <1>3 DEF Awaited, IsPending
<1> QED
  BY <1>2, <1>3 DEF Awaited

LEMMA StillPlaced ==
    ASSUME IInv', Placed, link = "open", NEW c, Touches(c),
           \A id \in DOMAIN pending : id \in DOMAIN pending' /\ pending'[id] = pending[id],
           c \in DOMAIN channels' /\ channels'[c].sid = NoSid => IsPending(c)' \/ Waiting(c)'
    PROVE  Placed'
<1>1. DOMAIN channels' \subseteq Channels
  BY DEF IInv, Indexed, TypeOK
<1>2. ASSUME NEW d \in DOMAIN channels', channels'[d].sid = NoSid
      PROVE  IsPending(d)' \/ Waiting(d)'
  BY <1>1, <1>2 DEF Touches, Placed, IsPending, Waiting
<1> QED
  BY <1>2 DEF Placed

LEMMA StillFollowed ==
    ASSUME IInv, IInv', Followed, NEW c, Touches(c), Extends,
           \A s \in DOMAIN sidMap' : s \in DOMAIN sidMap /\ sidMap'[s] = sidMap[s],
           \A i : New(i) /\ requests'[i].cmd = "update_subscription" =>
               c \in DOMAIN channels /\ channels[c].sid = requests'[i].sid,
           c \in DOMAIN channels' /\ channels'[c].sid # NoSid => \A s : s = channels'[c].sid =>
               \A m \in Markets : m \in channels'[c].markets <=> WillServe(s, m)'
    PROVE  Followed'
<1>1. ASSUME NEW s \in DOMAIN sidMap', NEW m \in Markets
      PROVE  m \in channels'[sidMap'[s]].markets <=> WillServe(s, m)'
  <2>1. /\ s \in DOMAIN sidMap /\ sidMap'[s] = sidMap[s] /\ s # NoSid
        /\ sidMap[s] \in DOMAIN channels /\ channels[sidMap[s]].sid = s
        /\ sidMap[s] \in DOMAIN channels' /\ channels'[sidMap[s]].sid = s /\ sidMap[s] \in Channels
    BY <1>1 DEF IInv, Indexed, SidMapInverse, TypeOK, Sids
  <2>2. CASE sidMap[s] = c
    BY <2>1, <2>2
  <2>3. CASE sidMap[s] # c
    <3>1. channels'[sidMap[s]].markets = channels[sidMap[s]].markets /\ subs' = subs
      BY <2>1, <2>3 DEF Touches, WireOnlySends
    <3>2. c \in DOMAIN channels => channels[c].sid # s
      BY <2>1, <2>3 DEF IInv, Indexed, SidMapInverse
    <3>3. \A i : New(i) => ~Updates(i, s)'
      BY <3>2 DEF Updates
    <3>4. WillServe(s, m)' <=> WillServe(s, m)
      BY <3>1, <3>3, WillServeStays DEF Changes
    <3> QED
      BY <2>1, <3>1, <3>4 DEF Followed
  <2> QED
    BY <2>2, <2>3
<1> QED
  BY <1>1 DEF Followed

LEMMA OthersFollow ==
    ASSUME NEW c, Touches(c), NEW d \in Channels \ {c}, d \in DOMAIN channels
    PROVE  Follows(d)
BY DEF Touches, Follows

\* Nothing is sent, and no channel changes.
LEMMA IdleSynced ==
    ASSUME IInv, IInv', Synced, Touches(NoChannel), NoSend, sidMap' = sidMap
    PROVE  Synced'
<1>1. NoChannel \notin Channels
  BY ClientAssumption
<1>2. /\ DOMAIN channels' \subseteq Channels /\ DOMAIN resub' \subseteq Channels
      /\ DOMAIN channels \subseteq Channels
      /\ \A id \in DOMAIN pending' : pending'[id] \in Channels
  BY DEF IInv, Indexed, TypeOK
<1>3. /\ Extends /\ \A i : ~New(i)
      /\ pending' = pending /\ UNCHANGED <<link, replies, subs>>
  BY NothingNew DEF NoSend, Touches, WireOnlySends
<1>4. Kept' /\ Paused'
  BY <1>1, <1>2, StillKept DEF Synced
<1>5. Awaited'
  BY <1>1, <1>2, <1>3, StillAwaited DEF Synced
<1>6. IdsRise'
  BY <1>3, IdsStillRise DEF Synced
<1>7. ASSUME link' = "open" PROVE Wire'
  <2>1. link = "open" /\ Wire
    BY <1>3, <1>7 DEF Synced
  <2>2. Placed'
    BY <1>1, <1>2, <1>3, <2>1, StillPlaced DEF Wire
  <2>3. Followed'
    BY <1>1, <1>2, <1>3, <2>1, StillFollowed DEF Wire
  <2>4. \A id \in DOMAIN pending : Follows(pending[id])
    BY <1>1, <1>2, OthersFollow DEF Synced, Awaited
  <2> QED
    BY <1>3, <2>1, <2>2, <2>3, <2>4, WireStays DEF Touches
<1> QED
  BY <1>4, <1>5, <1>6, <1>7 DEF Synced

\* A subscription of a channel that has ended or is new is behind the end of all
\* that the exchange still serves of it.
LEMMA EndedBefore ==
    ASSUME IInv, Wire, link = "open", NEW c, ~IsPending(c),
           c \in DOMAIN channels => channels[c].sid = NoSid,
           NEW s \in DOMAIN subs, subs[s].channel = c
    PROVE  \E j \in 1 .. Len(requests) : Unsubscribes(j, s)
<1>1. Owned(s)
  BY DEF Wire
<1>2. s \notin DOMAIN sidMap
  BY DEF IInv, Indexed, Known, SidMapInverse, TypeOK, Sids
<1>3. ~ \E i \in 1 .. Len(replies) : Confirms(i) /\ replies[i].sid = s
  BY DEF IInv, Indexed, Confirmed, Wire, Answers, IsPending
<1> QED
  BY <1>1, <1>2, <1>3 DEF Owned

\* Channel c is subscribed.
LEMMA AskSynced ==
    ASSUME IInv, IInv', Synced, NEW c \in Channels, NEW markets \in SUBSET Markets,
           Touches(c), SendSubscribe(c, markets), sidMap' = sidMap,
           ~IsPending(c), c \in DOMAIN channels => channels[c].sid = NoSid,
           c \in DOMAIN channels', channels'[c].sid = NoSid, ~Waiting(c)',
           channels'[c].markets # {}, channels'[c].pending \subseteq channels'[c].markets,
           link = "open" => channels'[c].markets = markets \cup channels'[c].pending
    PROVE  Synced'
<1> DEFINE r == [cmd |-> "subscribe", id |-> nextId, channel |-> c, markets |-> markets]
<1>1. /\ TypeOK /\ nextId \in Nat /\ \A id \in DOMAIN pending : id # nextId
      /\ UNCHANGED <<link, replies, subs>>
  BY DEF IInv, Indexed, TypeOK, Old, Touches, WireOnlySends
<1>2. /\ DOMAIN pending' = DOMAIN pending \cup {nextId} /\ pending'[nextId] = c
      /\ \A id \in DOMAIN pending : pending'[id] = pending[id]
  BY <1>1 DEF SendSubscribe, Put
<1>3. r \in Request /\ r.cmd = "subscribe" /\ r.id = nextId /\ r.markets = markets /\ Send(r)
  BY <1>1 DEF Request, SendSubscribe
<1> HIDE DEF r
<1>4. Kept' /\ Paused'
  BY StillKept DEF Synced, Waiting
<1>5. Awaited'
  BY <1>2, StillAwaited DEF Synced
<1>6. /\ Extends
      /\ \A i : New(i) => i = Len(requests) + 1 /\ requests'[i] = r
      /\ link = "open" => /\ New(Len(requests) + 1) /\ requests'[Len(requests) + 1] = r
                          /\ Len(requests) \in Nat
  BY <1>1, <1>3, RequestSent, NothingNew DEF Send
<1>7. IdsRise'
  BY <1>1, <1>3, <1>6, IdsStillRise DEF Synced
<1>8. ASSUME link' = "open" PROVE Wire'
  <2>1. link = "open" /\ Wire
    BY <1>1, <1>8 DEF Synced
  <2>2. Placed'
    BY <1>2, <2>1, StillPlaced DEF Wire, IsPending
  <2>3. Followed'
    BY <1>3, <1>6, <2>1, StillFollowed DEF Wire
  <2>4. \A id \in DOMAIN pending : Follows(pending[id])
    BY <1>1, OthersFollow DEF Synced, Awaited, TypeOK, IsPending
  <2>5. ASSUME NEW id, id = nextId PROVE Asked(id)'
    <3>0. PICK n : n = Len(requests) + 1
      OBVIOUS
    <3>1. n \in 1 .. Len(requests') /\ requests'[n] = r /\ Subscribes(n)'
      BY <1>3, <1>6, <2>1, <3>0 DEF New, Subscribes
    <3>2. ASSUME NEW s \in DOMAIN subs', subs'[s].channel = c
          PROVE  \E j \in 1 .. Len(requests') : j < n /\ Unsubscribes(j, s)'
      <4>1. PICK j \in 1 .. Len(requests) : Unsubscribes(j, s)
        BY <1>1, <2>1, <3>2, EndedBefore
      <4>2. j < n
        BY <1>6, <2>1, <3>0
      <4> QED
        BY <1>6, <4>1, <4>2 DEF Unsubscribes, Extends
    <3>3. requests'[n].id = id /\ channels'[c].markets = requests'[n].markets \cup channels'[c].pending
      BY <1>3, <2>1, <2>5, <3>1
    <3> QED
      BY <1>2, <2>5, <3>1, <3>2, <3>3 DEF Asked
  <2> QED
    BY <1>2, <1>3, <1>6, <2>1, <2>2, <2>3, <2>4, <2>5, WireStays DEF Touches
<1> QED
  BY <1>4, <1>5, <1>7, <1>8 DEF Synced

\* Channel c, which awaits its sid, collects a market.
LEMMA CollectSynced ==
    ASSUME IInv, IInv', Synced, NEW c \in Channels, NEW m \in Markets,
           Touches(c), NoSend, sidMap' = sidMap, UNCHANGED <<resub, recovery>>,
           IsPending(c), c \in DOMAIN channels', channels'[c].sid = channels[c].sid,
           channels'[c].markets = channels[c].markets \cup {m},
           channels'[c].pending = channels[c].pending \cup {m}
    PROVE  Synced'
<1>1. c \in DOMAIN channels /\ channels[c].sid = NoSid /\ ~Waiting(c) /\ c \notin DOMAIN resub
  BY DEF Synced, Awaited, IsPending, Waiting
<1>2. /\ Extends /\ \A i : ~New(i)
      /\ pending' = pending /\ UNCHANGED <<link, replies, subs>> /\ IsPending(c)'
  BY NothingNew DEF NoSend, Touches, WireOnlySends, IsPending
<1>3. Kept' /\ Paused'
  BY <1>1, StillKept DEF Synced, Kept
<1>4. Awaited'
  BY <1>1, <1>2, StillAwaited DEF Synced, Waiting
<1>5. IdsRise'
  BY <1>2, IdsStillRise DEF Synced
<1>6. ASSUME link' = "open" PROVE Wire'
  <2>1. link = "open" /\ Wire
    BY <1>2, <1>6 DEF Synced
  <2>2. Placed'
    BY <1>2, <2>1, StillPlaced DEF Wire
  <2>3. Followed'
    BY <1>1, <1>2, <2>1, StillFollowed DEF Wire
  <2>4. Follows(c)
    BY DEF Follows
  <2>5. \A id \in DOMAIN pending : Follows(pending[id])
    BY <2>4, OthersFollow DEF Synced, Awaited, IInv, Indexed, TypeOK
  <2> QED
    BY <1>2, <2>1, <2>2, <2>3, <2>5, WireStays DEF Touches
<1> QED
  BY <1>3, <1>4, <1>5, <1>6 DEF Synced

\* What one more request does to what will be served.
LEMMA WillServeMore ==
    ASSUME Extends, Len(requests) \in Nat, NEW r, NEW s, NEW m,
           \A i : New(i) => i = Len(requests) + 1 /\ requests'[i] = r,
           New(Len(requests) + 1), r.cmd = "update_subscription", r.sid = s,
           subs'[s].markets = subs[s].markets
    PROVE  /\ r.action = "add_markets" /\ m \in r.markets => WillServe(s, m)'
           /\ r.action = "delete_markets" /\ m \in r.markets => ~WillServe(s, m)'
           /\ r.action = "get_snapshot" \/ m \notin r.markets
                  => (WillServe(s, m)' <=> WillServe(s, m))
           /\ r.action = "add_markets" /\ WillServe(s, m) => WillServe(s, m)'
<1>0. PICK n : n = Len(requests) + 1
  OBVIOUS
<1>1. n \in 1 .. Len(requests') /\ requests'[n] = r /\ \A i \in 1 .. Len(requests) : i < n
  BY <1>0 DEF New
<1>2. \A i \in 1 .. Len(requests') : i = n \/ i < n
  BY <1>0 DEF New
<1>3. \A a : \A i : Changes(i, s, m, a)' <=>
          Changes(i, s, m, a) \/ (i = n /\ r.action = a /\ m \in r.markets)
  <2>1. \A i : i \in 1 .. Len(requests') <=> i \in 1 .. Len(requests) \/ i = n
    BY <1>0, <1>1 DEF New, Extends
  <2>2. n \notin 1 .. Len(requests)
    BY <1>0
  <2> QED
    BY <1>1, <2>1, <2>2 DEF Changes, Updates, Extends
<1>4. \A a : \A i : Changes(i, s, m, a) => i \in 1 .. Len(requests) /\ i \in 1 .. Len(requests') /\ i < n
  BY <1>1 DEF Changes, Updates, Extends
<1>5. ASSUME r.action = "add_markets", m \in r.markets PROVE WillServe(s, m)'
  <2>1. Changes(n, s, m, "add_markets")'
    BY <1>3, <1>5
  <2>2. \A j \in 1 .. Len(requests') : Changes(j, s, m, "delete_markets")' => j < n
    BY <1>3, <1>4, <1>5
  <2>3. \E i \in 1 .. Len(requests') :
            /\ Changes(i, s, m, "add_markets")'
            /\ \A j \in 1 .. Len(requests') : Changes(j, s, m, "delete_markets")' => j < i
    BY <1>1, <2>1, <2>2
  <2> QED
    BY <2>3 DEF WillServe
<1>6. ASSUME r.action = "delete_markets", m \in r.markets PROVE ~WillServe(s, m)'
  <2>1. Changes(n, s, m, "delete_markets")'
    BY <1>3, <1>6
  <2>2. \A i \in 1 .. Len(requests') : ~(n < i)
    BY <1>1, <1>2
  <2>3. ~ \E i \in 1 .. Len(requests') :
            /\ Changes(i, s, m, "add_markets")'
            /\ \A j \in 1 .. Len(requests') : Changes(j, s, m, "delete_markets")' => j < i
    BY <1>1, <2>1, <2>2
  <2> QED
    BY <1>1, <2>1, <2>3 DEF WillServe
<1>7. ASSUME r.action = "get_snapshot" \/ m \notin r.markets
      PROVE  WillServe(s, m)' <=> WillServe(s, m)
  <2>1. \A a \in {"add_markets", "delete_markets"} : \A i :
            Changes(i, s, m, a)' <=> Changes(i, s, m, a)
    BY <1>3, <1>7
  <2> QED
    BY <2>1, WillServeStays, <1>4 DEF New
<1>8. ASSUME r.action = "add_markets", WillServe(s, m) PROVE WillServe(s, m)'
  <2>1. CASE m \in r.markets
    BY <1>5, <1>8, <2>1
  <2>2. CASE m \notin r.markets
    BY <1>7, <1>8, <2>2
  <2> QED
    BY <2>1, <2>2
<1> QED
  BY <1>5, <1>6, <1>7, <1>8

\* Channel c, which has its sid, gets a market, gives one up, or asks for a snapshot.
LEMMA OrderSynced ==
    ASSUME IInv, IInv', Synced, NEW c \in Channels, NEW markets \in SUBSET Markets,
           NEW action \in {"add_markets", "delete_markets", "get_snapshot"},
           Touches(c), SendUpdate(channels[c].sid, markets, action),
           sidMap' = sidMap, UNCHANGED resub,
           c \in DOMAIN channels, channels[c].sid # NoSid,
           c \in DOMAIN channels', channels'[c].sid = channels[c].sid,
           channels'[c].pending = channels[c].pending, channels'[c].markets # {},
           action = "add_markets" => channels'[c].markets = channels[c].markets \cup markets,
           action = "delete_markets" => channels'[c].markets = channels[c].markets \ markets,
           action = "get_snapshot" => channels'[c].markets = channels[c].markets
    PROVE  Synced'
<1> DEFINE s == channels[c].sid
           r == [cmd |-> "update_subscription", sid |-> s, markets |-> markets, action |-> action]
<1>1. /\ TypeOK /\ s \in Sids /\ s \in DOMAIN sidMap /\ sidMap[s] = c
      /\ pending' = pending /\ UNCHANGED <<link, replies, subs>>
  BY DEF IInv, Indexed, TypeOK, SidMapInverse, Touches, WireOnlySends, SendUpdate
<1>2. /\ r \in Request /\ r.cmd = "update_subscription" /\ r.sid = s
      /\ r.markets = markets /\ r.action = action /\ Send(r)
  BY <1>1 DEF Request, SendUpdate
<1> HIDE DEF r
<1>3. c \notin DOMAIN resub' /\ channels[c].pending = {} /\ ~IsPending(c) /\ ~IsPending(c)'
  BY <1>1 DEF Synced, Paused, Kept, Awaited, IsPending
<1>4. Kept' /\ Paused'
  BY <1>3, StillKept DEF Synced
<1>5. Awaited'
  BY <1>1, <1>3, StillAwaited DEF Synced, IsPending
<1>6. /\ Extends
      /\ \A i : New(i) => i = Len(requests) + 1 /\ requests'[i] = r
      /\ link = "open" => New(Len(requests) + 1) /\ Len(requests) \in Nat
  BY <1>1, <1>2, RequestSent, NothingNew DEF Send
<1>7. IdsRise'
  BY <1>1, <1>2, <1>6, IdsStillRise DEF Synced, Subscribes
<1>8. ASSUME link' = "open" PROVE Wire'
  <2>1. link = "open" /\ Wire
    BY <1>1, <1>8 DEF Synced
  <2>2. Placed'
    BY <1>1, <2>1, StillPlaced DEF Wire
  <2>3. ASSUME NEW t, t = s, NEW m \in Markets
        PROVE  m \in channels'[c].markets <=> WillServe(t, m)'
    <3>1. m \in channels[c].markets <=> WillServe(t, m)
      BY <1>1, <2>1, <2>3 DEF Wire, Followed
    <3>2. /\ r.action = "add_markets" /\ m \in r.markets => WillServe(t, m)'
          /\ r.action = "delete_markets" /\ m \in r.markets => ~WillServe(t, m)'
          /\ r.action = "get_snapshot" \/ m \notin r.markets
                 => (WillServe(t, m)' <=> WillServe(t, m))
          /\ r.action = "add_markets" /\ WillServe(t, m) => WillServe(t, m)'
      BY <1>1, <1>2, <1>6, <2>1, <2>3, WillServeMore
    <3> QED
      BY <1>2, <3>1, <3>2
  <2>4. Followed'
    BY <1>1, <1>2, <1>6, <2>1, <2>3, StillFollowed DEF Wire
  <2>5. \A id \in DOMAIN pending : Follows(pending[id])
    BY <1>1, <1>3, OthersFollow DEF Synced, Awaited, TypeOK, IsPending
  <2> QED
    BY <1>1, <1>2, <1>6, <2>1, <2>2, <2>4, <2>5, WireStays DEF Touches, Subscribes
<1> QED
  BY <1>4, <1>5, <1>7, <1>8 DEF Synced

\* The subscription of channel c is ended: the channel goes, or pauses.
LEMMA EndSynced ==
    ASSUME IInv, IInv', Synced, NEW c \in Channels,
           Touches(c), SendUnsubscribe(channels[c].sid),
           sidMap' = Drop(sidMap, {channels[c].sid}),
           c \in DOMAIN channels, channels[c].sid # NoSid,
           c \in DOMAIN channels' =>
               /\ channels'[c].sid = NoSid
               /\ channels'[c].markets = channels[c].markets
               /\ channels'[c].pending = channels[c].pending
               /\ link = "open" => c \in DOMAIN resub',
           c \in DOMAIN resub' => c \in DOMAIN channels' /\ resub'[c] = channels[c].markets
    PROVE  Synced'
<1> DEFINE s == channels[c].sid
           r == [cmd |-> "unsubscribe", sid |-> s]
<1>1. /\ TypeOK /\ s \in Sids /\ s \in DOMAIN sidMap /\ sidMap[s] = c
      /\ pending' = pending /\ UNCHANGED <<link, replies, subs>>
  BY DEF IInv, Indexed, TypeOK, SidMapInverse, Touches, WireOnlySends, SendUnsubscribe
<1>2. r \in Request /\ r.cmd = "unsubscribe" /\ r.sid = s /\ Send(r)
  BY <1>1 DEF Request, SendUnsubscribe
<1> HIDE DEF r
<1>3. /\ DOMAIN sidMap' = DOMAIN sidMap \ {s}
      /\ \A t \in DOMAIN sidMap' : t \in DOMAIN sidMap /\ sidMap'[t] = sidMap[t]
  BY DEF Drop, Restrict
<1>4. ~IsPending(c) /\ ~IsPending(c)'
  BY <1>1 DEF Synced, Awaited, IsPending
<1>5. Kept' /\ Paused'
  <2>1. channels[c].markets # {} /\ channels[c].pending \subseteq channels[c].markets
    BY DEF Synced, Kept
  <2> QED
    BY <2>1, StillKept DEF Synced
<1>6. Awaited'
  BY <1>1, <1>4, StillAwaited DEF Synced, IsPending
<1>7. /\ Extends
      /\ \A i : New(i) => i = Len(requests) + 1 /\ requests'[i] = r
      /\ link = "open" => New(Len(requests) + 1)
  BY <1>1, <1>2, RequestSent, NothingNew DEF Send
<1>8. IdsRise'
  BY <1>1, <1>2, <1>7, IdsStillRise DEF Synced, Subscribes
<1>9. ASSUME link' = "open" PROVE Wire'
  <2>1. link = "open" /\ Wire
    BY <1>1, <1>9 DEF Synced
  <2>2. Placed'
    BY <1>1, <2>1, StillPlaced DEF Wire, Waiting
  <2>3. Followed'
    BY <1>2, <1>3, <1>7, <2>1, StillFollowed DEF Wire
  <2>4. \A id \in DOMAIN pending : Follows(pending[id])
    BY <1>1, <1>4, OthersFollow DEF Synced, Awaited, TypeOK, IsPending
  <2>5. \A t \in DOMAIN sidMap \ DOMAIN sidMap' : \E i : New(i) /\ Unsubscribes(i, t)'
    BY <1>2, <1>3, <1>7, <2>1 DEF New, Unsubscribes
  <2> QED
    BY <1>1, <1>2, <1>7, <2>1, <2>2, <2>3, <2>4, <2>5, WireStays DEF Touches, Subscribes
<1> QED
  BY <1>5, <1>6, <1>8, <1>9 DEF Synced

-----------------------------------------------------------------------------
(* The exchange takes a request.                                           *)

LEMMA Shifted ==
    ASSUME TypeOK, requests # <<>>, requests' = Tail(requests)
    PROVE  /\ 1 \in 1 .. Len(requests) /\ Len(requests) \in Nat /\ Head(requests) = requests[1]
           /\ requests[1] \in Request
           /\ \A i \in 1 .. Len(requests') :
                  i + 1 \in (1 .. Len(requests)) \ {1} /\ requests'[i] = requests[i + 1]
           /\ \A i \in (1 .. Len(requests)) \ {1} :
                  i - 1 \in 1 .. Len(requests') /\ requests'[i - 1] = requests[i]
<1>1. requests \in Seq(Request)
  BY DEF TypeOK, ServerTypeOK
<1>2. /\ Len(requests') = Len(requests) - 1 /\ Len(requests) \in Nat \ {0}
      /\ \A i \in 1 .. Len(requests') : requests'[i] = requests[i + 1]
      /\ Head(requests) = requests[1] /\ requests[1] \in Request
  BY <1>1, TailElements
<1>3. \A i \in (1 .. Len(requests)) \ {1} : i - 1 \in 1 .. Len(requests') /\ (i - 1) + 1 = i
  BY <1>2
<1> QED
  BY <1>2, <1>3

LEMMA ChangesShifted ==
    ASSUME TypeOK, requests # <<>>, requests' = Tail(requests), NEW s, NEW m, NEW a
    PROVE  /\ \A i \in 1 .. Len(requests') : Changes(i, s, m, a)' <=> Changes(i + 1, s, m, a)
           /\ \A i \in (1 .. Len(requests)) \ {1} : Changes(i, s, m, a) <=> Changes(i - 1, s, m, a)'
           /\ \A i : /\ Changes(i, s, m, a) => i \in 1 .. Len(requests)
                     /\ Changes(i, s, m, a)' => i \in 1 .. Len(requests')
<1>1. \A i \in 1 .. Len(requests') : Changes(i, s, m, a)' <=> Changes(i + 1, s, m, a)
  BY Shifted DEF Changes, Updates
<1>2. \A i \in (1 .. Len(requests)) \ {1} : Changes(i, s, m, a) <=> Changes(i - 1, s, m, a)'
  BY Shifted DEF Changes, Updates
<1>3. \A i : /\ Changes(i, s, m, a) => i \in 1 .. Len(requests)
             /\ Changes(i, s, m, a)' => i \in 1 .. Len(requests')
  BY DEF Changes, Updates
<1> QED
  BY <1>1, <1>2, <1>3

\* What is served once all requests are does not change when the first one is.
LEMMA WillServeServed ==
    ASSUME TypeOK, requests # <<>>, requests' = Tail(requests), NEW s, NEW m,
           m \in subs'[s].markets <=>
               \/ Changes(1, s, m, "add_markets")
               \/ m \in subs[s].markets /\ ~Changes(1, s, m, "delete_markets")
    PROVE  WillServe(s, m)' <=> WillServe(s, m)
<1> DEFINE Added(i) == Changes(i, s, m, "add_markets")
           Deleted(i) == Changes(i, s, m, "delete_markets")
<1>1. /\ \A i \in 1 .. Len(requests') : (Added(i)' <=> Added(i + 1)) /\ (Deleted(i)' <=> Deleted(i + 1))
      /\ \A i \in (1 .. Len(requests)) \ {1} :
             (Added(i) <=> Added(i - 1)') /\ (Deleted(i) <=> Deleted(i - 1)')
      /\ \A i : /\ Added(i) \/ Deleted(i) => i \in 1 .. Len(requests)
                /\ Added(i)' \/ Deleted(i)' => i \in 1 .. Len(requests')
  BY ChangesShifted
<1>2. /\ 1 \in 1 .. Len(requests) /\ Len(requests) \in Nat
      /\ \A i \in 1 .. Len(requests') : i + 1 \in (1 .. Len(requests)) \ {1}
      /\ \A i \in (1 .. Len(requests)) \ {1} : i - 1 \in 1 .. Len(requests')
  BY Shifted
<1>3. ~(Added(1) /\ Deleted(1))
  BY DEF Changes
<1>4. /\ WillServe(s, m) <=>
             \/ m \in subs[s].markets /\ \A j \in 1 .. Len(requests) : ~Deleted(j)
             \/ \E i \in 1 .. Len(requests) :
                    Added(i) /\ \A j \in 1 .. Len(requests) : Deleted(j) => j < i
      /\ WillServe(s, m)' <=>
             \/ m \in subs'[s].markets /\ \A j \in 1 .. Len(requests') : ~Deleted(j)'
             \/ \E i \in 1 .. Len(requests') :
                    Added(i)' /\ \A j \in 1 .. Len(requests') : Deleted(j)' => j < i
  BY DEF WillServe
<1>5. m \in subs'[s].markets <=> Added(1) \/ (m \in subs[s].markets /\ ~Deleted(1))
  OBVIOUS
<1> HIDE DEF Added, Deleted
<1>6. (\A j \in 1 .. Len(requests') : ~Deleted(j)') <=> (\A j \in (1 .. Len(requests)) \ {1} : ~Deleted(j))
  BY <1>1, <1>2
<1>7. ASSUME NEW i \in 1 .. Len(requests), Added(i),
             \A j \in 1 .. Len(requests) : Deleted(j) => j < i
      PROVE  WillServe(s, m)'
  <2>1. CASE i = 1
    <3>1. \A j \in 1 .. Len(requests) : ~Deleted(j)
      BY <1>2, <1>7, <2>1
    <3> QED
      BY <1>4, <1>5, <1>6, <1>7, <2>1, <3>1
  <2>2. CASE i # 1
    <3>1. i - 1 \in 1 .. Len(requests') /\ Added(i - 1)'
      BY <1>1, <1>2, <1>7, <2>2
    <3>2. ASSUME NEW j \in 1 .. Len(requests'), Deleted(j)' PROVE j < i - 1
      <4>1. j + 1 \in 1 .. Len(requests) /\ Deleted(j + 1)
        BY <1>1, <1>2, <3>2
      <4>2. j + 1 < i
        BY <1>7, <4>1
      <4> QED
        BY <4>2
    <3> QED
      BY <1>4, <3>1, <3>2
  <2> QED
    BY <2>1, <2>2
<1>8. ASSUME NEW i \in 1 .. Len(requests'), Added(i)',
             \A j \in 1 .. Len(requests') : Deleted(j)' => j < i
      PROVE  WillServe(s, m)
  <2>1. i + 1 \in 1 .. Len(requests) /\ Added(i + 1)
    BY <1>1, <1>2, <1>8
  <2>2. ASSUME NEW j \in 1 .. Len(requests), Deleted(j) PROVE j < i + 1
    <3>1. CASE j = 1
      BY <3>1
    <3>2. CASE j # 1
      <4>1. j - 1 \in 1 .. Len(requests') /\ Deleted(j - 1)'
        BY <1>1, <1>2, <2>2, <3>2
      <4>2. j - 1 < i
        BY <1>8, <4>1
      <4> QED
        BY <4>2
    <3> QED
      BY <3>1, <3>2
  <2> QED
    BY <1>4, <2>1, <2>2
<1>9. ASSUME m \in subs[s].markets, \A j \in 1 .. Len(requests) : ~Deleted(j)
      PROVE  WillServe(s, m)'
  BY <1>2, <1>4, <1>5, <1>6, <1>9
<1>10. ASSUME m \in subs'[s].markets, \A j \in 1 .. Len(requests') : ~Deleted(j)'
       PROVE  WillServe(s, m)
  <2>1. CASE Added(1)
    <3>1. \A j \in 1 .. Len(requests) : ~Deleted(j)
      BY <1>3, <1>6, <1>10, <2>1
    <3> QED
      BY <1>2, <1>4, <2>1, <3>1
  <2>2. CASE ~Added(1)
    BY <1>4, <1>5, <1>6, <1>10, <2>2
  <2> QED
    BY <2>1, <2>2
<1> QED
  BY <1>4, <1>7, <1>8, <1>9, <1>10

LEMMA AskedServed ==
    ASSUME TypeOK, requests # <<>>, requests' = Tail(requests), UNCHANGED clientVars,
           NEW id, Asked(id), requests[1].cmd = "subscribe" => requests[1].id # id,
           \A s \in DOMAIN subs' : subs'[s].channel = pending[id] =>
               s \in DOMAIN subs /\ subs[s].channel = pending[id] /\ ~Unsubscribes(1, s)
    PROVE  Asked(id)'
<1>1. UNCHANGED <<channels, pending>>
  BY DEF clientVars
<1>2. PICK i \in 1 .. Len(requests) :
          /\ Subscribes(i) /\ requests[i].id = id
          /\ channels[pending[id]].markets
                 = requests[i].markets \cup channels[pending[id]].pending
          /\ \A s \in DOMAIN subs : subs[s].channel = pending[id] =>
                 \E j \in 1 .. Len(requests) : j < i /\ Unsubscribes(j, s)
  BY DEF Asked
<1>3. /\ i # 1 /\ i - 1 \in 1 .. Len(requests') /\ requests'[i - 1] = requests[i]
      /\ Subscribes(i - 1)'
  BY <1>2, Shifted DEF Subscribes
<1>4. ASSUME NEW s \in DOMAIN subs', subs'[s].channel = pending'[id]
      PROVE  \E j \in 1 .. Len(requests') : j < i - 1 /\ Unsubscribes(j, s)'
  <2>1. PICK j \in 1 .. Len(requests) : j < i /\ Unsubscribes(j, s) /\ j # 1
    BY <1>1, <1>2, <1>4
  <2>2. j - 1 \in 1 .. Len(requests') /\ requests'[j - 1] = requests[j] /\ j - 1 < i - 1
    BY <2>1, Shifted
  <2> QED
    BY <2>1, <2>2 DEF Unsubscribes
<1> QED
  BY <1>1, <1>2, <1>3, <1>4 DEF Asked

LEMMA ToldServed ==
    ASSUME TypeOK, requests # <<>>, requests' = Tail(requests), UNCHANGED clientVars,
           NEW reply \in Reply, replies' = Append(replies, reply),
           \A k : Confirms(k) /\ ~Updates(1, replies[k].sid) =>
               subs'[replies[k].sid].markets = subs[replies[k].sid].markets,
           NEW id, Told(id)
    PROVE  Told(id)'
<1>1. UNCHANGED <<channels, pending>> /\ replies \in Seq(Reply)
  BY DEF clientVars, TypeOK, ServerTypeOK
<1>2. PICK i \in 1 .. Len(replies) :
          /\ Confirms(i) /\ replies[i].id = id
          /\ channels[pending[id]].markets
                 = subs[replies[i].sid].markets \cup channels[pending[id]].pending
          /\ \A j \in 1 .. Len(requests) : ~Updates(j, replies[i].sid)
  BY DEF Told
<1>3. /\ i \in 1 .. Len(replies') /\ Confirms(i)' /\ replies'[i] = replies[i]
      /\ subs'[replies[i].sid].markets = subs[replies[i].sid].markets
  BY <1>1, <1>2, Appended, Shifted
<1>4. \A j \in 1 .. Len(requests') : ~Updates(j, replies[i].sid)'
  <2>1. ASSUME NEW j \in 1 .. Len(requests'), NEW s, s = replies'[i].sid PROVE ~Updates(j, s)'
    <3>1. ~Updates(j + 1, s) /\ j + 1 \in 1 .. Len(requests) /\ requests'[j] = requests[j + 1]
      BY <1>2, <1>3, <2>1, Shifted
    <3> QED
      BY <3>1 DEF Updates
  <2> QED
    BY <2>1 DEF Updates
<1> QED
  BY <1>1, <1>2, <1>3, <1>4 DEF Told

LEMMA ClientSame ==
    ASSUME Synced, UNCHANGED clientVars
    PROVE  Kept' /\ Awaited' /\ Paused' /\ (Placed => Placed')
BY DEF Synced, clientVars, Kept, Awaited, Paused, Waiting, Placed, IsPending

\* The first request is the first subscribe, and no confirmation has its id.
LEMMA RiseServed ==
    ASSUME TypeOK, IdsRise, requests # <<>>, requests' = Tail(requests),
           NEW reply \in Reply, replies' = Append(replies, reply),
           reply.type = "subscribed" =>
               requests[1].cmd = "subscribe" /\ reply.id = requests[1].id
    PROVE  IdsRise'
<1>1. replies \in Seq(Reply)
  BY DEF TypeOK, ServerTypeOK
<1>2. \A i \in 1 .. Len(requests') : Subscribes(i)' =>
          /\ i + 1 \in (1 .. Len(requests)) \ {1} /\ i \in Nat
          /\ Subscribes(i + 1) /\ requests'[i] = requests[i + 1]
  BY Shifted DEF Subscribes
<1>3. \A i \in 1 .. Len(replies') : Confirms(i)' =>
          \/ i \in 1 .. Len(replies) /\ Confirms(i) /\ replies'[i] = replies[i]
          \/ /\ i = Len(replies) + 1 /\ Len(replies) \in Nat
             /\ Subscribes(1) /\ replies'[i].id = requests[1].id
  BY <1>1, Appended, Shifted DEF Subscribes, Confirms
<1>4. \A i, j \in 1 .. Len(requests') :
          Subscribes(i)' /\ Subscribes(j)' /\ i < j => requests'[i].id < requests'[j].id
  <2>1. ASSUME NEW i \in 1 .. Len(requests'), NEW j \in 1 .. Len(requests'),
               Subscribes(i)', Subscribes(j)', i < j
        PROVE  requests'[i].id < requests'[j].id
    <3>1. i + 1 < j + 1
      BY <1>2, <2>1
    <3> QED
      BY <1>2, <2>1, <3>1 DEF IdsRise
  <2> QED
    BY <2>1
<1>5. ASSUME NEW i \in 1 .. Len(replies'), NEW j \in 1 .. Len(requests'),
             Confirms(i)', Subscribes(j)'
      PROVE  replies'[i].id < requests'[j].id
  <2>1. /\ j + 1 \in (1 .. Len(requests)) \ {1} /\ j \in Nat
        /\ Subscribes(j + 1) /\ requests'[j] = requests[j + 1]
    BY <1>2, <1>5
  <2>2. CASE i \in 1 .. Len(replies) /\ Confirms(i) /\ replies'[i] = replies[i]
    BY <2>1, <2>2 DEF IdsRise
  <2>3. CASE Subscribes(1) /\ replies'[i].id = requests[1].id
    <3>1. 1 < j + 1 /\ 1 \in 1 .. Len(requests)
      BY <2>1, <2>3 DEF Subscribes
    <3> QED
      BY <2>1, <2>3, <3>1 DEF IdsRise
  <2> QED
    BY <1>3, <1>5, <2>2, <2>3
<1>6. ASSUME NEW i \in 1 .. Len(replies'), NEW j \in 1 .. Len(replies'),
             Confirms(i)', Confirms(j)', i < j
      PROVE  replies'[i].id < replies'[j].id
  <2>1. i \in 1 .. Len(replies) /\ Confirms(i) /\ replies'[i] = replies[i]
    <3>1. Len(replies) \in Nat /\ Len(replies') = Len(replies) + 1
      BY <1>1, Appended
    <3>2. i # Len(replies) + 1
      BY <1>6, <3>1
    <3> QED
      BY <1>3, <1>6, <3>2
  <2>2. CASE j \in 1 .. Len(replies) /\ Confirms(j) /\ replies'[j] = replies[j]
    BY <1>6, <2>1, <2>2 DEF IdsRise
  <2>3. CASE Subscribes(1) /\ replies'[j].id = requests[1].id
    BY <2>1, <2>3, Shifted DEF IdsRise
  <2> QED
    BY <1>3, <1>6, <2>2, <2>3
<1> QED
  BY <1>4, <1>5, <1>6 DEF IdsRise

\* What the exchange does with the first request, as far as the client's wishes go.
LEMMA ServedSynced ==
    ASSUME IInv, IInv', Synced, Serving, NEW reply \in Reply, replies' = Append(replies, reply),
           nextSid' \in {nextSid, nextSid + 1},
           reply.type = "subscribed" =>
               requests[1].cmd = "subscribe" /\ reply.id = requests[1].id,
           \A id : requests[1].cmd = "subscribe" /\ id = requests[1].id => Told(id)',
           \A s \in DOMAIN subs' :
               \/ s \in DOMAIN subs /\ subs'[s].channel = subs[s].channel /\ ~Unsubscribes(1, s)
               \/ /\ reply.type = "subscribed" /\ reply.sid = s
                  /\ \A id \in DOMAIN pending : id # reply.id => pending[id] # subs'[s].channel,
           \A k : Confirms(k) /\ ~Updates(1, replies[k].sid) =>
               subs'[replies[k].sid].markets = subs[replies[k].sid].markets,
           \A s \in DOMAIN sidMap : \A m \in Markets :
               m \in subs'[s].markets <=>
                   \/ Changes(1, s, m, "add_markets")
                   \/ m \in subs[s].markets /\ ~Changes(1, s, m, "delete_markets")
    PROVE  Synced'
<1>1. /\ TypeOK /\ replies \in Seq(Reply) /\ nextSid \in Nat
      /\ requests # <<>> /\ requests' = Tail(requests) /\ UNCHANGED clientVars
      /\ UNCHANGED <<channels, sidMap, pending>> /\ link = "open" /\ Wire
  BY DEF IInv, Indexed, TypeOK, ServerTypeOK, Sids, Serving, clientVars, Synced
<1>2. IdsRise'
  BY <1>1, RiseServed DEF Synced
<1>3. Wanted'
  <2>1. ASSUME NEW id \in DOMAIN pending PROVE Asked(id)' \/ Told(id)'
    <3>1. CASE Told(id)
      BY <1>1, <3>1, ToldServed
    <3>2. CASE Asked(id) /\ ~(requests[1].cmd = "subscribe" /\ requests[1].id = id)
      <4>1. \A s \in DOMAIN subs' : subs'[s].channel = pending[id] =>
                s \in DOMAIN subs /\ subs[s].channel = pending[id] /\ ~Unsubscribes(1, s)
        BY <2>1, <3>2
      <4> QED
        BY <1>1, <3>2, <4>1, AskedServed
    <3>3. CASE requests[1].cmd = "subscribe" /\ requests[1].id = id
      BY <3>3
    <3> QED
      BY <1>1, <2>1, <3>1, <3>2, <3>3 DEF Wire, Wanted
  <2> QED
    BY <1>1, <2>1 DEF Wanted
<1>4. Placed'
  BY <1>1, ClientSame DEF Wire
<1>5. \A i \in 1 .. Len(requests') :
          i + 1 \in (1 .. Len(requests)) \ {1} /\ requests'[i] = requests[i + 1]
  BY <1>1, Shifted
<1>6. Answers'
  <2>1. ASSUME NEW i \in 1 .. Len(requests'), Subscribes(i)'
        PROVE  requests'[i].id \in DOMAIN pending'
    BY <1>1, <1>5, <2>1 DEF Wire, Answers, Subscribes
  <2>2. ASSUME NEW i \in 1 .. Len(replies'), Confirms(i)'
        PROVE  replies'[i].id \in DOMAIN pending'
    <3>1. \/ i \in 1 .. Len(replies) /\ Confirms(i) /\ replies'[i] = replies[i]
          \/ replies'[i] = reply /\ reply.type = "subscribed"
      BY <1>1, <2>2, Appended DEF Confirms
    <3>2. requests[1].cmd = "subscribe" => requests[1].id \in DOMAIN pending
      BY <1>1, Shifted DEF Wire, Answers, Subscribes
    <3> QED
      BY <1>1, <3>1, <3>2 DEF Wire, Answers
  <2> QED
    BY <2>1, <2>2 DEF Answers
<1>7. Given'
  <2>1. ASSUME NEW i \in 1 .. Len(requests'), requests'[i].cmd = "update_subscription"
        PROVE  requests'[i].sid < nextSid'
    <3>1. requests'[i].sid < nextSid
      BY <1>1, <1>5, <2>1 DEF Wire, Given
    <3>2. requests'[i] \in Request
      BY <1>5, <1>1, Elements DEF TypeOK, ServerTypeOK
    <3>3. requests'[i].sid \in Nat
      BY <2>1, <3>2 DEF Request, Sids
    <3> QED
      BY <1>1, <3>1, <3>3
  <2> QED
    BY <2>1 DEF Given
<1>8. ASSUME NEW s \in DOMAIN subs' PROVE Owned(s)'
  <2>1. CASE s \in DOMAIN subs /\ ~Unsubscribes(1, s)
    <3>1. Owned(s)
      BY <1>1, <2>1 DEF Wire
    <3>2. CASE s \in DOMAIN sidMap
      BY <1>1, <3>2 DEF Owned
    <3>3. CASE \E i \in 1 .. Len(replies) : Confirms(i) /\ replies[i].sid = s
      <4>1. PICK i \in 1 .. Len(replies) : Confirms(i) /\ replies[i].sid = s
        BY <3>3
      <4>2. i \in 1 .. Len(replies') /\ Confirms(i)' /\ replies'[i].sid = s
        BY <1>1, <4>1, Appended
      <4> QED
        BY <4>2 DEF Owned
    <3>4. CASE \E i \in 1 .. Len(requests) : Unsubscribes(i, s)
      <4>1. PICK i \in 1 .. Len(requests) : Unsubscribes(i, s) /\ i # 1
        BY <2>1, <3>4
      <4>2. i - 1 \in 1 .. Len(requests') /\ requests'[i - 1] = requests[i]
        BY <1>1, <4>1, Shifted
      <4> QED
        BY <4>1, <4>2 DEF Owned, Unsubscribes
    <3> QED
      BY <3>1, <3>2, <3>3, <3>4 DEF Owned
  <2>2. CASE reply.type = "subscribed" /\ reply.sid = s
    <3>1. Len(replies) + 1 \in 1 .. Len(replies') /\ replies'[Len(replies) + 1] = reply
      BY <1>1, Appended
    <3> QED
      BY <2>2, <3>1 DEF Owned, Confirms
  <2> QED
    BY <2>1, <2>2
<1>9. Followed'
  <2>1. ASSUME NEW s \in DOMAIN sidMap', NEW m \in Markets
        PROVE  m \in channels'[sidMap'[s]].markets <=> WillServe(s, m)'
    <3>1. m \in channels[sidMap[s]].markets <=> WillServe(s, m)
      BY <1>1, <2>1 DEF Wire, Followed
    <3>2. WillServe(s, m)' <=> WillServe(s, m)
      BY <1>1, <2>1, WillServeServed
    <3> QED
      BY <1>1, <3>1, <3>2
  <2> QED
    BY <2>1 DEF Followed
<1> QED
  BY <1>1, <1>2, <1>3, <1>4, <1>6, <1>7, <1>8, <1>9, ClientSame DEF Synced, Wire

\* A subscribe is never refused: the subscriptions before it have been ended.
LEMMA ServeSubscribeSynced ==
    ASSUME IInv, IInv', Synced, Serving, NEW r, r = Head(requests), r.cmd = "subscribe",
           ServeSubscribe(r)
    PROVE  Synced'
<1> DEFINE reply == [type |-> "subscribed", id |-> r.id, sid |-> nextSid]
           sub == [channel |-> r.channel, markets |-> r.markets, seq |-> 0,
                   first |-> NoSeq, skipped |-> {}]
<1>1. /\ TypeOK /\ link = "open" /\ Wire /\ requests' = Tail(requests) /\ requests # <<>>
      /\ UNCHANGED <<channels, sidMap, pending>> /\ replies \in Seq(Reply) /\ nextSid \in Sids
  BY DEF IInv, Indexed, TypeOK, ServerTypeOK, Serving, clientVars, Synced
<1>2. /\ 1 \in 1 .. Len(requests) /\ r = requests[1] /\ Subscribes(1) /\ r \in Request
      /\ r.id \in Nat /\ r.id \in DOMAIN pending /\ pending[r.id] = r.channel
  <2>1. 1 \in 1 .. Len(requests) /\ r = requests[1] /\ r \in Request
    BY <1>1, Shifted
  <2>2. Subscribes(1) /\ r.id \in Nat
    BY <2>1 DEF Subscribes, Request
  <2> QED
    BY <1>1, <2>1, <2>2 DEF Wire, Answers, IInv, Indexed, Confirmed
<1>3. ~Told(r.id)
  BY <1>2 DEF Told, Synced, IdsRise
<1>4. /\ channels[r.channel].markets = r.markets \cup channels[r.channel].pending
      /\ \A s \in DOMAIN subs : subs[s].channel # r.channel
  <2>1. PICK i \in 1 .. Len(requests) :
            /\ Subscribes(i) /\ requests[i].id = r.id
            /\ channels[r.channel].markets = requests[i].markets \cup channels[r.channel].pending
            /\ \A s \in DOMAIN subs : subs[s].channel = r.channel =>
                   \E j \in 1 .. Len(requests) : j < i /\ Unsubscribes(j, s)
    BY <1>1, <1>2, <1>3 DEF Wire, Wanted, Asked
  <2>2. i = 1
    <3>1. ASSUME 1 < i PROVE FALSE
      BY <1>2, <2>1, <3>1 DEF Synced, IdsRise
    <3> QED
      BY <3>1
  <2>3. \A j \in 1 .. Len(requests) : ~(j < i)
    BY <2>2
  <2> QED
    BY <1>2, <2>1, <2>2, <2>3
<1>5. /\ replies' = Append(replies, reply) /\ nextSid' = nextSid + 1
      /\ subs' = Put(subs, nextSid, sub)
  BY <1>4 DEF ServeSubscribe, SubscribedTo, Answer
<1>6. /\ reply \in Reply /\ reply.type = "subscribed" /\ reply.id = r.id /\ reply.sid = nextSid
      /\ sub.channel = r.channel /\ sub.markets = r.markets
  BY <1>1, <1>2 DEF Reply
<1>7. /\ nextSid \notin DOMAIN subs
      /\ DOMAIN subs' = DOMAIN subs \cup {nextSid} /\ subs'[nextSid] = sub
      /\ \A s \in DOMAIN subs : subs'[s] = subs[s]
  <2>1. nextSid \notin DOMAIN subs
    BY <1>1 DEF IInv, Indexed, Old, Sids
  <2> QED
    BY <1>5, <2>1 DEF Put
<1> HIDE DEF reply, sub
<1>8. ASSUME NEW id, id = r.id PROVE Told(id)'
  <2>1. PICK n : n = Len(replies) + 1
    OBVIOUS
  <2>2. n \in 1 .. Len(replies') /\ replies'[n] = reply /\ Confirms(n)'
    BY <1>1, <1>5, <1>6, <2>1, Appended DEF Confirms
  <2>3. ASSUME NEW j \in 1 .. Len(requests'), NEW s, s = nextSid PROVE ~Updates(j, s)'
    <3>1. j + 1 \in 1 .. Len(requests) /\ requests'[j] = requests[j + 1]
      BY <1>1, Shifted
    <3>2. requests[j + 1].cmd = "update_subscription" => requests[j + 1].sid < nextSid
      BY <1>1, <3>1 DEF Wire, Given
    <3> QED
      BY <1>1, <2>3, <3>1, <3>2 DEF Updates, Sids
  <2>4. \A j \in 1 .. Len(requests') : ~Updates(j, replies[n].sid)'
    BY <1>6, <2>2, <2>3 DEF Updates
  <2>5. channels'[pending'[id]].markets
            = subs'[replies'[n].sid].markets \cup channels'[pending'[id]].pending
    BY <1>1, <1>2, <1>4, <1>6, <1>7, <1>8, <2>2
  <2> QED
    BY <1>6, <1>8, <2>2, <2>4, <2>5 DEF Told
<1>9. ASSUME NEW s \in DOMAIN subs'
      PROVE  \/ s \in DOMAIN subs /\ subs'[s].channel = subs[s].channel /\ ~Unsubscribes(1, s)
             \/ /\ reply.type = "subscribed" /\ reply.sid = s
                /\ \A id \in DOMAIN pending : id # reply.id => pending[id] # subs'[s].channel
  BY <1>2, <1>6, <1>7 DEF Unsubscribes, Synced, Awaited
<1>10. \A k : Confirms(k) => subs'[replies[k].sid].markets = subs[replies[k].sid].markets
  BY <1>1, <1>7 DEF IInv, Indexed, Confirmed, Confirms
<1>11. ASSUME NEW s \in DOMAIN sidMap, NEW m \in Markets
       PROVE  m \in subs'[s].markets <=>
                  \/ Changes(1, s, m, "add_markets")
                  \/ m \in subs[s].markets /\ ~Changes(1, s, m, "delete_markets")
  <2>1. subs'[s] = subs[s]
    BY <1>1, <1>7 DEF IInv, Indexed, Known
  <2> QED
    BY <1>2, <2>1 DEF Changes, Updates
<1> QED
  BY <1>1, <1>2, <1>5, <1>6, <1>8, <1>9, <1>10, <1>11, ServedSynced

LEMMA ServeUnsubscribeSynced ==
    ASSUME IInv, IInv', Synced, Serving, NEW r, r = Head(requests), r.cmd = "unsubscribe",
           ServeUnsubscribe(r)
    PROVE  Synced'
<1>1. /\ TypeOK /\ link = "open" /\ requests' = Tail(requests) /\ requests # <<>>
  BY DEF IInv, Indexed, TypeOK, ServerTypeOK, Serving
<1>2. 1 \in 1 .. Len(requests) /\ r = requests[1] /\ r \in Request /\ r.sid \in Sids
  <2>1. 1 \in 1 .. Len(requests) /\ r = requests[1] /\ r \in Request
    BY <1>1, Shifted
  <2> QED
    BY <2>1 DEF Request
<1>3. Ended(r.sid)
  BY <1>2 DEF IInv, Indexed, Dropped
<1>4. PICK reply \in Reply : replies' = Append(replies, reply) /\ reply.type # "subscribed"
  <2>1. [type |-> "unsubscribed", sid |-> r.sid] \in Reply /\ [type |-> "error"] \in Reply
    BY <1>2 DEF Reply
  <2> QED
    BY <2>1 DEF ServeUnsubscribe, Answer
<1>5. /\ nextSid' = nextSid /\ DOMAIN subs' = DOMAIN subs \ {r.sid}
      /\ \A s \in DOMAIN subs' : subs'[s] = subs[s]
  BY DEF ServeUnsubscribe, Drop, Restrict
<1>6. ASSUME NEW s \in DOMAIN subs'
      PROVE  s \in DOMAIN subs /\ subs'[s].channel = subs[s].channel /\ ~Unsubscribes(1, s)
  BY <1>2, <1>5 DEF Unsubscribes
<1>7. \A k : Confirms(k) => subs'[replies[k].sid].markets = subs[replies[k].sid].markets
  BY <1>1, <1>3, <1>5 DEF IInv, Indexed, Confirmed, Confirms, Ended
<1>8. ASSUME NEW s \in DOMAIN sidMap, NEW m \in Markets
      PROVE  m \in subs'[s].markets <=>
                 \/ Changes(1, s, m, "add_markets")
                 \/ m \in subs[s].markets /\ ~Changes(1, s, m, "delete_markets")
  <2>1. subs'[s] = subs[s]
    BY <1>1, <1>3, <1>5 DEF IInv, Indexed, Known, Ended
  <2> QED
    BY <1>2, <2>1 DEF Changes, Updates
<1> QED
  BY <1>2, <1>4, <1>5, <1>6, <1>7, <1>8, ServedSynced

LEMMA ServeUpdateSynced ==
    ASSUME IInv, IInv', Synced, Serving, NEW r, r = Head(requests),
           r.cmd = "update_subscription", ServeUpdate(r)
    PROVE  Synced'
<1>1. /\ TypeOK /\ link = "open" /\ requests' = Tail(requests) /\ requests # <<>>
      /\ nextSid' = nextSid
  BY DEF IInv, Indexed, TypeOK, ServerTypeOK, Serving, ServeUpdate
<1>2. /\ 1 \in 1 .. Len(requests) /\ r = requests[1] /\ r \in Request
      /\ r.sid \in Sids /\ r.markets \in SUBSET Markets
      /\ r.action \in {"add_markets", "delete_markets", "get_snapshot"}
  <2>1. 1 \in 1 .. Len(requests) /\ r = requests[1] /\ r \in Request
    BY <1>1, Shifted
  <2> QED
    BY <2>1 DEF Request
<1>3. /\ DOMAIN subs' = DOMAIN subs
      /\ \A s \in DOMAIN subs :
             /\ subs'[s].channel = subs[s].channel
             /\ s # r.sid => subs'[s].markets = subs[s].markets
      /\ r.sid \in DOMAIN subs =>
             /\ r.action = "add_markets" => subs'[r.sid].markets = subs[r.sid].markets \cup r.markets
             /\ r.action = "delete_markets" => subs'[r.sid].markets = subs[r.sid].markets \ r.markets
             /\ r.action = "get_snapshot" => subs'[r.sid].markets = subs[r.sid].markets
      /\ \E reply \in Reply : replies' = Append(replies, reply) /\ reply.type # "subscribed"
  <2>1. CASE r.sid \notin DOMAIN subs
    <3>1. [type |-> "error"] \in Reply
      BY DEF Reply
    <3> QED
      BY <2>1, <3>1 DEF ServeUpdate, Answer
  <2>2. CASE r.sid \in DOMAIN subs
    <3> DEFINE s == r.sid
               reply == [type |-> "ok", sid |-> s, seq |-> Number(s), markets |-> subs'[s].markets,
                         skips |-> subs[s].skipped # {}]
    <3>1. /\ subs[s] \in Subscription /\ subs[s].markets \subseteq Markets
          /\ Data(s) \in Reply /\ Data(s).type = "data" /\ Number(s) \in Nat
          /\ After(s) \in Subscription /\ After(s).channel = subs[s].channel
      BY <1>1, <2>2, DataOf DEF Subscription
    <3>2. After(s).markets = subs[s].markets
      BY <3>1 DEF After, Subscription
    <3>3. CASE r.action = "get_snapshot"
      <4>1. replies' = Append(replies, Data(s)) /\ subs' = [subs EXCEPT ![s] = After(s)]
        BY <2>2, <3>3 DEF ServeUpdate, Answer
      <4> QED
        BY <2>2, <3>1, <3>2, <3>3, <4>1
    <3>4. CASE r.action # "get_snapshot"
      <4> DEFINE markets == IF r.action = "add_markets" THEN subs[s].markets \cup r.markets
                                                        ELSE subs[s].markets \ r.markets
                 next == [After(s) EXCEPT !.markets = markets]
                 ok == [type |-> "ok", sid |-> s, seq |-> Number(s), markets |-> markets,
                        skips |-> subs[s].skipped # {}]
      <4>1. replies' = Append(replies, ok) /\ subs' = [subs EXCEPT ![s] = next]
        BY <2>2, <3>4 DEF ServeUpdate, Answer
      <4>2. next.markets = markets /\ next.channel = subs[s].channel
        BY <3>1 DEF Subscription
      <4>3. markets \in SUBSET Markets
        BY <1>2, <3>1
      <4>4. ok \in Reply /\ ok.type # "subscribed"
        BY <1>2, <3>1, <4>3 DEF Reply
      <4> HIDE DEF ok, next
      <4> QED
        BY <2>2, <3>4, <4>1, <4>2, <4>4
    <3> QED
      BY <3>3, <3>4
  <2> QED
    BY <2>1, <2>2
<1>4. ASSUME NEW s \in DOMAIN subs'
      PROVE  s \in DOMAIN subs /\ subs'[s].channel = subs[s].channel /\ ~Unsubscribes(1, s)
  BY <1>2, <1>3 DEF Unsubscribes
<1>5. \A k : Confirms(k) /\ ~Updates(1, replies[k].sid) =>
          subs'[replies[k].sid].markets = subs[replies[k].sid].markets
  BY <1>1, <1>2, <1>3 DEF IInv, Indexed, Confirmed, Confirms, Updates
<1>6. ASSUME NEW s \in DOMAIN sidMap, NEW m \in Markets
      PROVE  m \in subs'[s].markets <=>
                 \/ Changes(1, s, m, "add_markets")
                 \/ m \in subs[s].markets /\ ~Changes(1, s, m, "delete_markets")
  <2>1. s \in DOMAIN subs
    BY <1>1 DEF IInv, Indexed, Known
  <2>2. CASE s # r.sid
    BY <1>2, <1>3, <2>1, <2>2 DEF Changes, Updates
  <2>3. CASE s = r.sid
    BY <1>2, <1>3, <2>1, <2>3 DEF Changes, Updates
  <2> QED
    BY <2>2, <2>3
<1> QED
  BY <1>1, <1>2, <1>3, <1>4, <1>5, <1>6, ServedSynced

LEMMA ServeSynced ==
    ASSUME IInv, IInv', Synced, Serve, UNCHANGED clientVars
    PROVE  Synced'
BY ServeSubscribeSynced, ServeUnsubscribeSynced, ServeUpdateSynced DEF Serve, Serving

-----------------------------------------------------------------------------
(* Messages that confirm nothing.                                          *)

SameMarkets ==
    /\ DOMAIN channels' = DOMAIN channels
    /\ \A c \in DOMAIN channels : /\ channels'[c].markets = channels[c].markets
                                  /\ channels'[c].pending = channels[c].pending
                                  /\ channels'[c].sid = channels[c].sid

\* The confirmations on their way stay, each k places nearer to the client.
LEMMA ConfirmsSame ==
    ASSUME IInv, Synced, NEW k \in {0, 1},
           \A i : Confirms(i)' => Confirms(i + k) /\ replies'[i] = replies[i + k],
           \A i : Confirms(i) => Confirms(i - k)' /\ replies'[i - k] = replies[i],
           DOMAIN subs' = DOMAIN subs,
           \A s \in DOMAIN subs : /\ subs'[s].channel = subs[s].channel
                                  /\ subs'[s].markets = subs[s].markets,
           SameMarkets,
           DOMAIN sidMap' = DOMAIN sidMap, \A s \in DOMAIN sidMap : sidMap'[s] = sidMap[s],
           UNCHANGED <<link, requests, nextSid, pending, resub, recovery>>
    PROVE  Synced'
<1>1. /\ \A i : Subscribes(i)' <=> Subscribes(i)
      /\ \A i, s : Unsubscribes(i, s)' <=> Unsubscribes(i, s)
      /\ \A i, s : Updates(i, s)' <=> Updates(i, s)
      /\ \A i, s, m, a : Changes(i, s, m, a)' <=> Changes(i, s, m, a)
  BY DEF Subscribes, Unsubscribes, Updates, Changes
<1>2. \A i : Confirms(i)' => i \in Nat /\ i \in 1 .. Len(replies')
  BY DEF Confirms
<1>3. Kept' /\ Awaited' /\ Paused'
  BY DEF Synced, SameMarkets, Kept, Awaited, Paused, Waiting
<1>4. IdsRise'
  <2>1. \A i, j \in 1 .. Len(requests') :
            Subscribes(i)' /\ Subscribes(j)' /\ i < j => requests'[i].id < requests'[j].id
    BY <1>1 DEF Synced, IdsRise
  <2>2. ASSUME NEW i, NEW j \in 1 .. Len(requests'), Confirms(i)', Subscribes(j)'
        PROVE  replies'[i].id < requests'[j].id
    BY <1>1, <2>2 DEF Synced, IdsRise, Confirms
  <2>3. ASSUME NEW i, NEW j, Confirms(i)', Confirms(j)', i < j
        PROVE  replies'[i].id < replies'[j].id
    <3>1. i + k < j + k
      BY <1>2, <2>3
    <3>2. /\ Confirms(i + k) /\ replies'[i] = replies[i + k]
          /\ Confirms(j + k) /\ replies'[j] = replies[j + k]
      BY <2>3
    <3>3. i + k \in 1 .. Len(replies) /\ j + k \in 1 .. Len(replies)
      BY <3>2 DEF Confirms
    <3>4. replies[i + k].id < replies[j + k].id
      BY <3>1, <3>2, <3>3 DEF Synced, IdsRise
    <3> QED
      BY <3>2, <3>4
  <2> QED
    BY <2>1, <2>2, <2>3 DEF IdsRise
<1>5. ASSUME link' = "open" PROVE Wire'
  <2>1. link = "open" /\ Wire
    BY <1>5 DEF Synced
  <2>2. ASSUME NEW id \in DOMAIN pending PROVE Asked(id)' \/ Told(id)'
    <3>1. pending[id] \in DOMAIN channels
      BY <2>2 DEF Synced, Awaited
    <3>2. CASE Asked(id)
      <4>1. PICK i \in 1 .. Len(requests) :
                /\ Subscribes(i) /\ requests[i].id = id
                /\ channels[pending[id]].markets
                       = requests[i].markets \cup channels[pending[id]].pending
                /\ \A s \in DOMAIN subs : subs[s].channel = pending[id] =>
                       \E j \in 1 .. Len(requests) : j < i /\ Unsubscribes(j, s)
        BY <3>2 DEF Asked
      <4>2. i \in 1 .. Len(requests') /\ Subscribes(i)' /\ requests'[i] = requests[i]
        BY <1>1, <4>1
      <4>3. channels'[pending'[id]].markets
                = requests'[i].markets \cup channels'[pending'[id]].pending
        BY <3>1, <4>1 DEF SameMarkets
      <4>4. \A s \in DOMAIN subs' : subs'[s].channel = pending'[id] =>
                \E j \in 1 .. Len(requests') : j < i /\ Unsubscribes(j, s)'
        BY <1>1, <4>1
      <4> QED
        BY <4>1, <4>2, <4>3, <4>4 DEF Asked
    <3>3. CASE Told(id)
      <4>1. PICK i \in 1 .. Len(replies) :
                /\ Confirms(i) /\ replies[i].id = id
                /\ channels[pending[id]].markets
                       = subs[replies[i].sid].markets \cup channels[pending[id]].pending
                /\ \A j \in 1 .. Len(requests) : ~Updates(j, replies[i].sid)
        BY <3>3 DEF Told
      <4>2. PICK n : n = i - k
        OBVIOUS
      <4>3. n \in 1 .. Len(replies') /\ Confirms(n)' /\ replies'[n] = replies[i]
        BY <1>2, <4>1, <4>2
      <4>4. replies[i].sid \in DOMAIN subs
        BY <2>1, <4>1 DEF IInv, Indexed, Confirmed
      <4>5. channels'[pending'[id]].markets
                = subs'[replies'[n].sid].markets \cup channels'[pending'[id]].pending
        BY <3>1, <4>1, <4>3, <4>4 DEF SameMarkets
      <4>6. \A j \in 1 .. Len(requests') : ~Updates(j, replies[n].sid)'
        BY <4>1, <4>3 DEF Updates
      <4> QED
        BY <4>1, <4>3, <4>5, <4>6 DEF Told
    <3> QED
      BY <2>1, <2>2, <3>2, <3>3 DEF Wire, Wanted
  <2>3. Wanted'
    BY <2>2 DEF Wanted
  <2>4. Placed' /\ Given'
    BY <2>1 DEF Wire, Placed, Given, SameMarkets, IsPending, Waiting
  <2>5. Answers'
    BY <1>1, <2>1 DEF Wire, Answers, Confirms
  <2>6. ASSUME NEW s \in DOMAIN subs' PROVE Owned(s)'
    <3>1. Owned(s)
      BY <2>1, <2>6 DEF Wire
    <3>2. CASE \E i \in 1 .. Len(replies) : Confirms(i) /\ replies[i].sid = s
      <4>1. PICK i \in 1 .. Len(replies) : Confirms(i) /\ replies[i].sid = s
        BY <3>2
      <4>2. Confirms(i - k)' /\ replies'[i - k].sid = s /\ i - k \in 1 .. Len(replies')
        BY <1>2, <4>1
      <4>3. PICK n : n = i - k
        OBVIOUS
      <4> QED
        BY <4>2, <4>3 DEF Owned
    <3> QED
      BY <1>1, <3>1, <3>2 DEF Owned
  <2>7. ASSUME NEW s \in DOMAIN sidMap', NEW m \in Markets
        PROVE  m \in channels'[sidMap'[s]].markets <=> WillServe(s, m)'
    <3>1. s \in DOMAIN subs /\ sidMap[s] \in DOMAIN channels
      BY <2>1, <2>7 DEF IInv, Indexed, Known, SidMapInverse
    <3>2. WillServe(s, m)' <=> WillServe(s, m)
      BY <1>1, <3>1 DEF WillServe
    <3> QED
      BY <2>1, <2>7, <3>1, <3>2 DEF Wire, Followed, SameMarkets
  <2> QED
    BY <2>3, <2>4, <2>5, <2>6, <2>7 DEF Wire, Followed
<1> QED
  BY <1>3, <1>4, <1>5 DEF Synced

LEMMA PublishSynced ==
    ASSUME IInv, Synced, NEW s \in DOMAIN subs, Publish(s), UNCHANGED clientVars
    PROVE  Synced'
<1>1. /\ TypeOK /\ replies \in Seq(Reply) /\ replies' = Append(replies, Data(s))
      /\ subs' = [subs EXCEPT ![s] = After(s)]
      /\ UNCHANGED <<link, requests, nextSid, channels, sidMap, pending, resub, recovery>>
  BY DEF IInv, Indexed, TypeOK, ServerTypeOK, Publish, Answer, clientVars
<1>2. /\ Data(s) \in Reply /\ Data(s).type = "data"
      /\ After(s).channel = subs[s].channel /\ subs[s] \in Subscription
  BY <1>1, DataOf
<1>3. After(s).markets = subs[s].markets
  BY <1>2 DEF After, Subscription
<1>4. \A i : /\ Confirms(i)' <=> Confirms(i)
             /\ Confirms(i) => i \in Int /\ replies'[i] = replies[i]
  BY <1>1, <1>2, Appended DEF Confirms
<1>5. /\ \A i : Confirms(i)' => Confirms(i + 0) /\ replies'[i] = replies[i + 0]
      /\ \A i : Confirms(i) => Confirms(i - 0)' /\ replies'[i - 0] = replies[i]
  <2>1. \A i \in Int : i + 0 = i /\ i - 0 = i
    OBVIOUS
  <2> QED
    BY <1>4, <2>1
<1>6. SameMarkets
  BY <1>1 DEF SameMarkets
<1> QED
  BY <1>1, <1>2, <1>3, <1>5, <1>6, ConfirmsSame

LEMMA SkipSynced ==
    ASSUME IInv, Synced, NEW s \in DOMAIN subs, Skip(s), UNCHANGED clientVars
    PROVE  Synced'
<1>1. /\ TypeOK /\ subs' = [subs EXCEPT ![s] = AfterSkip(s)] /\ subs[s] \in Subscription
      /\ UNCHANGED <<link, requests, replies, nextSid, channels, sidMap, pending, resub, recovery>>
  BY DEF IInv, Indexed, TypeOK, ServerTypeOK, Skip, clientVars
<1>2. AfterSkip(s).markets = subs[s].markets /\ AfterSkip(s).channel = subs[s].channel
  BY <1>1 DEF AfterSkip, Subscription
<1>3. /\ \A i : Confirms(i)' => Confirms(i + 0) /\ replies'[i] = replies[i + 0]
      /\ \A i : Confirms(i) => Confirms(i - 0)' /\ replies'[i - 0] = replies[i]
  <2>1. \A i : /\ Confirms(i)' <=> Confirms(i)
               /\ Confirms(i) => i \in Int
    BY <1>1 DEF Confirms
  <2>2. \A i \in Int : i + 0 = i /\ i - 0 = i
    OBVIOUS
  <2> QED
    BY <1>1, <2>1, <2>2
<1>4. SameMarkets
  BY <1>1 DEF SameMarkets
<1> QED
  BY <1>1, <1>2, <1>3, <1>4, ConfirmsSame

\* The client reads a message that confirms nothing.
LEMMA ReadSynced ==
    ASSUME IInv, Synced, NEW type, type # "subscribed", Reading(type), SameMarkets,
           DOMAIN sidMap' = DOMAIN sidMap, \A s \in DOMAIN sidMap : sidMap'[s] = sidMap[s],
           UNCHANGED <<requests, pending>>
    PROVE  Synced'
<1>1. /\ Len(replies) \in Nat \ {0} /\ Len(replies') = Len(replies) - 1
      /\ \A i \in 1 .. Len(replies') : i + 1 \in 1 .. Len(replies) /\ replies'[i] = replies[i + 1]
      /\ replies[1].type = type
      /\ \A i \in 1 .. Len(replies') : Confirms(i)' <=> Confirms(i + 1)
      /\ UNCHANGED <<link, subs, nextSid, resub, recovery>>
  BY Taken
<1>2. ASSUME NEW i, Confirms(i)' PROVE Confirms(i + 1) /\ replies'[i] = replies[i + 1]
  BY <1>1, <1>2 DEF Confirms
<1>3. ASSUME NEW i, Confirms(i) PROVE Confirms(i - 1)' /\ replies'[i - 1] = replies[i]
  <2>1. i \in 1 .. Len(replies) /\ i # 1
    BY <1>1, <1>3 DEF Confirms
  <2>2. i - 1 \in 1 .. Len(replies') /\ (i - 1) + 1 = i
    BY <1>1, <2>1
  <2> QED
    BY <1>1, <1>3, <2>2
<1> QED
  BY <1>1, <1>2, <1>3, ConfirmsSame

\* The number of a message does not touch what the client keeps.
LEMMA CheckedSame ==
    ASSUME TypeOK, NEW c \in DOMAIN channels, NEW seq, CheckAndUpdateSeq(channels, c, seq)
    PROVE  SameMarkets
<1>1. CASE channels' = channels
  BY <1>1 DEF SameMarkets
<1>2. CASE channels' = [channels EXCEPT ![c].seq = seq]
  <2> DEFINE next == [channels[c] EXCEPT !.seq = seq]
  <2>1. channels' = [channels EXCEPT ![c] = next]
    BY <1>2
  <2>2. /\ next.markets = channels[c].markets /\ next.pending = channels[c].pending
        /\ next.sid = channels[c].sid
    BY DEF TypeOK, ChannelState
  <2> HIDE DEF next
  <2> QED
    BY <2>1, <2>2 DEF SameMarkets
<1> QED
  BY <1>1, <1>2 DEF CheckAndUpdateSeq

LEMMA HandleOthersSynced ==
    ASSUME IInv, Synced, ~OkCarriesTickers,
           HandleOk \/ HandleUnsubscribed \/ HandleError \/ HandleData
    PROVE  Synced'
<1>1. TypeOK /\ SidMapInverse /\ Dropped
  BY DEF IInv, Indexed
<1>2. CASE HandleOk
  <2>1. Reading("ok") /\ UNCHANGED <<requests, sidMap, pending>>
    BY <1>2 DEF HandleOk
  <2>2. SameMarkets
    <3>1. CASE UNCHANGED channels
      BY <3>1 DEF SameMarkets
    <3>2. CASE /\ Head(replies).sid \in DOMAIN sidMap
               /\ CheckAndUpdateSeq(channels, sidMap[Head(replies).sid], Head(replies).seq)
      BY <1>1, <3>2, CheckedSame DEF SidMapInverse
    <3> QED
      BY <1>2, <3>1, <3>2 DEF HandleOk
  <2> QED
    BY <2>1, <2>2, ReadSynced
<1>3. CASE HandleData
  <2>1. Reading("data") /\ UNCHANGED <<requests, sidMap, pending>>
    BY <1>3 DEF HandleData
  <2>2. SameMarkets
    <3>1. CASE UNCHANGED channels
      BY <3>1 DEF SameMarkets
    <3>2. CASE /\ Routed(Head(replies))
               /\ CheckAndUpdateSeq(channels, Head(replies).channel, Head(replies).seq)
      BY <1>1, <3>2, CheckedSame DEF SidMapInverse, Routed
    <3> QED
      BY <1>3, <3>1, <3>2 DEF HandleData
  <2> QED
    BY <2>1, <2>2, ReadSynced
<1>4. CASE HandleError
  BY <1>4, ReadSynced DEF HandleError, SameMarkets
<1>5. CASE HandleUnsubscribed
  <2>1. /\ Reading("unsubscribed") /\ UNCHANGED <<requests, channels, pending>>
        /\ sidMap' = Drop(sidMap, {Head(replies).sid})
    BY <1>5 DEF HandleUnsubscribed
  <2>2. Head(replies).sid \notin DOMAIN sidMap
    <3>1. 1 \in 1 .. Len(replies) /\ replies[1].type = "unsubscribed" /\ Head(replies) = replies[1]
      BY <2>1, Taken
    <3> QED
      BY <1>1, <3>1 DEF Dropped, Ended
  <2>3. DOMAIN sidMap' = DOMAIN sidMap /\ \A s \in DOMAIN sidMap : sidMap'[s] = sidMap[s]
    BY <2>1, <2>2 DEF Drop, Restrict
  <2> QED
    BY <2>1, <2>3, ReadSynced DEF SameMarkets
<1> QED
  BY <1>2, <1>3, <1>4, <1>5

-----------------------------------------------------------------------------
(* The connection ends, and begins again.                                  *)

LEMMA LoseSynced ==
    ASSUME IInv, Synced, Lose, UNCHANGED clientVars
    PROVE  Synced'
<1>1. PICK n \in 0 .. Len(replies) : replies' = SubSeq(replies, 1, n)
  BY DEF Lose, Hangup
<1>2. /\ link' = "closed" /\ Len(requests') = 0
      /\ Len(replies') = n /\ \A i \in 1 .. n : i \in 1 .. Len(replies) /\ replies'[i] = replies[i]
  <2>1. link' = "closed" /\ Len(requests') = 0
    BY EmptyElements DEF Lose, Hangup
  <2>2. replies \in Seq(Reply)
    BY DEF IInv, Indexed, TypeOK, ServerTypeOK
  <2>3. /\ Len(replies) \in Nat /\ Len(replies') = n
        /\ \A i \in 1 .. n : replies'[i] = replies[i]
    BY <1>1, <2>2, PrefixElements
  <2> QED
    BY <2>1, <2>3
<1>3. IdsRise'
  BY <1>2 DEF Synced, IdsRise, Confirms, Subscribes
<1> QED
  BY <1>2, <1>3, ClientSame DEF Synced

\* A new connection carries nothing yet, and every channel waits for the recovery.
LEMMA AcceptSynced ==
    ASSUME Synced, Accept, UNCHANGED <<channels, sidMap, pending, resub>>,
           DOMAIN sidMap = {}, DOMAIN pending = {}, recovery'.left = DOMAIN channels
    PROVE  Synced'
<1>1. Len(requests') = 0 /\ Len(replies') = 0 /\ DOMAIN subs' = {}
  BY EmptyElements DEF Accept
<1>2. IdsRise' /\ Kept' /\ Awaited' /\ Paused'
  BY <1>1 DEF Synced, IdsRise, Kept, Awaited, Paused
<1>3. Wanted' /\ Placed' /\ Answers' /\ Given' /\ Followed'
  BY <1>1 DEF Wanted, Placed, Waiting, Answers, Given, Followed, Subscribes, Confirms
<1> QED
  BY <1>1, <1>2, <1>3 DEF Synced, Wire

LEMMA ConnectSynced ==
    ASSUME IInv, Synced, Phases, Connect
    PROVE  Synced'
<1>1. /\ DOMAIN channels = {} /\ DOMAIN pending = {} /\ DOMAIN sidMap = {}
      /\ recovery.left = {} /\ recovery' = recovery
  BY DEF Connect, Phases, IInv, Indexed, Turns
<1> QED
  BY <1>1, AcceptSynced DEF Connect

LEMMA ReconnectSynced ==
    ASSUME IInv, Synced, Phases, Reconnect
    PROVE  Synced'
<1>1. DOMAIN sidMap = {} /\ DOMAIN pending = {}
  BY DEF Reconnect, Phases, IInv, Indexed, Turns
<1>2. recovery'.left = DOMAIN channels
  <2>1. channels = <<>> => DOMAIN channels = {}
    BY EmptyElements
  <2> QED
    BY <2>1 DEF Reconnect, NoRecovery
<1> QED
  BY <1>1, <1>2, AcceptSynced DEF Reconnect

\* What the client keeps through a loss: the markets of every channel.
LEMMA LossSynced ==
    ASSUME Synced, IdsRise', link' # "open", UNCHANGED resub,
           NEW chs, DOMAIN chs = DOMAIN channels, HandleConnectionLoss(chs),
           \A c \in DOMAIN chs : /\ chs[c] \in ChannelState
                                 /\ chs[c].markets = channels[c].markets
                                 /\ chs[c].pending = channels[c].pending
    PROVE  Synced'
<1>1. /\ DOMAIN channels' = DOMAIN channels /\ DOMAIN pending' = {}
      /\ \A c \in DOMAIN chs : channels'[c] = [chs[c] EXCEPT !.sid = NoSid, !.seq = NoSeq]
  BY EmptyElements DEF HandleConnectionLoss, Forgotten
<1>2. \A c \in DOMAIN channels : /\ channels'[c].sid = NoSid
                                 /\ channels'[c].markets = channels[c].markets
                                 /\ channels'[c].pending = channels[c].pending
  <2>1. ASSUME NEW r \in ChannelState, NEW q, q = [r EXCEPT !.sid = NoSid, !.seq = NoSeq]
        PROVE  q.sid = NoSid /\ q.markets = r.markets /\ q.pending = r.pending
    BY <2>1 DEF ChannelState
  <2>2. ASSUME NEW c \in DOMAIN channels
        PROVE  /\ channels'[c].sid = NoSid
               /\ channels'[c].markets = channels[c].markets
               /\ channels'[c].pending = channels[c].pending
    <3>1. /\ chs[c] \in ChannelState
          /\ channels'[c] = [chs[c] EXCEPT !.sid = NoSid, !.seq = NoSeq]
      BY <1>1
    <3>2. /\ channels'[c].sid = NoSid
          /\ channels'[c].markets = chs[c].markets
          /\ channels'[c].pending = chs[c].pending
      BY <2>1, <3>1
    <3> QED
      BY <3>2
  <2> QED
    BY <2>2
<1> QED
  BY <1>1, <1>2 DEF Synced, Kept, Awaited, Paused

LEMMA ConnectionLostSynced ==
    ASSUME IInv, Synced, Phases, ConnectionLost
    PROVE  Synced'
<1>1. /\ link = "closed" /\ UNCHANGED <<link, requests, replies, resub>> /\ TypeOK
      /\ listening /\ HandleConnectionLoss(channels)
  BY DEF ConnectionLost, SocketError, Phases, serverVars, IInv, Indexed
<1>2. IdsRise'
  BY <1>1 DEF Synced, IdsRise, Subscribes, Confirms
<1> QED
  BY <1>1, <1>2, LossSynced DEF TypeOK

-----------------------------------------------------------------------------
(* The client learns a sid.                                                *)

\* The confirmation of the first message is taken, and what was collected is sent.
ConfirmedNow(c) ==
    LET m == replies[1] IN
    /\ m.id \in DOMAIN pending /\ c = pending[m.id]
    /\ DOMAIN channels' = DOMAIN channels
    /\ \A d \in DOMAIN channels \ {c} : channels'[d] = channels[d]
    /\ channels'[c].markets = channels[c].markets
    /\ channels'[c].pending = {} /\ channels'[c].sid = m.sid
    /\ sidMap' = Put(sidMap, m.sid, c)
    /\ pending' = Drop(pending, {m.id})
    /\ \/ channels[c].pending = {} /\ UNCHANGED requests
       \/ /\ link = "open"
          /\ Send([cmd |-> "update_subscription", sid |-> m.sid,
                   markets |-> channels[c].pending, action |-> "add_markets"])

\* The confirmations on their way after the one that is read.
LEMMA RiseRead ==
    ASSUME IInv, IdsRise, Reading("subscribed"), Extends,
           \A i : New(i) => ~Subscribes(i)'
    PROVE  /\ IdsRise' /\ Confirms(1)
           /\ \A i : Confirms(i)' => /\ Confirms(i + 1) /\ i \in 1 .. Len(replies')
                                     /\ replies'[i] = replies[i + 1]
                                     /\ replies[1].id # replies'[i].id
           /\ \A i : Confirms(i) /\ i # 1 =>
                  Confirms(i - 1)' /\ i - 1 \in 1 .. Len(replies') /\ replies'[i - 1] = replies[i]
           /\ \A i : Confirms(i) /\ replies[i].id = replies[1].id => i = 1
           /\ \A i : Subscribes(i) => replies[1].id # requests[i].id
<1>1. /\ Len(replies) \in Nat \ {0} /\ Len(replies') = Len(replies) - 1
      /\ \A i \in 1 .. Len(replies') : i + 1 \in 1 .. Len(replies) /\ replies'[i] = replies[i + 1]
      /\ \A i \in 1 .. Len(replies') : Confirms(i)' <=> Confirms(i + 1)
      /\ 1 \in 1 .. Len(replies) /\ Confirms(1) /\ replies[1] \in Reply
  BY Taken DEF Confirms
<1>2. replies[1].id \in Nat
  BY <1>1 DEF Confirms, Reply
<1>3. \A i : Subscribes(i) => replies[1].id < requests[i].id
  BY <1>1 DEF IdsRise, Subscribes
<1>4. ASSUME NEW i, Confirms(i), i # 1 PROVE i \in 1 .. Len(replies) /\ 1 < i /\ replies[1].id < replies[i].id
  <2>1. i \in 1 .. Len(replies) /\ 1 < i
    BY <1>1, <1>4 DEF Confirms
  <2> QED
    BY <1>1, <1>4, <2>1 DEF IdsRise
<1>5. ASSUME NEW i, Confirms(i)'
      PROVE  /\ Confirms(i + 1) /\ i \in 1 .. Len(replies') /\ replies'[i] = replies[i + 1]
             /\ replies[1].id # replies'[i].id
  <2>1. i \in 1 .. Len(replies') /\ i + 1 # 1
    BY <1>5 DEF Confirms
  <2> QED
    BY <1>1, <1>2, <1>4, <1>5, <2>1
<1>6. ASSUME NEW i, Confirms(i), i # 1
      PROVE  Confirms(i - 1)' /\ i - 1 \in 1 .. Len(replies') /\ replies'[i - 1] = replies[i]
  <2>1. i - 1 \in 1 .. Len(replies') /\ (i - 1) + 1 = i
    BY <1>1, <1>4, <1>6
  <2> QED
    BY <1>1, <1>6, <2>1
<1>7. \A i : Subscribes(i)' => Subscribes(i) /\ requests'[i] = requests[i]
  BY DEF Subscribes, New, Extends
<1>8. IdsRise'
  <2>1. \A i, j : Subscribes(i)' /\ Subscribes(j)' /\ i < j => requests'[i].id < requests'[j].id
    BY <1>7 DEF IdsRise, Subscribes
  <2>2. \A i, j : Confirms(i)' /\ Subscribes(j)' => replies'[i].id < requests'[j].id
    BY <1>5, <1>7 DEF IdsRise, Subscribes, Confirms
  <2>3. ASSUME NEW i, NEW j, Confirms(i)', Confirms(j)', i < j
        PROVE  replies'[i].id < replies'[j].id
    <3>1. i + 1 < j + 1 /\ Confirms(i + 1) /\ Confirms(j + 1)
      BY <1>5, <2>3
    <3>2. i + 1 \in 1 .. Len(replies) /\ j + 1 \in 1 .. Len(replies)
      BY <3>1 DEF Confirms
    <3>3. replies[i + 1].id < replies[j + 1].id
      BY <3>1, <3>2 DEF IdsRise
    <3> QED
      BY <1>5, <2>3, <3>3
  <2> QED
    BY <2>1, <2>2, <2>3 DEF IdsRise
<1>9. \A i : Confirms(i) /\ replies[i].id = replies[1].id => i = 1
  BY <1>2, <1>4
<1>10. \A i : Subscribes(i) => replies[1].id # requests[i].id
  BY <1>2, <1>3
<1> QED
  BY <1>1, <1>5, <1>6, <1>8, <1>9, <1>10

LEMMA ConfirmSynced ==
    ASSUME IInv, IInv', Synced, Reading("subscribed"), NEW c \in DOMAIN channels, ConfirmedNow(c)
    PROVE  Synced'
<1> DEFINE sid == replies[1].sid
           id == replies[1].id
           r == [cmd |-> "update_subscription", sid |-> sid,
                 markets |-> channels[c].pending, action |-> "add_markets"]
<1>1. /\ TypeOK /\ UNCHANGED <<link, subs, nextSid, resub, recovery>>
      /\ replies[1] \in Reply /\ Confirms(1) /\ 1 \in 1 .. Len(replies)
      /\ Len(replies) \in Nat
  BY Taken DEF Confirms
<1>2. /\ sid \in Sids /\ sid < nextSid /\ sid \notin DOMAIN sidMap
      /\ id \in DOMAIN pending /\ pending[id] = c /\ c \in Channels
      /\ channels[c].sid = NoSid /\ channels[c].pending \in SUBSET Markets
      /\ link = "open" => sid \in DOMAIN subs /\ subs[sid].channel = c
  <2>1. sid \in Sids /\ id \in DOMAIN pending /\ pending[id] = c /\ c \in Channels
    BY <1>1 DEF Confirms, Reply, ConfirmedNow, TypeOK
  <2>2. sid < nextSid
    BY <1>1 DEF IInv, Indexed, Old, Confirms
  <2>3. channels[c].pending \in SUBSET Markets
    BY DEF IInv, Indexed, TypeOK, ChannelState
  <2> QED
    BY <1>1, <2>1, <2>2, <2>3 DEF IInv, Indexed, Confirmed
<1>3. /\ DOMAIN sidMap' = DOMAIN sidMap \cup {sid} /\ sidMap'[sid] = c
      /\ \A s \in DOMAIN sidMap : sidMap'[s] = sidMap[s]
  BY <1>2 DEF ConfirmedNow, Put
<1>4. /\ DOMAIN pending' = DOMAIN pending \ {id}
      /\ \A i \in DOMAIN pending' : pending'[i] = pending[i] /\ pending[i] # c
  BY <1>2 DEF ConfirmedNow, Drop, Restrict, Synced, Awaited
<1>5. /\ DOMAIN channels' = DOMAIN channels
      /\ \A d \in DOMAIN channels \ {c} : channels'[d] = channels[d]
      /\ channels'[c].markets = channels[c].markets
      /\ channels'[c].pending = {} /\ channels'[c].sid = sid
  BY DEF ConfirmedNow
<1>6. r \in Request /\ r.cmd = "update_subscription" /\ r.sid = sid
      /\ r.markets = channels[c].pending /\ r.action = "add_markets"
  BY <1>2 DEF Request
<1>7. \/ channels[c].pending = {} /\ UNCHANGED requests
      \/ link = "open" /\ Send(r)
  BY DEF ConfirmedNow
<1>7a. \A k \in 1 .. Len(replies) : Confirms(k) /\ k # 1 => replies[k].sid # sid
  BY <1>1 DEF IInv, Indexed, Confirmed
<1> HIDE DEF sid, r
<1>8. Extends /\ \A i : New(i) => requests'[i] = r
  BY <1>1, <1>6, <1>7, RequestSent, NothingNew
<1>9. \A i : New(i) => ~Subscribes(i)'
  BY <1>6, <1>8 DEF Subscribes
<1>10. /\ IdsRise'
       /\ \A i : Confirms(i)' => /\ Confirms(i + 1) /\ i \in 1 .. Len(replies')
                                 /\ replies'[i] = replies[i + 1]
                                 /\ id # replies'[i].id
       /\ \A i : Confirms(i) /\ i # 1 =>
              Confirms(i - 1)' /\ i - 1 \in 1 .. Len(replies') /\ replies'[i - 1] = replies[i]
       /\ \A i : Confirms(i) /\ replies[i].id = id => i = 1
       /\ \A i : Subscribes(i) => id # requests[i].id
  BY <1>8, <1>9, RiseRead DEF Synced
<1> HIDE DEF id
<1>11. Kept' /\ Awaited' /\ Paused'
  <2>1. ~Waiting(c) /\ c \notin DOMAIN resub
    BY <1>2 DEF Synced, Awaited, Waiting
  <2>2. Kept'
    BY <1>5 DEF Synced, Kept
  <2>3. Awaited'
    BY <1>1, <1>4, <1>5 DEF Synced, Awaited, Waiting
  <2>4. Paused'
    BY <1>1, <1>5, <2>1 DEF Synced, Paused
  <2> QED
    BY <2>2, <2>3, <2>4
<1>12. ASSUME link' = "open" PROVE Wire'
  <2>1. /\ link = "open" /\ Wire /\ sid \in DOMAIN subs /\ subs[sid].channel = c
    BY <1>1, <1>2, <1>12 DEF Synced
  <2>2. /\ channels[c].markets = subs[sid].markets \cup channels[c].pending
        /\ \A j \in 1 .. Len(requests) : ~Updates(j, sid)
    <3>1. ~Asked(id)
      BY <1>10 DEF Asked
    <3>2. Told(id)
      BY <1>2, <2>1, <3>1 DEF Wire, Wanted
    <3> QED
      BY <1>2, <1>10, <3>2 DEF Told, sid
  <2>3. Wanted'
    <3>1. ASSUME NEW i \in DOMAIN pending', Asked(i) PROVE Asked(i)'
      <4>1. pending'[i] = pending[i] /\ Follows(pending[i])
        BY <1>4, <1>5, <3>1 DEF Follows, Synced, Awaited
      <4> QED
        BY <1>1, <1>8, <3>1, <4>1, AskedStays
    <3>2. ASSUME NEW i \in DOMAIN pending', Told(i) PROVE Told(i)'
      <4>1. PICK k \in 1 .. Len(replies) :
                /\ Confirms(k) /\ replies[k].id = i
                /\ channels[pending[i]].markets
                       = subs[replies[k].sid].markets \cup channels[pending[i]].pending
                /\ \A j \in 1 .. Len(requests) : ~Updates(j, replies[k].sid)
        BY <3>2 DEF Told
      <4>2. k # 1
        BY <1>4, <4>1 DEF id
      <4>3. PICK n : n = k - 1
        OBVIOUS
      <4>4. n \in 1 .. Len(replies') /\ Confirms(n)' /\ replies'[n] = replies[k]
        BY <1>10, <4>1, <4>2, <4>3
      <4>5. channels'[pending'[i]].markets
                = subs'[replies'[n].sid].markets \cup channels'[pending'[i]].pending
        <5>1. pending[i] \in DOMAIN channels /\ pending'[i] = pending[i] /\ pending[i] # c
          BY <1>4, <3>2 DEF Synced, Awaited
        <5>2. channels'[pending[i]] = channels[pending[i]]
          BY <1>5, <5>1
        <5> QED
          BY <1>1, <4>1, <4>4, <5>1, <5>2
      <4>6. replies[k].sid # sid
        BY <1>7a, <4>1, <4>2
      <4>7. ASSUME NEW j \in 1 .. Len(requests'), NEW s, s = replies[k].sid PROVE ~Updates(j, s)'
        BY <1>6, <1>8, <4>1, <4>6, <4>7 DEF Updates, Extends, New
      <4>8. \A j \in 1 .. Len(requests') : ~Updates(j, replies[n].sid)'
        BY <4>4, <4>7 DEF Updates
      <4> QED
        BY <4>1, <4>4, <4>5, <4>8 DEF Told
    <3> QED
      BY <1>4, <2>1, <3>1, <3>2 DEF Wire, Wanted
  <2>4. Placed'
    <3>1. ASSUME NEW d \in DOMAIN channels', channels'[d].sid = NoSid
          PROVE  IsPending(d)' \/ Waiting(d)'
      <4>1. d # c /\ d \in DOMAIN channels /\ channels[d].sid = NoSid
        BY <1>2, <1>5, <3>1 DEF Sids
      <4>2. CASE Waiting(d)
        BY <1>1, <4>2 DEF Waiting
      <4>3. CASE IsPending(d)
        BY <1>2, <1>4, <4>1, <4>3 DEF IsPending
      <4> QED
        BY <2>1, <4>1, <4>2, <4>3 DEF Wire, Placed
    <3> QED
      BY <3>1 DEF Placed
  <2>5. Answers'
    <3>1. ASSUME NEW i \in 1 .. Len(requests'), Subscribes(i)'
          PROVE  requests'[i].id \in DOMAIN pending'
      <4>1. i \in 1 .. Len(requests)
        BY <1>9, <3>1 DEF New
      <4>2. Subscribes(i) /\ requests'[i] = requests[i]
        BY <1>8, <3>1, <4>1 DEF Subscribes, Extends
      <4> QED
        BY <1>4, <1>10, <2>1, <4>2 DEF Wire, Answers, Subscribes
    <3>2. ASSUME NEW i \in 1 .. Len(replies'), Confirms(i)'
          PROVE  replies'[i].id \in DOMAIN pending'
      <4>1. Confirms(i + 1) /\ replies'[i] = replies[i + 1] /\ id # replies'[i].id
        BY <1>10, <3>2
      <4>2. i + 1 \in 1 .. Len(replies)
        BY <4>1 DEF Confirms
      <4> QED
        BY <1>4, <2>1, <4>1, <4>2 DEF Wire, Answers
    <3> QED
      BY <3>1, <3>2 DEF Answers
  <2>6. Given'
    BY <1>1, <1>2, <1>6, <1>8, <2>1 DEF Wire, Given, New, Extends
  <2>7. ASSUME NEW s \in DOMAIN subs' PROVE Owned(s)'
    <3>1. Owned(s)
      BY <1>1, <2>1, <2>7 DEF Wire
    <3>2. CASE s \in DOMAIN sidMap
      BY <1>3, <3>2 DEF Owned
    <3>3. CASE \E i \in 1 .. Len(replies) : Confirms(i) /\ replies[i].sid = s
      <4>1. PICK i \in 1 .. Len(replies) : Confirms(i) /\ replies[i].sid = s
        BY <3>3
      <4>2. CASE i = 1
        BY <1>3, <4>1, <4>2 DEF Owned, sid
      <4>3. CASE i # 1
        <5>1. PICK n : n = i - 1
          OBVIOUS
        <5>2. n \in 1 .. Len(replies') /\ Confirms(n)' /\ replies'[n] = replies[i]
          BY <1>10, <4>1, <4>3, <5>1
        <5> QED
          BY <4>1, <5>2 DEF Owned
      <4> QED
        BY <4>2, <4>3
    <3>4. CASE \E i \in 1 .. Len(requests) : Unsubscribes(i, s)
      BY <1>8, <3>4 DEF Owned, Unsubscribes, Extends
    <3> QED
      BY <3>1, <3>2, <3>3, <3>4 DEF Owned
  <2>8. ASSUME NEW s \in DOMAIN sidMap', NEW m \in Markets
        PROVE  m \in channels'[sidMap'[s]].markets <=> WillServe(s, m)'
    <3>1. CASE s # sid
      <4>1. /\ s \in DOMAIN sidMap /\ sidMap'[s] = sidMap[s] /\ sidMap[s] \in DOMAIN channels
            /\ sidMap[s] # c
        BY <1>2, <1>3, <2>8, <3>1 DEF IInv, Indexed, SidMapInverse, TypeOK, Sids
      <4>2. \A i : New(i) => ~Updates(i, s)'
        BY <1>6, <1>8, <3>1 DEF Updates
      <4>3. WillServe(s, m)' <=> WillServe(s, m)
        BY <1>1, <1>8, <4>2, WillServeStays DEF Changes
      <4>4. channels'[sidMap[s]] = channels[sidMap[s]]
        BY <1>5, <4>1
      <4> QED
        BY <2>1, <4>1, <4>3, <4>4 DEF Wire, Followed
    <3>2. CASE s = sid
      <4>1. WillServe(s, m) <=> m \in subs[sid].markets
        BY <2>2, <3>2 DEF WillServe, Changes
      <4>2. CASE channels[c].pending = {} /\ UNCHANGED requests
        <5>1. WillServe(s, m)' <=> WillServe(s, m)
          BY <1>1, <4>2, NothingNew, WillServeStays
        <5> QED
          BY <1>3, <1>5, <2>2, <3>2, <4>1, <4>2, <5>1
      <4>3. CASE Send(r)
        <5>1. /\ \A i : New(i) => i = Len(requests) + 1 /\ requests'[i] = r
              /\ New(Len(requests) + 1) /\ Len(requests) \in Nat
          BY <1>1, <1>6, <2>1, <4>3, RequestSent
        <5>2. /\ m \in r.markets => WillServe(s, m)'
              /\ m \notin r.markets => (WillServe(s, m)' <=> WillServe(s, m))
          BY <1>1, <1>6, <1>8, <3>2, <5>1, WillServeMore
        <5> QED
          BY <1>3, <1>5, <1>6, <2>2, <3>2, <4>1, <5>2
      <4> QED
        BY <1>7, <4>2, <4>3
    <3> QED
      BY <3>1, <3>2
  <2>9. Followed'
    BY <2>8 DEF Followed
  <2> QED
    BY <2>3, <2>4, <2>5, <2>6, <2>7, <2>9 DEF Wire
<1> QED
  BY <1>10, <1>11, <1>12 DEF Synced

LEMMA HandleSubscribedSynced ==
    ASSUME IInv, IInv', Synced, Phases, HandleSubscribed
    PROVE  Synced'
<1> DEFINE m == Head(replies)
<1>1. Reading("subscribed")
  BY DEF HandleSubscribed
<1>2. /\ TypeOK /\ m = replies[1] /\ replies[1] \in Reply /\ Confirms(1) /\ 1 \in 1 .. Len(replies)
      /\ link # "none" /\ link \in {"none", "open", "closed"}
      /\ UNCHANGED <<link, subs, nextSid, listening, resub, recovery>>
      /\ listening /\ m.sid \in Sids /\ SidOf(m) = m.sid
  <2>1. /\ TypeOK /\ m = replies[1] /\ replies[1] \in Reply /\ Confirms(1) /\ 1 \in 1 .. Len(replies)
        /\ link # "none" /\ UNCHANGED <<link, subs, nextSid, listening, resub, recovery>>
    BY <1>1, Taken DEF Confirms
  <2> QED
    BY <2>1 DEF Phases, TypeOK, ServerTypeOK, Reply, Confirms, SidOf
<1>3. CASE Expected(m)
  <2> DEFINE c == pending[m.id]
             confirmed == [channels EXCEPT ![c].sid = SidOf(m)]
             state == [channels[c] EXCEPT !.sid = m.sid]
             sent == [state EXCEPT !.pending = {}]
  <2>1. m.id \in DOMAIN pending /\ c \in DOMAIN channels /\ channels[c] \in ChannelState
    BY <1>2, <1>3 DEF Expected, TypeOK
  <2>2. /\ state \in ChannelState /\ state.sid = m.sid /\ state.markets = channels[c].markets
        /\ state.pending = channels[c].pending
        /\ sent.sid = m.sid /\ sent.markets = channels[c].markets /\ sent.pending = {}
    BY <1>2, <2>1 DEF ChannelState, Sids
  <2>3. /\ confirmed = [channels EXCEPT ![c] = state]
        /\ [confirmed EXCEPT ![c].pending = {}] = [channels EXCEPT ![c] = sent]
    BY <1>2, <2>1
  <2>4. \/ /\ channels[c].pending = {} /\ UNCHANGED requests
           /\ channels' = confirmed
           /\ sidMap' = Put(sidMap, m.sid, c) /\ pending' = Drop(pending, {m.id})
        \/ /\ ~Raises
           /\ channels' = [confirmed EXCEPT ![c].pending = {}]
           /\ sidMap' = Put(sidMap, m.sid, c) /\ pending' = Drop(pending, {m.id})
           /\ Send([cmd |-> "update_subscription", sid |-> m.sid,
                    markets |-> channels[c].pending, action |-> "add_markets"])
        \/ /\ Raises /\ UNCHANGED requests
           /\ SocketError(confirmed, Put(sidMap, m.sid, c), Drop(pending, {m.id}))
    BY <1>2, <1>3 DEF HandleSubscribed
  <2> HIDE DEF confirmed, state, sent
  <2>5. CASE /\ channels[c].pending = {} /\ UNCHANGED requests
             /\ channels' = confirmed
             /\ sidMap' = Put(sidMap, m.sid, c) /\ pending' = Drop(pending, {m.id})
    <3>1. ConfirmedNow(c)
      BY <1>2, <2>1, <2>2, <2>3, <2>5 DEF ConfirmedNow
    <3> QED
      BY <1>1, <2>1, <3>1, ConfirmSynced
  <2>6. CASE /\ ~Raises
             /\ channels' = [confirmed EXCEPT ![c].pending = {}]
             /\ sidMap' = Put(sidMap, m.sid, c) /\ pending' = Drop(pending, {m.id})
             /\ Send([cmd |-> "update_subscription", sid |-> m.sid,
                      markets |-> channels[c].pending, action |-> "add_markets"])
    <3>1. ConfirmedNow(c)
      BY <1>2, <2>1, <2>2, <2>3, <2>6 DEF ConfirmedNow, Raises
    <3> QED
      BY <1>1, <2>1, <3>1, ConfirmSynced
  <2>7. CASE /\ Raises /\ UNCHANGED requests
             /\ SocketError(confirmed, Put(sidMap, m.sid, c), Drop(pending, {m.id}))
    <3>1. IdsRise'
      BY <1>1, <2>7, NothingNew, RiseRead DEF Synced
    <3>2. HandleConnectionLoss(confirmed)
      BY <1>2, <2>7 DEF SocketError
    <3>3. /\ DOMAIN confirmed = DOMAIN channels
          /\ \A d \in DOMAIN confirmed : /\ confirmed[d] \in ChannelState
                                         /\ confirmed[d].markets = channels[d].markets
                                         /\ confirmed[d].pending = channels[d].pending
      BY <1>2, <2>2, <2>3 DEF TypeOK
    <3>4. link' # "open"
      BY <1>2, <2>7 DEF Raises
    <3> QED
      BY <1>2, <3>1, <3>2, <3>3, <3>4, LossSynced
  <2> QED
    BY <2>4, <2>5, <2>6, <2>7
<1>4. CASE ~Expected(m)
  <2>1. UNCHANGED <<requests, channels>> /\ pending' = Drop(pending, {m.id})
    BY <1>4 DEF HandleSubscribed
  <2>2. link' # "open"
    BY <1>2, <1>4 DEF Expected, Synced, Wire, Answers, Awaited
  <2>3. /\ DOMAIN pending' \subseteq DOMAIN pending
        /\ \A i \in DOMAIN pending' : pending'[i] = pending[i]
    BY <2>1 DEF Drop, Restrict
  <2>4. IdsRise'
    BY <1>1, <2>1, NothingNew, RiseRead DEF Synced
  <2>5. Kept' /\ Paused'
    <3>1. channels' = channels /\ resub' = resub
      BY <1>2, <2>1
    <3> QED
      BY <3>1 DEF Synced, Kept, Paused
  <2>6. Awaited'
    <3>1. channels' = channels /\ UNCHANGED <<resub, recovery>> /\ Awaited
      BY <1>2, <2>1 DEF Synced
    <3> QED
      BY <2>3, <3>1 DEF Awaited, Waiting
  <2> QED
    BY <2>2, <2>4, <2>5, <2>6 DEF Synced
<1> QED
  BY <1>3, <1>4

-----------------------------------------------------------------------------
(* The program's operations.                                               *)

LEMMA PutTouches ==
    ASSUME WireOnlySends, UNCHANGED <<resub, recovery>>, NEW c, NEW state,
           channels' = Put(channels, c, state)
    PROVE  Touches(c) /\ c \in DOMAIN channels' /\ channels'[c] = state
BY DEF Touches, Put

\* A channel's state is written back as it was.
LEMMA SameTouches ==
    ASSUME WireOnlySends, UNCHANGED <<resub, recovery>>, NEW c \in DOMAIN channels,
           channels' = Put(channels, c, channels[c])
    PROVE  Touches(NoChannel)
BY DEF Touches, Put

LEMMA AddMarketSynced ==
    ASSUME IInv, IInv', Synced, NEW o, NEW c \in Channels, NEW m \in Markets,
           AddMarket(o, c, m), WireOnlySends, UNCHANGED <<resub, recovery>>, ~Waiting(c)
    PROVE  Synced'
<1> DEFINE state == StateOf(c)
           added == [state EXCEPT !.markets = @ \cup {m}]
           collected == [added EXCEPT !.pending = @ \cup {m}]
<1>1. /\ TypeOK /\ sidMap' = sidMap /\ {m} \in SUBSET Markets
      /\ state.markets \subseteq Markets /\ state.pending \subseteq state.markets
      /\ c \in DOMAIN channels => state = channels[c]
      /\ c \notin DOMAIN channels =>
             state.markets = {} /\ state.pending = {} /\ state.sid = NoSid
      /\ ~Waiting(c)'
  BY StateOfTyped DEF IInv, Indexed, AddMarket, Synced, Kept, Fresh, Waiting, TypeOK
<1>2. /\ added.markets = state.markets \cup {m} /\ added.pending = state.pending
      /\ added.sid = state.sid
      /\ collected.markets = state.markets \cup {m} /\ collected.pending = state.pending \cup {m}
      /\ collected.sid = state.sid
  BY <1>1, StateOfTyped DEF ChannelState
<1>3. \/ /\ m \in state.markets
         /\ channels' = Put(channels, c, state) /\ NoSend
      \/ /\ state.sid # NoSid
         /\ channels' = Put(channels, c, added)
         /\ SendUpdate(state.sid, {m}, "add_markets")
      \/ /\ state.sid = NoSid /\ ~IsPending(c)
         /\ channels' = Put(channels, c, added)
         /\ SendSubscribe(c, {m})
      \/ /\ state.sid = NoSid /\ IsPending(c)
         /\ channels' = Put(channels, c, collected) /\ NoSend
  BY DEF AddMarket, GoOn
<1> HIDE DEF state, added, collected
<1>4. CASE m \in state.markets /\ channels' = Put(channels, c, state) /\ NoSend
  BY <1>1, <1>4, SameTouches, IdleSynced
<1>5. CASE /\ state.sid # NoSid
           /\ channels' = Put(channels, c, added)
           /\ SendUpdate(state.sid, {m}, "add_markets")
  <2>1. Touches(c) /\ c \in DOMAIN channels' /\ channels'[c] = added /\ c \in DOMAIN channels
    BY <1>1, <1>5, PutTouches
  <2> QED
    BY <1>1, <1>2, <1>5, <2>1, OrderSynced
<1>6. CASE /\ state.sid = NoSid /\ ~IsPending(c)
           /\ channels' = Put(channels, c, added)
           /\ SendSubscribe(c, {m})
  <2>1. Touches(c) /\ c \in DOMAIN channels' /\ channels'[c] = added
    BY <1>6, PutTouches
  <2>2. link = "open" => c \notin DOMAIN channels
    BY <1>1, <1>6 DEF Synced, Wire, Placed
  <2> QED
    BY <1>1, <1>2, <1>6, <2>1, <2>2, AskSynced
<1>7. CASE /\ state.sid = NoSid /\ IsPending(c)
           /\ channels' = Put(channels, c, collected) /\ NoSend
  <2>1. Touches(c) /\ c \in DOMAIN channels' /\ channels'[c] = collected
    BY <1>7, PutTouches
  <2>2. c \in DOMAIN channels
    BY <1>7 DEF Synced, Awaited, IsPending
  <2> QED
    BY <1>1, <1>2, <1>7, <2>1, <2>2, CollectSynced
<1> QED
  BY <1>3, <1>4, <1>5, <1>6, <1>7

LEMMA AddMarketsSynced ==
    ASSUME IInv, IInv', Synced, NEW o, NEW c \in Channels,
           NEW markets \in (SUBSET Markets) \ {{}},
           AddMarkets(o, c, markets), WireOnlySends, UNCHANGED <<resub, recovery>>, ~Waiting(c),
           c \in DOMAIN channels => channels[c].sid # NoSid
    PROVE  Synced'
<1> DEFINE state == StateOf(c)
           new == markets \ state.markets
           added == [state EXCEPT !.markets = @ \cup new]
<1>1. /\ TypeOK /\ sidMap' = sidMap /\ new \in SUBSET Markets
      /\ state.markets \subseteq Markets /\ state.pending \subseteq state.markets
      /\ c \in DOMAIN channels => state = channels[c]
      /\ c \notin DOMAIN channels =>
             state.markets = {} /\ state.pending = {} /\ state.sid = NoSid
      /\ ~Waiting(c)'
  BY StateOfTyped DEF IInv, Indexed, AddMarkets, Synced, Kept, Fresh, Waiting, TypeOK
<1>2. /\ added.markets = state.markets \cup new /\ added.pending = state.pending
      /\ added.sid = state.sid /\ added.markets \in SUBSET Markets
      /\ new = {} => added = state
  <2>1. state \in ChannelState
    BY <1>1, StateOfTyped
  <2>2. ASSUME new = {} PROVE added = state
    <3>1. state.markets \cup new = state.markets
      BY <2>2
    <3> HIDE DEF state, new
    <3> QED
      BY <2>1, <3>1 DEF ChannelState
  <2> HIDE DEF state, new
  <2> QED
    BY <1>1, <2>1, <2>2 DEF ChannelState
<1>3. /\ channels' = Put(channels, c, added)
      /\ \/ new = {} /\ NoSend
         \/ state.sid # NoSid /\ new # {} /\ SendUpdate(state.sid, new, "add_markets")
         \/ state.sid = NoSid /\ new # {} /\ SendSubscribe(c, added.markets)
  BY DEF AddMarkets, GoOn
<1>4. c \notin DOMAIN channels => new # {}
  BY <1>1
<1> HIDE DEF state, new, added
<1>5. Touches(c) /\ c \in DOMAIN channels' /\ channels'[c] = added
  BY <1>3, PutTouches
<1>6. CASE new = {} /\ NoSend
  BY <1>1, <1>2, <1>3, <1>4, <1>6, SameTouches, IdleSynced
<1>7. CASE state.sid # NoSid /\ new # {} /\ SendUpdate(state.sid, new, "add_markets")
  BY <1>1, <1>2, <1>5, <1>7, OrderSynced
<1>8. CASE state.sid = NoSid /\ new # {} /\ SendSubscribe(c, added.markets)
  <2>1. c \notin DOMAIN channels /\ ~IsPending(c)
    BY <1>1, <1>8 DEF Synced, Awaited, IsPending
  <2> QED
    BY <1>1, <1>2, <1>5, <1>8, <2>1, AskSynced
<1> QED
  BY <1>3, <1>6, <1>7, <1>8

LEMMA RemoveMarketSynced ==
    ASSUME IInv, IInv', Synced, NEW o, NEW c \in Channels, NEW m \in Markets,
           RemoveMarket(o, c, m), WireOnlySends, UNCHANGED <<resub, recovery>>,
           c \in DOMAIN channels => channels[c].sid # NoSid
    PROVE  Synced'
<1> DEFINE state == StateOf(c)
           removed == [state EXCEPT !.markets = @ \ {m}]
<1>1. /\ TypeOK /\ {m} \in SUBSET Markets
      /\ c \in DOMAIN channels => state = channels[c]
      /\ c \notin DOMAIN channels => state.markets = {}
  BY StateOfTyped DEF IInv, Indexed, Fresh
<1>2. /\ removed.markets = state.markets \ {m} /\ removed.pending = state.pending
      /\ removed.sid = state.sid
  BY <1>1, StateOfTyped DEF ChannelState
<1>3. \/ UNCHANGED <<channels, sidMap>> /\ NoSend
      \/ m \in state.markets /\ state.sid = NoSid
      \/ /\ m \in state.markets /\ state.sid # NoSid
         /\ channels' = Drop(channels, {c}) /\ sidMap' = Drop(sidMap, {state.sid})
         /\ SendUnsubscribe(state.sid)
      \/ /\ m \in state.markets /\ state.sid # NoSid /\ removed.markets # {}
         /\ channels' = Put(channels, c, removed) /\ sidMap' = sidMap
         /\ SendUpdate(state.sid, {m}, "delete_markets")
  BY DEF RemoveMarket, GoOn
<1> HIDE DEF state, removed
<1>4. CASE UNCHANGED <<channels, sidMap>> /\ NoSend
  BY <1>4, IdleSynced DEF Touches
<1>5. CASE /\ m \in state.markets /\ state.sid # NoSid
           /\ channels' = Drop(channels, {c}) /\ sidMap' = Drop(sidMap, {state.sid})
           /\ SendUnsubscribe(state.sid)
  <2>1. c \in DOMAIN channels /\ state = channels[c]
    BY <1>1, <1>5
  <2>2. Touches(c) /\ c \notin DOMAIN channels'
    BY <1>5 DEF Touches, Drop, Restrict
  <2>3. c \notin DOMAIN resub'
    BY <2>1, <1>5 DEF Synced, Paused
  <2> QED
    BY <1>5, <2>1, <2>2, <2>3, EndSynced
<1>6. CASE /\ m \in state.markets /\ state.sid # NoSid /\ removed.markets # {}
           /\ channels' = Put(channels, c, removed) /\ sidMap' = sidMap
           /\ SendUpdate(state.sid, {m}, "delete_markets")
  <2>1. Touches(c) /\ c \in DOMAIN channels' /\ channels'[c] = removed /\ c \in DOMAIN channels
    BY <1>1, <1>6, PutTouches
  <2> QED
    BY <1>1, <1>2, <1>6, <2>1, OrderSynced
<1> QED
  BY <1>1, <1>3, <1>4, <1>5, <1>6

\* The channel whose turn it is neither waits nor, but for add_market, lacks its sid.
LEMMA ShareOfSynced ==
    ASSUME IInv, IInv', Synced, NEW o, o.markets \in (SUBSET Markets) \ {{}},
           o.left \subseteq Channels, ShareOf(o), recovery.left = {},
           \A c \in o.left :
               /\ c \notin DOMAIN resub
               /\ o.name # "add_market" /\ c \in DOMAIN channels => channels[c].sid # NoSid
    PROVE  Synced'
<1>1. PICK c \in o.left :
          \/ o.name = "add_market" /\ \A m \in o.markets : AddMarket(o, c, m)
          \/ o.name = "add_markets" /\ AddMarkets(o, c, o.markets)
          \/ o.name = "remove_market" /\ \A m \in o.markets : RemoveMarket(o, c, m)
  BY DEF ShareOf
<1>2. /\ c \in Channels /\ ~Waiting(c) /\ WireOnlySends /\ UNCHANGED <<resub, recovery>>
      /\ \E m \in o.markets : m \in Markets
  BY <1>1 DEF ShareOf, ListenerWaits, Waiting
<1> QED
  BY <1>1, <1>2, AddMarketSynced, AddMarketsSynced, RemoveMarketSynced

LEMMA BeginSynced ==
    ASSUME IInv, IInv', Synced, Disciplined, NEW name \in Operations,
           NEW markets \in (SUBSET Markets) \ {{}}, NEW names \in (SUBSET Channels) \ {{}},
           name \in {"add_market", "add_markets", "remove_market"}, Begin(name, markets, names)
    PROVE  Synced'
<1> DEFINE o == [name |-> name, markets |-> markets, left |-> names, sentIn |-> 0]
<1>1. /\ ShareOf(o) /\ \A c \in names : Obeys(name, c)
      /\ o.name = name /\ o.markets = markets /\ o.left = names
  BY DEF Begin, Calls
<1>2. listener # "recovering"
  BY <1>1 DEF Obeys, Disciplined
<1>3. recovery.left = {}
  BY <1>2 DEF IInv, Indexed, Turns
<1>4. \A c \in names : /\ c \notin DOMAIN resub
                       /\ name # "add_market" /\ c \in DOMAIN channels => channels[c].sid # NoSid
  BY <1>1 DEF Obeys, Disciplined
<1> HIDE DEF o
<1> QED
  BY <1>1, <1>3, <1>4, ShareOfSynced

LEMMA ShareSynced ==
    ASSUME IInv, IInv', Synced, Tasks, Share
    PROVE  Synced'
<1>1. /\ op # NoOp /\ ~Interrupted(op) /\ ShareOf(op)
      /\ op.markets \in (SUBSET Markets) \ {{}} /\ op.left \subseteq Channels
  BY DEF Share, Unlocked, IInv, Indexed, TypeOK, Turns
<1>2. recovery.left = {}
  BY <1>1 DEF Tasks, OpFree, Attended, IInv, Indexed, Turns
<1> QED
  BY <1>1, <1>2, ShareOfSynced DEF Tasks, OpFree

LEMMA SweepSynced ==
    ASSUME IInv, IInv', Synced, Tasks, Sweep
    PROVE  Synced'
<1>1. /\ WireOnlySends /\ UNCHANGED <<resub, recovery>> /\ ~Interrupted(sweep)
      /\ \E pair \in sweep.left : RemoveMarket(NoOp, pair[1], pair[2])
  BY DEF Sweep, ListenerWaits
<1>2. PICK pair \in sweep.left : RemoveMarket(NoOp, pair[1], pair[2])
  BY <1>1
<1>3. pair[1] \in Channels /\ pair[2] \in Markets
  BY DEF IInv, Indexed, TypeOK
<1>4. pair[1] \in DOMAIN channels => channels[pair[1]].sid # NoSid
  BY <1>1, <1>2 DEF Tasks, SweepFree, NoSweep
<1> QED
  BY <1>1, <1>2, <1>3, <1>4, RemoveMarketSynced

LEMMA RequestSnapshotSynced ==
    ASSUME IInv, IInv', Synced, NEW c \in Channels, NEW markets \in SUBSET Markets,
           RequestSnapshot(c, markets)
    PROVE  Synced'
<1>1. c \in DOMAIN channels /\ StateOf(c) = channels[c] /\ channels[c].sid # NoSid
  BY StateOfTyped DEF RequestSnapshot, IInv, Indexed
<1>2. /\ Touches(c) /\ UNCHANGED <<channels, sidMap, resub>>
      /\ SendUpdate(channels[c].sid, markets, "get_snapshot")
  BY <1>1 DEF RequestSnapshot, Touches, ListenerWaits
<1>3. channels[c].markets # {}
  BY <1>1 DEF Synced, Kept
<1> QED
  BY <1>1, <1>2, <1>3, OrderSynced

LEMMA ResubscribeSynced ==
    ASSUME IInv, IInv', Synced, Disciplined, NEW c \in Channels, Resubscribe(c)
    PROVE  Synced'
<1> DEFINE paused == [channels[c] EXCEPT !.sid = NoSid, !.seq = NoSeq]
           saved == Put(resub, c, channels[c].markets)
<1>1. /\ c \in DOMAIN channels /\ c \notin DOMAIN resub /\ channels[c] \in ChannelState
      /\ channels[c].sid # NoSid
      /\ channels' = Put(channels, c, paused)
      /\ WireOnlySends /\ UNCHANGED recovery
  BY DEF Resubscribe, Calls, Obeys, Disciplined, IInv, Indexed, TypeOK, ListenerWaits
<1>2. /\ sidMap' = Drop(sidMap, {channels[c].sid}) /\ SendUnsubscribe(channels[c].sid)
      /\ resub' = IF Raises THEN resub ELSE saved
  BY <1>1 DEF Resubscribe
<1>3. /\ paused.sid = NoSid /\ paused.markets = channels[c].markets
      /\ paused.pending = channels[c].pending
  BY <1>1 DEF ChannelState
<1> HIDE DEF paused
<1>4. /\ DOMAIN saved = DOMAIN resub \cup {c} /\ saved[c] = channels[c].markets
      /\ \A d \in DOMAIN resub : d # c => saved[d] = resub[d]
  BY DEF Put
<1> HIDE DEF saved
<1>5. /\ DOMAIN channels' = DOMAIN channels \cup {c} /\ channels'[c] = paused
      /\ \A d \in DOMAIN channels : d # c => channels'[d] = channels[d]
  BY <1>1 DEF Put
<1>6. Touches(c)
  BY <1>1, <1>2, <1>4, <1>5 DEF Touches
<1>7. link = "open" => ~Raises
  BY DEF Raises
<1> QED
  BY <1>1, <1>2, <1>3, <1>4, <1>5, <1>6, <1>7, EndSynced

LEMMA ResubscribeAgainSynced ==
    ASSUME IInv, IInv', Synced, Phases, NEW c \in Channels, ResubscribeAgain(c)
    PROVE  Synced'
<1>1. /\ c \in DOMAIN resub /\ resub' = Drop(resub, {c})
      /\ WireOnlySends /\ UNCHANGED <<channels, sidMap, recovery>>
  BY DEF ResubscribeAgain, ListenerWaits
<1>2. /\ c \in DOMAIN channels /\ channels[c].sid = NoSid /\ resub[c] = channels[c].markets
      /\ channels[c].markets # {} /\ channels[c].pending \subseteq channels[c].markets
      /\ ~IsPending(c) /\ resub[c] \in SUBSET Markets
  BY <1>1 DEF Synced, Paused, Kept, Awaited, IsPending, Waiting, IInv, Indexed, TypeOK
<1>3. SendSubscribe(c, resub[c])
  BY <1>2 DEF ResubscribeAgain
<1>4. recovery'.left = {}
  BY <1>1 DEF Phases, IInv, Indexed, Turns
<1>5. Touches(c) /\ ~Waiting(c)'
  BY <1>1, <1>4 DEF Touches, Waiting, Drop, Restrict
<1> QED
  BY <1>1, <1>2, <1>3, <1>5, AskSynced

LEMMA RecoverSynced ==
    ASSUME IInv, IInv', Synced, Phases, Recover
    PROVE  Synced'
<1>1. /\ listener = "recovering" /\ WireOnlySends /\ UNCHANGED <<channels, sidMap, resub>>
      /\ DOMAIN resub = {} /\ DOMAIN sidMap = {} /\ recovery.size = Cardinality(DOMAIN channels)
      /\ recovery \in [left : SUBSET Channels, size : Nat, suspended : BOOLEAN]
      /\ recovery.left \subseteq DOMAIN channels
  BY DEF Recover, Phases, IInv, Indexed, Turns, TypeOK
<1>2. CASE \E c \in recovery.left : RecoverTurn(c)
  <2>1. PICK c \in recovery.left : RecoverTurn(c)
    BY <1>2
  <2>2. /\ c \in DOMAIN channels /\ c \in Channels /\ channels[c].sid = NoSid
        /\ channels[c].markets # {} /\ channels[c].pending \subseteq channels[c].markets
        /\ channels[c].markets \in SUBSET Markets /\ ~IsPending(c)
    BY <1>1 DEF Synced, Kept, Awaited, IsPending, Waiting, IInv, Indexed, TypeOK,
                SidMapInverse, ChannelState
  <2>3. /\ SendSubscribe(c, channels[c].markets)
        /\ recovery' = [recovery EXCEPT !.left = @ \ {c}, !.suspended = TRUE]
    BY <2>1, <2>2 DEF RecoverTurn
  <2>4. recovery'.left = recovery.left \ {c}
    BY <1>1, <2>3
  <2>5. Touches(c) /\ ~Waiting(c)'
    BY <1>1, <2>4 DEF Touches, Waiting
  <2> QED
    BY <1>1, <2>2, <2>3, <2>5, AskSynced
<1>3. CASE RecoverEnds /\ NoSend /\ recovery' = NoRecovery
  <2>1. recovery'.left = {}
    BY <1>3 DEF NoRecovery
  <2>2. link = "open" => recovery.left = {}
    BY <1>1, <1>3 DEF RecoverEnds, Raises
  <2>3. Touches(NoChannel)
    BY <1>1, <2>1, <2>2 DEF Touches
  <2> QED
    BY <1>1, <1>3, <2>3, IdleSynced
<1> QED
  BY <1>2, <1>3 DEF Recover

LEMMA QuietSynced ==
    ASSUME IInv, IInv', Synced,
           Abort \/ UnsubscribeAll \/ Listen \/ ReconnectFails \/ UNCHANGED vars
    PROVE  Synced'
<1>1. /\ UNCHANGED serverVars
      /\ UNCHANGED <<channels, sidMap, pending, nextId, resub, recovery>>
  BY DEF Abort, UnsubscribeAll, Listen, ReconnectFails, vars, clientVars, serverVars
<1>2. WireOnlySends /\ NoSend /\ UNCHANGED <<channels, sidMap, resub, recovery>>
  BY <1>1 DEF serverVars, WireOnlySends, NoSend
<1>3. Touches(NoChannel)
  BY <1>2 DEF Touches
<1> QED
  BY <1>2, <1>3, IdleSynced

-----------------------------------------------------------------------------
(* The tasks of the event loop.                                            *)

\* A new connection, or none that opens again.
Connects ==
    \/ session' = session + 1
    \/ session' = session /\ (link = "closed" => link' = "closed")

LEMMA InterruptedStays ==
    ASSUME session \in Nat, Connects, NEW o, o.sentIn \in Nat, o.sentIn <= session,
           Interrupted(o)
    PROVE  o.sentIn # 0 /\ (o.sentIn # session' \/ Raises')
BY DEF Connects, Interrupted, Raises

\* The tasks stay as they are, or end.
LEMMA TasksStay ==
    ASSUME TypeOK, Tasks, Connects, op' \in {op, NoOp}, sweep' \in {sweep, NoSweep},
           op' = op /\ op # NoOp /\ OpFree => OpFree' \/ Interrupted(op)',
           sweep' = sweep /\ sweep # NoSweep /\ SweepFree => SweepFree' \/ Interrupted(sweep)'
    PROVE  Tasks'
<1>1. /\ session \in Nat /\ op.sentIn \in Nat /\ sweep.sentIn \in Nat
      /\ op.sentIn <= session /\ sweep.sentIn <= session /\ session <= session'
      /\ NoOp.sentIn = 0 /\ NoSweep.sentIn = 0
  BY DEF TypeOK, ServerTypeOK, Tasks, Connects, NoOp, NoSweep
<1>2. op'.sentIn <= session' /\ sweep'.sentIn <= session' /\ (op' # NoOp => sweep' = NoSweep)
  BY <1>1 DEF Tasks, Connects
<1>3. ASSUME op' # NoOp, ~Interrupted(op)' PROVE OpFree'
  <2>1. op' = op /\ op # NoOp
    BY <1>3
  <2>2. ~Interrupted(op)
    BY <1>1, <1>3, <2>1, InterruptedStays DEF Interrupted
  <2> QED
    BY <1>3, <2>1, <2>2 DEF Tasks
<1>4. ASSUME sweep' # NoSweep, ~Interrupted(sweep)' PROVE SweepFree'
  <2>1. sweep' = sweep /\ sweep # NoSweep
    BY <1>4
  <2>2. ~Interrupted(sweep)
    BY <1>1, <1>4, <2>1, InterruptedStays DEF Interrupted
  <2> QED
    BY <1>4, <2>1, <2>2 DEF Tasks
<1> QED
  BY <1>2, <1>3, <1>4 DEF Tasks

\* Nothing that a task relies on changes.
LEMMA FreeStays ==
    ASSUME Attended => Attended', UNCHANGED resub,
           DOMAIN channels' = DOMAIN channels,
           \A c \in DOMAIN channels : channels[c].sid # NoSid => channels'[c].sid # NoSid
    PROVE  /\ op' = op /\ OpFree => OpFree'
           /\ SweepFree => SweepFree'
BY DEF OpFree, SweepFree

\* A connection that has broken interrupts every task that has sent something on it.
LEMMA BrokenInterrupts ==
    ASSUME ~OpRuns, ~SweepRuns, link' = "closed"
    PROVE  /\ op' = op /\ op # NoOp => Interrupted(op)'
           /\ sweep' = sweep /\ sweep # NoSweep => Interrupted(sweep)'
BY DEF OpRuns, SweepRuns, Interrupted, Raises

\* What a step of an attended program does to the phases of the listener.
LEMMA ProgramPhases ==
    ASSUME Phases, WireOnlySends, ListenerWaits, Attended,
           DOMAIN resub' # {} => listener = "off"
    PROVE  Phases'
BY DEF Phases, WireOnlySends, ListenerWaits, Attended

\* A share is about one channel.
OthersKept(c) ==
    \A d : d # c => /\ d \in DOMAIN channels' <=> d \in DOMAIN channels
                    /\ d \in DOMAIN channels => channels'[d] = channels[d]

LEMMA ShareOfOne ==
    ASSUME NEW o, o.markets # {}, ShareOf(o)
    PROVE  \E c \in o.left : OthersKept(c) /\ (GoOn(o, c) \/ GoOnUnlessRaised(o, c))
<1>1. PICK c \in o.left :
          \/ \A m \in o.markets : AddMarket(o, c, m)
          \/ AddMarkets(o, c, o.markets)
          \/ \A m \in o.markets : RemoveMarket(o, c, m)
  BY DEF ShareOf
<1>2. PICK m \in o.markets : TRUE
  OBVIOUS
<1>3. CASE AddMarket(o, c, m)
  BY <1>3 DEF AddMarket, OthersKept, Put
<1>4. CASE AddMarkets(o, c, o.markets)
  BY <1>4 DEF AddMarkets, OthersKept, Put
<1>5. CASE RemoveMarket(o, c, m)
  BY <1>5 DEF RemoveMarket, OthersKept, Put, Drop, Restrict
<1> QED
  BY <1>1, <1>2, <1>3, <1>4, <1>5

\* What is left of a task after one share.
LEMMA RestOfTask ==
    ASSUME NEW o \in OpType, NEW c, session \in Nat, GoOn(o, c) \/ GoOnUnlessRaised(o, c)
    PROVE  \/ op' = NoOp
           \/ /\ op'.left = o.left \ {c} /\ op'.name = o.name
              /\ op'.sentIn \in {0, session}
<1>1. CASE o.left \subseteq {c}
  <2>1. Rest(o, c) = NoOp
    BY <1>1 DEF Rest
  <2> QED
    BY <2>1 DEF GoOn, GoOnUnlessRaised
<1>2. CASE ~(o.left \subseteq {c})
  <2> DEFINE rest == [o EXCEPT !.left = @ \ {c}]
  <2>1. Rest(o, c) = rest
    BY <1>2 DEF Rest
  <2>2. ASSUME NEW n, NEW next, next = [rest EXCEPT !.sentIn = n]
        PROVE  next.left = o.left \ {c} /\ next.name = o.name /\ next.sentIn = n
    BY <2>2 DEF OpType
  <2>3. \/ op' = NoOp
        \/ op' = [rest EXCEPT !.sentIn = 0]
        \/ op' = [rest EXCEPT !.sentIn = session]
    BY <2>1 DEF GoOn, GoOnUnlessRaised
  <2> HIDE DEF rest
  <2> QED
    BY <2>2, <2>3
<1> QED
  BY <1>1, <1>2

LEMMA ShareOfOrdered ==
    ASSUME IInv, Tasks, Phases, NEW o \in OpType, o.markets # {}, ShareOf(o),
           sweep = NoSweep, Attended,
           \A c \in o.left :
               /\ c \notin DOMAIN resub
               /\ o.name # "add_market" /\ c \in DOMAIN channels => channels[c].sid # NoSid
    PROVE  Tasks' /\ Phases'
<1>1. /\ session \in Nat /\ sweep' = NoSweep /\ NoSweep.sentIn = 0 /\ NoOp.sentIn = 0
      /\ WireOnlySends /\ ListenerWaits /\ UNCHANGED <<session, link, listener, resub>>
  BY DEF IInv, Indexed, TypeOK, ServerTypeOK, ShareOf, WireOnlySends, ListenerWaits, NoSweep, NoOp
<1>2. PICK c \in o.left : OthersKept(c) /\ (GoOn(o, c) \/ GoOnUnlessRaised(o, c))
  BY ShareOfOne
<1>3. \/ op' = NoOp
      \/ /\ op'.left = o.left \ {c} /\ op'.name = o.name
         /\ op'.sentIn \in {0, session}
  BY <1>1, <1>2, RestOfTask
<1>4. op'.sentIn <= session' /\ sweep'.sentIn <= session'
  BY <1>1, <1>3
<1>5. ASSUME op' # NoOp PROVE OpFree'
  <2>1. op'.left = o.left \ {c} /\ op'.name = o.name
    BY <1>3, <1>5
  <2>2. ASSUME NEW d \in op'.left
        PROVE  /\ d \notin DOMAIN resub'
               /\ op'.name # "add_market" /\ d \in DOMAIN channels' => channels'[d].sid # NoSid
    BY <1>1, <1>2, <2>1, <2>2 DEF OthersKept
  <2> QED
    BY <1>1, <2>2 DEF OpFree, Attended
<1>6. Phases'
  BY <1>1, ProgramPhases DEF Phases
<1> QED
  BY <1>1, <1>4, <1>5, <1>6 DEF Tasks

LEMMA BeginOrdered ==
    ASSUME IInv, Tasks, Phases, Disciplined, NEW name \in Operations,
           NEW markets \in (SUBSET Markets) \ {{}}, NEW names \in (SUBSET Channels) \ {{}},
           name \in {"add_market", "add_markets", "remove_market"}, Begin(name, markets, names)
    PROVE  Tasks' /\ Phases'
<1> DEFINE o == [name |-> name, markets |-> markets, left |-> names, sentIn |-> 0]
<1>1. /\ ShareOf(o) /\ \A c \in names : Obeys(name, c)
      /\ o.name = name /\ o.markets = markets /\ o.left = names /\ o \in OpType
  BY DEF Begin, Calls, OpType
<1>2. sweep = NoSweep /\ Attended
  BY <1>1 DEF Obeys, Disciplined, Attended
<1>3. \A c \in names : /\ c \notin DOMAIN resub
                       /\ name # "add_market" /\ c \in DOMAIN channels => channels[c].sid # NoSid
  BY <1>1 DEF Obeys, Disciplined
<1> HIDE DEF o
<1> QED
  BY <1>1, <1>2, <1>3, ShareOfOrdered

LEMMA ShareOrdered ==
    ASSUME IInv, Tasks, Phases, Share
    PROVE  Tasks' /\ Phases'
<1>1. /\ op # NoOp /\ ~Interrupted(op) /\ ShareOf(op) /\ op \in OpType /\ op.markets # {}
  BY DEF Share, Unlocked, IInv, Indexed, TypeOK, Turns, OpType
<1>2. sweep = NoSweep /\ OpFree
  BY <1>1 DEF Tasks
<1> QED
  BY <1>1, <1>2, ShareOfOrdered DEF OpFree

LEMMA UnsubscribeAllOrdered ==
    ASSUME IInv, Synced, Tasks, Phases, Disciplined, UnsubscribeAll
    PROVE  Tasks' /\ Phases'
<1>1. /\ UNCHANGED <<serverVars, listening, listener, channels, pending, op, resub, recovery>>
      /\ op = NoOp /\ session \in Nat
      /\ \A c \in DOMAIN channels : Obeys("unsubscribe_all", c)
      /\ sweep' = [left |-> UNION {{c} \X channels[c].markets : c \in DOMAIN channels},
                   sentIn |-> 0]
  BY DEF UnsubscribeAll, Unlocked, IInv, Indexed, TypeOK, ServerTypeOK
<1>2. UNCHANGED <<link, session>>
  BY <1>1 DEF serverVars
<1>3. Phases'
  BY <1>1, <1>2 DEF Phases
<1>4. CASE DOMAIN channels = {}
  <2>1. sweep' = NoSweep
    BY <1>1, <1>4 DEF NoSweep
  <2> QED
    BY <1>1, <1>2, <1>3, <2>1 DEF Tasks, NoSweep
<1>5. CASE DOMAIN channels # {}
  <2>1. PICK c \in DOMAIN channels : Obeys("unsubscribe_all", c)
    BY <1>1, <1>5
  <2>2. Attended
    BY <2>1 DEF Obeys, Disciplined, Attended
  <2>3. \A d \in DOMAIN channels : channels[d].sid # NoSid /\ d \notin DOMAIN resub
    BY <1>1 DEF Obeys, Disciplined
  <2>4. DOMAIN resub = {}
    BY <2>3 DEF Synced, Paused
  <2>5. SweepFree'
    BY <1>1, <1>2, <2>2, <2>3, <2>4 DEF SweepFree, Attended
  <2> QED
    BY <1>1, <1>2, <1>3, <2>5 DEF Tasks
<1> QED
  BY <1>4, <1>5

LEMMA SweepOrdered ==
    ASSUME IInv, Tasks, Phases, Sweep
    PROVE  Tasks' /\ Phases'
<1>1. /\ WireOnlySends /\ ListenerWaits /\ UNCHANGED <<session, link, listener, resub>>
      /\ op = NoOp /\ ~Interrupted(sweep) /\ session \in Nat
  BY DEF Sweep, Unlocked, WireOnlySends, ListenerWaits, IInv, Indexed, TypeOK, ServerTypeOK
<1>2. PICK pair \in sweep.left :
          /\ RemoveMarket(NoOp, pair[1], pair[2])
          /\ \/ sweep' = NoSweep
             \/ sweep' = [left |-> sweep.left \ {pair}, sentIn |-> 0]
             \/ sweep' = [left |-> sweep.left \ {pair}, sentIn |-> session]
  BY DEF Sweep
<1>3. SweepFree
  BY <1>1, <1>2 DEF Tasks, NoSweep
<1>4. op' = NoOp
  <2>1. Rest(NoOp, pair[1]) = NoOp
    BY DEF Rest, NoOp
  <2> QED
    BY <1>2, <2>1 DEF RemoveMarket, GoOn, GoOnUnlessRaised
<1>5. \A c \in DOMAIN channels' : channels'[c].sid # NoSid
  <2> DEFINE state == StateOf(pair[1])
             removed == [state EXCEPT !.markets = @ \ {pair[2]}]
  <2>1. /\ pair[1] \in Channels /\ state \in ChannelState
        /\ pair[1] \in DOMAIN channels => state = channels[pair[1]]
    BY StateOfTyped DEF IInv, Indexed, TypeOK
  <2>2. removed.sid = state.sid
    BY <2>1 DEF ChannelState
  <2>3. \/ channels' = channels
        \/ state.sid # NoSid /\ channels' = Put(channels, pair[1], removed)
        \/ channels' = Drop(channels, {pair[1]})
        \/ pair[2] \in state.markets /\ state.sid = NoSid
    BY <1>2 DEF RemoveMarket
  <2>4. ~(pair[2] \in state.markets /\ state.sid = NoSid)
    BY <1>3 DEF SweepFree, StateOf, Fresh
  <2> HIDE DEF state, removed
  <2> QED
    BY <1>3, <2>2, <2>3, <2>4 DEF SweepFree, Put, Drop, Restrict
<1>6. SweepFree'
  BY <1>1, <1>3, <1>5 DEF SweepFree, Attended
<1>7. op'.sentIn <= session' /\ sweep'.sentIn <= session'
  BY <1>1, <1>2, <1>4 DEF NoOp, NoSweep
<1>8. Phases'
  BY <1>1, <1>3, ProgramPhases DEF SweepFree
<1> QED
  BY <1>4, <1>6, <1>7, <1>8 DEF Tasks

LEMMA RequestSnapshotOrdered ==
    ASSUME IInv, Tasks, Phases, Disciplined, NEW c \in Channels, NEW markets,
           RequestSnapshot(c, markets)
    PROVE  Tasks' /\ Phases'
<1>1. /\ WireOnlySends /\ ListenerWaits /\ UNCHANGED <<channels, op, sweep, resub>>
      /\ UNCHANGED <<session, link, listener>> /\ TypeOK /\ Obeys("request_snapshot", c)
  BY DEF RequestSnapshot, Calls, WireOnlySends, ListenerWaits, IInv, Indexed
<1>2. Attended
  BY <1>1 DEF Obeys, Disciplined, Attended
<1>3. Phases'
  BY <1>1, <1>2, ProgramPhases DEF Phases
<1> QED
  BY <1>1, <1>3, TasksStay, FreeStays DEF Connects, Attended

LEMMA ResubscribeOrdered ==
    ASSUME IInv, Tasks, Phases, Disciplined, NEW c \in Channels, Resubscribe(c)
    PROVE  Tasks' /\ Phases'
<1>1. /\ WireOnlySends /\ ListenerWaits /\ UNCHANGED <<op, sweep>> /\ op = NoOp
      /\ UNCHANGED <<session, link, listener>> /\ TypeOK /\ Obeys("resubscribe_channel", c)
  BY DEF Resubscribe, Unlocked, Calls, WireOnlySends, ListenerWaits, IInv, Indexed
<1>2. Attended /\ listener = "off" /\ sweep = NoSweep
  BY <1>1 DEF Obeys, Disciplined, Attended
<1>3. Phases'
  BY <1>1, <1>2, ProgramPhases
<1> QED
  BY <1>1, <1>2, <1>3, TasksStay DEF Connects

LEMMA ResubscribeAgainOrdered ==
    ASSUME IInv, Tasks, Phases, NEW c, ResubscribeAgain(c)
    PROVE  Tasks' /\ Phases'
<1>1. /\ WireOnlySends /\ ListenerWaits /\ UNCHANGED <<op, sweep>> /\ op = NoOp
      /\ UNCHANGED <<session, link, listener>> /\ TypeOK /\ DOMAIN resub # {}
  BY DEF ResubscribeAgain, Unlocked, WireOnlySends, ListenerWaits, IInv, Indexed
<1>2. listener = "off" /\ Attended
  BY <1>1 DEF Phases, Attended
<1>3. Phases'
  BY <1>1, <1>2, ProgramPhases
<1> QED
  BY <1>1, <1>3, TasksStay DEF Connects, SweepFree

LEMMA AbortOrdered ==
    ASSUME IInv, Tasks, Phases, Abort \/ UNCHANGED vars
    PROVE  Tasks' /\ Phases'
<1>1. /\ UNCHANGED serverVars
      /\ UNCHANGED <<listening, listener, channels, pending, resub, recovery>>
      /\ op' \in {op, NoOp} /\ sweep' \in {sweep, NoSweep} /\ TypeOK
  BY DEF Abort, vars, clientVars, serverVars, IInv, Indexed
<1>2. UNCHANGED <<link, session>>
  BY <1>1 DEF serverVars
<1>3. Phases'
  BY <1>1, <1>2 DEF Phases
<1> QED
  BY <1>1, <1>2, <1>3, TasksStay, FreeStays DEF Connects, Attended

LEMMA ConnectOrdered ==
    ASSUME IInv, Tasks, Phases, Connect
    PROVE  Tasks' /\ Phases'
<1>1. /\ link = "none" /\ link' = "open" /\ session' = session + 1 /\ listening'
      /\ UNCHANGED <<listener, channels, pending, op, sweep, resub, recovery>> /\ TypeOK
  BY DEF Connect, Accept, IInv, Indexed
<1>2. Phases'
  BY <1>1 DEF Phases
<1> QED
  BY <1>1, <1>2, TasksStay DEF Connects, OpFree, SweepFree, Attended

LEMMA ListenOrdered ==
    ASSUME IInv, Tasks, Phases, Disciplined, Listen
    PROVE  Tasks' /\ Phases'
<1>1. /\ UNCHANGED serverVars /\ listener' = "reading" /\ listening /\ resub = <<>> /\ TypeOK
      /\ UNCHANGED <<listening, channels, pending, op, sweep, resub, recovery>>
  BY DEF Listen, Disciplined, IInv, Indexed
<1>2. UNCHANGED <<link, session>> /\ DOMAIN resub = {}
  BY <1>1, EmptyElements DEF serverVars
<1>3. Phases'
  BY <1>1, <1>2 DEF Phases
<1> QED
  BY <1>1, <1>2, <1>3, TasksStay, FreeStays DEF Connects, Attended

LEMMA ExchangeOrdered ==
    ASSUME IInv, Tasks, Phases, ServerNext, UNCHANGED clientVars
    PROVE  Tasks' /\ Phases'
<1>1. /\ UNCHANGED <<listening, listener, channels, pending, op, sweep, resub, recovery>>
      /\ TypeOK
  BY DEF clientVars, IInv, Indexed
<1>2. session' = session /\ link = "open" /\ link' \in {"open", "closed"}
  BY DEF ServerNext, Serve, Publish, Skip, Lose, Hangup
<1>3. Phases'
  BY <1>1, <1>2 DEF Phases
<1> QED
  BY <1>1, <1>2, <1>3, TasksStay, FreeStays DEF Connects, Attended

\* A loss finds no task that has not been interrupted by it.
LEMMA ConnectionLostOrdered ==
    ASSUME IInv, Tasks, Phases, ~OpRuns, ~SweepRuns, ConnectionLost
    PROVE  Tasks' /\ Phases'
<1>1. /\ UNCHANGED serverVars /\ link = "closed" /\ TypeOK /\ listener = "reading"
      /\ UNCHANGED <<listening, op, sweep, resub, recovery>>
      /\ listener' = "sleeping" /\ HandleConnectionLoss(channels)
  BY DEF ConnectionLost, SocketError, Phases, IInv, Indexed
<1>2. UNCHANGED <<link, session>> /\ DOMAIN pending' = {}
  BY <1>1, EmptyElements DEF serverVars, HandleConnectionLoss
<1>3. Phases'
  BY <1>1, <1>2 DEF Phases
<1> QED
  BY <1>1, <1>2, <1>3, TasksStay, BrokenInterrupts DEF Connects

LEMMA ReconnectOrdered ==
    ASSUME IInv, Tasks, Phases, Reconnect
    PROVE  Tasks' /\ Phases'
<1>1. /\ listener = "sleeping" /\ link' = "open" /\ session' = session + 1 /\ listening'
      /\ UNCHANGED <<channels, pending, op, sweep, resub>> /\ TypeOK /\ DOMAIN resub = {}
      /\ listener' \in {"reading", "recovering"}
      /\ listener' = "recovering" => recovery'.size = Cardinality(DOMAIN channels)
  BY DEF Reconnect, Accept, Phases, IInv, Indexed
<1>2. Phases'
  BY <1>1 DEF Phases
<1> QED
  BY <1>1, <1>2, TasksStay DEF Connects, OpFree, SweepFree, Attended

LEMMA ReconnectFailsOrdered ==
    ASSUME IInv, Tasks, Phases, ReconnectFails
    PROVE  Tasks' /\ Phases'
<1>1. /\ listener = "sleeping" /\ listener' = "reading" /\ UNCHANGED serverVars /\ TypeOK
      /\ UNCHANGED <<listening, channels, pending, op, sweep, resub, recovery>>
  BY DEF ReconnectFails, IInv, Indexed
<1>2. UNCHANGED <<link, session>>
  BY <1>1 DEF serverVars
<1>3. Phases'
  BY <1>1, <1>2 DEF Phases
<1> QED
  BY <1>1, <1>2, <1>3, TasksStay DEF Connects, OpFree, SweepFree, Attended

LEMMA RecoverOrdered ==
    ASSUME IInv, Tasks, Phases, Recover
    PROVE  Tasks' /\ Phases'
<1>1. /\ listener = "recovering" /\ UNCHANGED <<link, session>> /\ TypeOK
      /\ UNCHANGED <<listening, channels, op, sweep, resub>>
      /\ listener' \in {"recovering", "reading"}
  BY DEF Recover, WireOnlySends, IInv, Indexed
<1>2. listener' = "recovering" => recovery'.size = recovery.size
  <2>1. recovery \in [left : SUBSET Channels, size : Nat, suspended : BOOLEAN]
    BY <1>1 DEF TypeOK
  <2>2. CASE \E c \in recovery.left : RecoverTurn(c)
    BY <2>1, <2>2 DEF RecoverTurn
  <2>3. CASE listener' = "reading"
    BY <2>3
  <2> QED
    BY <2>2, <2>3 DEF Recover
<1>3. link # "none"
  BY <1>1 DEF Phases
<1>4. Phases'
  BY <1>1, <1>2, <1>3 DEF Phases
<1> QED
  BY <1>1, <1>4, TasksStay DEF Connects, OpFree, SweepFree, Attended

\* A message that is read leaves every channel's sid, or tells it.
LEMMA HandleOrdered ==
    ASSUME IInv, Tasks, Phases, ~OkCarriesTickers, ~OpRuns, ~SweepRuns, Handle
    PROVE  Tasks' /\ Phases'
<1>1. /\ TypeOK /\ SidMapInverse /\ listener = "reading" /\ link # "none" /\ listening
      /\ UNCHANGED <<link, session, listening, op, sweep, resub, recovery>>
      /\ DOMAIN resub = {} /\ \E type : Reading(type)
  BY Taken DEF Handle, HandleSubscribed, HandleOk, HandleUnsubscribed, HandleError, HandleData,
               Phases, IInv, Indexed
<1>2. \/ /\ listener' \in {"reading", "off"} /\ DOMAIN channels' = DOMAIN channels
         /\ \A c \in DOMAIN channels : channels[c].sid # NoSid => channels'[c].sid # NoSid
      \/ link = "closed" /\ listener' = "sleeping" /\ DOMAIN pending' = {}
  <2>1. CASE HandleOk \/ HandleData \/ HandleError \/ HandleUnsubscribed
    <3>1. SameMarkets
      <4>1. CASE UNCHANGED channels
        BY <4>1 DEF SameMarkets
      <4>2. CASE \E c \in DOMAIN channels : \E seq : CheckAndUpdateSeq(channels, c, seq)
        BY <1>1, <4>2, CheckedSame
      <4> QED
        BY <1>1, <2>1, <4>1, <4>2
           DEF HandleOk, HandleData, HandleError, HandleUnsubscribed, Routed, SidMapInverse
    <3>2. listener' \in {"reading", "off"}
      BY <1>1, <2>1 DEF HandleOk, HandleData, HandleError, HandleUnsubscribed,
                        CheckAndUpdateSeq, KeepReading
    <3> QED
      BY <3>1, <3>2 DEF SameMarkets
  <2>2. CASE HandleSubscribed
    <3> DEFINE m == Head(replies)
               c == pending[m.id]
               confirmed == [channels EXCEPT ![c].sid = SidOf(m)]
    <3>1. m.sid \in Sids
      <4>1. m \in Reply /\ m.type = "subscribed"
        BY <2>2, Taken DEF HandleSubscribed
      <4> QED
        BY <4>1 DEF Reply
    <3>2. \/ channels' = channels /\ KeepReading
          \/ /\ c \in DOMAIN channels /\ KeepReading
             /\ \/ channels' = confirmed
                \/ channels' = [confirmed EXCEPT ![c].pending = {}]
          \/ Raises /\ \E sids, ids : SocketError(confirmed, sids, ids)
      BY <2>2 DEF HandleSubscribed, Expected
    <3>3. CASE channels' = channels /\ KeepReading
      BY <1>1, <3>3 DEF KeepReading
    <3>4. CASE /\ c \in DOMAIN channels /\ KeepReading
               /\ \/ channels' = confirmed
                  \/ channels' = [confirmed EXCEPT ![c].pending = {}]
      <4> DEFINE state == [channels[c] EXCEPT !.sid = m.sid]
                 sent == [state EXCEPT !.pending = {}]
      <4>1. state.sid = m.sid /\ sent.sid = m.sid
        BY <1>1, <3>4 DEF TypeOK, ChannelState
      <4>2. channels' = [channels EXCEPT ![c] = state] \/ channels' = [channels EXCEPT ![c] = sent]
        BY <3>4 DEF SidOf
      <4> HIDE DEF state, sent, m
      <4> QED
        BY <1>1, <3>1, <3>4, <4>1, <4>2 DEF KeepReading, Sids
    <3>5. CASE Raises /\ \E sids, ids : SocketError(confirmed, sids, ids)
      BY <1>1, <3>5, EmptyElements DEF Raises, SocketError, HandleConnectionLoss
    <3> QED
      BY <3>2, <3>3, <3>4, <3>5
  <2> QED
    BY <2>1, <2>2 DEF Handle
<1>3. Phases'
  BY <1>1, <1>2 DEF Phases
<1>4. CASE /\ listener' \in {"reading", "off"} /\ DOMAIN channels' = DOMAIN channels
           /\ \A c \in DOMAIN channels : channels[c].sid # NoSid => channels'[c].sid # NoSid
  BY <1>1, <1>3, <1>4, TasksStay, FreeStays DEF Connects, Attended
<1>5. CASE link = "closed"
  BY <1>1, <1>3, <1>5, TasksStay, BrokenInterrupts DEF Connects
<1> QED
  BY <1>2, <1>4, <1>5

-----------------------------------------------------------------------------
(* The ids that are pending.                                               *)

IdsMove ==
    \/ pending' \in {pending, <<>>}
    \/ \E id, c : pending' = Put(pending, id, c)
    \/ \E id : pending' = Drop(pending, {id})

LEMMA ShareIds ==
    ASSUME NEW o, o.markets # {}, ShareOf(o)
    PROVE  IdsMove
<1>1. PICK c \in o.left :
          \/ \A m \in o.markets : AddMarket(o, c, m)
          \/ AddMarkets(o, c, o.markets)
          \/ \A m \in o.markets : RemoveMarket(o, c, m)
  BY DEF ShareOf
<1>2. PICK m \in o.markets : TRUE
  OBVIOUS
<1>3. CASE AddMarket(o, c, m)
  BY <1>3 DEF AddMarket, GoOn, NoSend, SendUpdate, SendSubscribe, IdsMove
<1>4. CASE AddMarkets(o, c, o.markets)
  BY <1>4 DEF AddMarkets, GoOn, NoSend, SendUpdate, SendSubscribe, IdsMove
<1>5. CASE RemoveMarket(o, c, m)
  BY <1>5 DEF RemoveMarket, GoOn, NoSend, SendUpdate, SendUnsubscribe, IdsMove
<1> QED
  BY <1>1, <1>2, <1>3, <1>4, <1>5

\* The map without ids is the empty one.
LEMMA EmptyMap ==
    ASSUME NEW p
    PROVE  /\ p = <<>> => p = [i \in DOMAIN p |-> p[i]]
           /\ p = [i \in DOMAIN p |-> p[i]] /\ DOMAIN p = {} => p = <<>>
<1>1. ASSUME p = <<>> PROVE p = [i \in DOMAIN p |-> p[i]]
  BY <1>1
<1>2. ASSUME p = [i \in DOMAIN p |-> p[i]], DOMAIN p = {} PROVE p = <<>>
  BY <1>2
<1> QED
  BY <1>1, <1>2

LEMMA MapsStay ==
    ASSUME Mapped, IdsMove
    PROVE  Mapped'
<1>1. CASE pending' \in {pending, <<>>}
  <2>1. CASE pending' = pending
    BY <2>1 DEF Mapped
  <2>2. CASE pending' = <<>>
    BY <2>2, EmptyMap DEF Mapped
  <2> QED
    BY <1>1, <2>1, <2>2
<1>2. CASE \E id, c : pending' = Put(pending, id, c)
  BY <1>2 DEF Mapped, Put
<1>3. CASE \E id : pending' = Drop(pending, {id})
  BY <1>3 DEF Mapped, Drop, Restrict
<1> QED
  BY <1>1, <1>2, <1>3 DEF IdsMove

LEMMA ProgramIds ==
    ASSUME IInv, Call \/ Continue
    PROVE  IdsMove
<1>1. CASE \E name \in Operations, markets \in (SUBSET Markets) \ {{}},
               names \in (SUBSET Channels) \ {{}} : Begin(name, markets, names)
  BY <1>1, ShareIds DEF Begin
<1>2. CASE Share
  <2>1. op.markets # {} /\ ShareOf(op)
    BY <1>2 DEF Share, Unlocked, IInv, Indexed, Turns
  <2> QED
    BY <2>1, ShareIds
<1>3. CASE Sweep
  BY <1>3 DEF Sweep, RemoveMarket, GoOn, NoSend, SendUpdate, SendUnsubscribe, IdsMove
<1>4. CASE \E c \in Channels : ResubscribeAgain(c)
  BY <1>4 DEF ResubscribeAgain, NoSend, SendSubscribe, IdsMove
<1>5. CASE \E c \in Channels : Resubscribe(c) \/ \E m \in Markets : RequestSnapshot(c, {m})
  BY <1>5 DEF Resubscribe, RequestSnapshot, NoSend, SendUnsubscribe, SendUpdate, IdsMove
<1>6. CASE Connect \/ Listen \/ Close \/ UnsubscribeAll \/ Abort
  BY <1>6 DEF Connect, Listen, Close, UnsubscribeAll, Abort, IdsMove
<1> QED
  BY <1>1, <1>2, <1>3, <1>4, <1>5, <1>6 DEF Call, Continue

LEMMA ListenerIds ==
    ASSUME ListenerStep
    PROVE  IdsMove
<1>1. CASE HandleSubscribed
  BY <1>1 DEF HandleSubscribed, SocketError, HandleConnectionLoss, IdsMove
<1>2. CASE HandleOk \/ HandleUnsubscribed \/ HandleError \/ HandleData
  BY <1>2 DEF HandleOk, HandleUnsubscribed, HandleError, HandleData, IdsMove
<1>3. CASE ConnectionLost
  BY <1>3 DEF ConnectionLost, SocketError, HandleConnectionLoss, IdsMove
<1>4. CASE Reconnect \/ ReconnectFails
  BY <1>4 DEF Reconnect, ReconnectFails, IdsMove
<1>5. CASE Recover
  BY <1>5 DEF Recover, RecoverTurn, NoSend, SendSubscribe, IdsMove
<1> QED
  BY <1>1, <1>2, <1>3, <1>4, <1>5 DEF ListenerStep, Handle

-----------------------------------------------------------------------------
(* The invariant holds.                                                    *)

LEMMA InitSynced ==
    ASSUME Init
    PROVE  SInv
<1>1. /\ link = "none" /\ session = 0 /\ requests = <<>> /\ replies = <<>>
      /\ listening = FALSE /\ listener = "off" /\ channels = <<>>
      /\ pending = <<>> /\ op = NoOp /\ sweep = NoSweep /\ resub = <<>>
  BY DEF Init, ServerInit
<1>2. /\ DOMAIN channels = {} /\ DOMAIN pending = {} /\ DOMAIN resub = {}
      /\ Len(requests) = 0 /\ Len(replies) = 0
  BY <1>1, EmptyElements
<1>3. Synced
  BY <1>1, <1>2 DEF Synced, IdsRise, Kept, Awaited, Paused
<1>4. Tasks /\ Phases
  BY <1>1, <1>2 DEF Tasks, Phases, NoOp, NoSweep
<1>5. Mapped
  BY <1>1 DEF Mapped
<1> QED
  BY <1>3, <1>4, <1>5 DEF SInv

LEMMA CallSynced ==
    ASSUME IInv, IInv', SInv, Disciplined, Call
    PROVE  SInv'
<1>1. Synced /\ Tasks /\ Phases /\ Mapped
  BY DEF SInv
<1>2. Mapped'
  BY <1>1, ProgramIds, MapsStay
<1>3. CASE \E name \in Operations, markets \in (SUBSET Markets) \ {{}},
               names \in (SUBSET Channels) \ {{}} :
               name \in {"add_market", "add_markets", "remove_market"} /\ Begin(name, markets, names)
  BY <1>1, <1>2, <1>3, BeginSynced, BeginOrdered DEF SInv
<1>4. CASE \E c \in Channels : \E m \in Markets : RequestSnapshot(c, {m})
  <2>1. PICK c \in Channels, m \in Markets : RequestSnapshot(c, {m})
    BY <1>4
  <2>2. {m} \in SUBSET Markets
    OBVIOUS
  <2> QED
    BY <1>1, <1>2, <2>1, <2>2, RequestSnapshotSynced, RequestSnapshotOrdered DEF SInv
<1>5. CASE \E c \in Channels : Resubscribe(c)
  BY <1>1, <1>2, <1>5, ResubscribeSynced, ResubscribeOrdered DEF SInv
<1>6. CASE Connect
  BY <1>1, <1>2, <1>6, ConnectSynced, ConnectOrdered DEF SInv
<1>7. CASE Listen
  BY <1>1, <1>2, <1>7, QuietSynced, ListenOrdered DEF SInv
<1>8. CASE UnsubscribeAll
  BY <1>1, <1>2, <1>8, QuietSynced, UnsubscribeAllOrdered DEF SInv
<1>9. ~Close
  BY DEF Close, Disciplined
<1> QED
  BY <1>3, <1>4, <1>5, <1>6, <1>7, <1>8, <1>9 DEF Call

LEMMA ContinueSynced ==
    ASSUME IInv, IInv', SInv, Continue
    PROVE  SInv'
<1>1. Synced /\ Tasks /\ Phases /\ Mapped
  BY DEF SInv
<1>2. Mapped'
  BY <1>1, ProgramIds, MapsStay
<1>3. CASE Share
  BY <1>1, <1>2, <1>3, ShareSynced, ShareOrdered DEF SInv
<1>4. CASE Abort
  BY <1>1, <1>2, <1>4, QuietSynced, AbortOrdered DEF SInv
<1>5. CASE Sweep
  BY <1>1, <1>2, <1>5, SweepSynced, SweepOrdered DEF SInv
<1>6. CASE \E c \in Channels : ResubscribeAgain(c)
  BY <1>1, <1>2, <1>6, ResubscribeAgainSynced, ResubscribeAgainOrdered DEF SInv
<1> QED
  BY <1>3, <1>4, <1>5, <1>6 DEF Continue

LEMMA ListenerSynced ==
    ASSUME IInv, IInv', SInv, ~OkCarriesTickers,
           Recover \/ (~OpRuns /\ ~SweepRuns /\ ListenerStep)
    PROVE  SInv'
<1>1. Synced /\ Tasks /\ Phases /\ Mapped
  BY DEF SInv
<1>2. Mapped'
  BY <1>1, ListenerIds, MapsStay DEF ListenerStep
<1>3. CASE Recover
  BY <1>1, <1>2, <1>3, RecoverSynced, RecoverOrdered DEF SInv
<1>4. CASE Handle /\ ~OpRuns /\ ~SweepRuns
  BY <1>1, <1>2, <1>4, HandleSubscribedSynced, HandleOthersSynced, HandleOrdered DEF SInv, Handle
<1>5. CASE ConnectionLost /\ ~OpRuns /\ ~SweepRuns
  BY <1>1, <1>2, <1>5, ConnectionLostSynced, ConnectionLostOrdered DEF SInv
<1>6. CASE Reconnect
  BY <1>1, <1>2, <1>6, ReconnectSynced, ReconnectOrdered DEF SInv
<1>7. CASE ReconnectFails
  BY <1>1, <1>2, <1>7, QuietSynced, ReconnectFailsOrdered DEF SInv
<1> QED
  BY <1>3, <1>4, <1>5, <1>6, <1>7 DEF ListenerStep

LEMMA EnvironmentSynced ==
    ASSUME IInv, IInv', SInv, Environment
    PROVE  SInv'
<1>1. Synced /\ Tasks /\ Phases /\ Mapped /\ ServerNext /\ UNCHANGED clientVars
  BY DEF SInv, Environment
<1>2. Mapped'
  BY <1>1 DEF clientVars, Mapped
<1>3. Synced'
  BY <1>1, ServeSynced, PublishSynced, SkipSynced, LoseSynced DEF ServerNext
<1> QED
  BY <1>1, <1>2, <1>3, ExchangeOrdered DEF SInv

LEMMA NextSynced ==
    ASSUME IInv, IInv', SInv, Disciplined, [Next]_vars
    PROVE  SInv'
<1>1. ~OkCarriesTickers
  BY DEF Disciplined
<1>2. CASE UNCHANGED vars
  <2>1. Synced /\ Tasks /\ Phases /\ Mapped
    BY DEF SInv
  <2>2. Mapped'
    BY <1>2, <2>1 DEF vars, clientVars, Mapped
  <2> QED
    BY <1>2, <2>1, <2>2, QuietSynced, AbortOrdered DEF SInv
<1>3. CASE Share \/ Sweep
  BY <1>3, ContinueSynced DEF Continue
<1>4. CASE Recover
  BY <1>1, <1>4, ListenerSynced
<1>5. CASE ~OpRuns /\ ~SweepRuns /\ (Call \/ Continue \/ ListenerStep \/ Environment \/ Stays)
  BY <1>1, <1>2, <1>5, CallSynced, ContinueSynced, ListenerSynced, EnvironmentSynced DEF Stays
<1> QED
  BY <1>2, <1>3, <1>4, <1>5 DEF Next

LEMMA SyncInvariance ==
    ASSUME Disciplined
    PROVE  Spec => []SInv
<1>1. Init => SInv
  BY InitSynced
<1>2. IInv /\ IInv' /\ SInv /\ [Next]_vars => SInv'
  BY NextSynced
<1> QED
  BY <1>1, <1>2, Invariance, PTL DEF Spec

-----------------------------------------------------------------------------
(* The theorems.                                                           *)

\* When all is quiet no id is pending, and every kept channel has its sid.
LEMMA NothingPending ==
    ASSUME IInv, SInv, Quiet
    PROVE  /\ DOMAIN pending = {} /\ Len(requests) = 0 /\ Len(replies) = 0 /\ Wire
           /\ \A c \in DOMAIN channels : channels[c].sid # NoSid
<1>1. /\ link = "open" /\ Len(requests) = 0 /\ Len(replies) = 0 /\ DOMAIN resub = {}
      /\ listener = "reading" /\ Wire /\ recovery.left = {}
  BY EmptyElements DEF Quiet, SInv, Synced, IInv, Indexed, Turns
<1>2. ASSUME NEW id \in DOMAIN pending PROVE FALSE
  <2>1. ~Asked(id)
    BY <1>1 DEF Asked
  <2>2. ~Told(id)
    BY <1>1 DEF Told
  <2> QED
    BY <1>1, <2>1, <2>2 DEF Wire, Wanted
<1>3. DOMAIN pending = {}
  BY <1>2
<1> QED
  BY <1>1, <1>3 DEF Wire, Placed, IsPending, Waiting

\* For a program that obeys the rules, what the exchange serves and what the client
\* keeps are the same whenever all is quiet: for any channels and markets, and any
\* numbers of calls, updates, losses, refusals and resubscriptions, no market is
\* forgotten on the way and nothing given up still runs (add_market, add_markets,
\* remove_market, unsubscribe_all, resubscribe_channel, _recover_subscriptions and
\* the "subscribed" branch of _handle_incoming_message).
THEOREM ServedAsKept ==
    ASSUME Disciplined
    PROVE  Spec => []InSync
<1>1. ASSUME IInv, SInv PROVE InSync
  <2>1. SUFFICES ASSUME Quiet, NEW c \in Channels PROVE Served(c) = StateOf(c).markets
    BY DEF InSync
  <2>2. /\ TypeOK /\ SidMapInverse /\ Known /\ link = "open" /\ Wire
        /\ Len(requests) = 0 /\ Len(replies) = 0
        /\ \A d \in DOMAIN channels : channels[d].sid # NoSid
    <3>1. /\ Wire /\ Len(requests) = 0 /\ Len(replies) = 0
          /\ \A d \in DOMAIN channels : channels[d].sid # NoSid
      BY <1>1, <2>1, NothingPending
    <3>2. TypeOK /\ SidMapInverse /\ Known /\ link = "open"
      BY <1>1, <2>1 DEF IInv, Indexed, Quiet
    <3> QED
      BY <3>1, <3>2
  <2>3. CASE c \in DOMAIN channels
    <3>1. PICK s : s = channels[c].sid
      OBVIOUS
    <3>2. /\ s \in DOMAIN sidMap /\ sidMap[s] = c /\ s \in DOMAIN subs
          /\ {t \in DOMAIN subs : subs[t].channel = c} = {s}
      BY <2>2, <2>3, <3>1 DEF SidMapInverse, Known
    <3>3. Served(c) = subs[s].markets
      BY <3>2 DEF Served
    <3>4. subs[s].markets \subseteq Markets /\ channels[c].markets \subseteq Markets
      BY <2>2, <2>3, <3>2 DEF TypeOK, ServerTypeOK, Subscription, ChannelState
    <3>5. \A m \in Markets : m \in channels[c].markets <=> m \in subs[s].markets
      BY <2>2, <3>2 DEF Wire, Followed, WillServe
    <3> QED
      BY <2>3, <3>3, <3>4, <3>5 DEF StateOf
  <2>4. CASE c \notin DOMAIN channels
    <3>1. {t \in DOMAIN subs : subs[t].channel = c} = {}
      BY <2>2, <2>4 DEF Wire, Owned, SidMapInverse, Known
    <3>2. Served(c) = {}
      BY <3>1 DEF Served
    <3> QED
      BY <2>4, <3>2 DEF StateOf, Fresh
  <2> QED
    BY <2>3, <2>4
<1> QED
  BY <1>1, Invariance, SyncInvariance, PTL

\* For such a program, no id is left waiting for an answer once all is quiet:
\* every subscribe was confirmed on the connection it was sent on, or forgotten
\* with it (_pending_init_subs).
THEOREM NoIdIsLeftWaiting ==
    ASSUME Disciplined
    PROVE  Spec => []PendingAnswerable
<1>1. ASSUME IInv, SInv PROVE PendingAnswerable
  <2>1. SUFFICES ASSUME Quiet PROVE pending = <<>>
    BY DEF PendingAnswerable
  <2>2. DOMAIN pending = {}
    BY <1>1, <2>1, NothingPending
  <2>3. pending = [i \in DOMAIN pending |-> pending[i]]
    BY <1>1 DEF SInv, Mapped
  <2> QED
    BY <2>2, <2>3, EmptyMap
<1> QED
  BY <1>1, Invariance, SyncInvariance, PTL
====
