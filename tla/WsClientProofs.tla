---------------------------- MODULE WsClientProofs ----------------------------
(***************************************************************************)
(* Theorems about the WebSocket client over its connection, for any        *)
(* channels, markets, rules and numbers of losses.  The inductive          *)
(* invariant says which ids and sids can still come (Old), what the client *)
(* knows of the exchange's subscriptions (Known), what the replies on      *)
(* their way will tell it (Confirmed, Dropped), and where it stands in the *)
(* stream of each subscription (Streams).                                  *)
(***************************************************************************)
EXTENDS WsClient, FiniteSetTheorems, TLAPS

\* What the client does from one turn to the next.
Turns ==
    /\ op = NoOp \/ op.markets # {}
    /\ listener \in {"sleeping", "recovering"} => DOMAIN sidMap = {}
    /\ listener # "recovering" => recovery.left = {}
    /\ recovery.left \subseteq DOMAIN channels
    /\ link = "none" => DOMAIN sidMap = {} /\ replies = <<>>

\* The positions of the confirmations, and of the messages of subscription s that
\* carry a number.
Confirms(i) == i \in 1 .. Len(replies) /\ replies[i].type = "subscribed"
Carries(i, s) ==
    /\ i \in 1 .. Len(replies)
    /\ replies[i].type \in {"ok", "data"}
    /\ replies[i].sid = s /\ replies[i].seq # NoSeq

\* What is in use was given out before.
Old ==
    /\ \A s \in DOMAIN sidMap : s < nextSid
    /\ \A s \in DOMAIN subs : s < nextSid
    /\ \A i \in 1 .. Len(replies) : replies[i].type # "error" => replies[i].sid < nextSid
    /\ \A i \in 1 .. Len(requests) : requests[i].cmd = "unsubscribe" => requests[i].sid < nextSid
    /\ \A i \in 1 .. Len(requests) : requests[i].cmd = "subscribe" => requests[i].id < nextId
    /\ \A i \in 1 .. Len(replies) : Confirms(i) => replies[i].id < nextId
    /\ \A id \in DOMAIN pending : id < nextId

\* The sids that the client knows, while it is connected.
Known ==
    /\ link # "open" => DOMAIN subs = {}
    /\ link = "open" =>
           \A s \in DOMAIN sidMap : s \in DOMAIN subs /\ subs[s].channel = sidMap[s]
    /\ \A s, t \in DOMAIN subs : subs[s].channel = subs[t].channel => s = t

\* A confirmation on its way tells of a sid that the client does not know yet, for a
\* channel that has none.
Confirmed ==
    /\ \A i \in 1 .. Len(requests) :
           requests[i].cmd = "subscribe" /\ requests[i].id \in DOMAIN pending
               => pending[requests[i].id] = requests[i].channel
    /\ \A i \in 1 .. Len(replies) : Confirms(i) =>
           /\ replies[i].sid \notin DOMAIN sidMap
           /\ link = "open" =>
                  /\ replies[i].sid \in DOMAIN subs
                  /\ replies[i].id \in DOMAIN pending
                         => pending[replies[i].id] = subs[replies[i].sid].channel
           /\ replies[i].id \in DOMAIN pending /\ pending[replies[i].id] \in DOMAIN channels
                  => channels[pending[replies[i].id]].sid = NoSid
    /\ \A i, j \in 1 .. Len(replies) : Confirms(i) /\ Confirms(j) /\ i # j =>
           /\ replies[i].sid # replies[j].sid
           /\ replies[i].id \in DOMAIN pending /\ replies[j].id \in DOMAIN pending
                  => pending[replies[i].id] # pending[replies[j].id]

\* What is being ended is not known, and not about to be.
Ended(sid) ==
    /\ sid \notin DOMAIN sidMap
    /\ \A j \in 1 .. Len(replies) : Confirms(j) => replies[j].sid # sid
Dropped ==
    /\ \A i \in 1 .. Len(requests) : requests[i].cmd = "unsubscribe" => Ended(requests[i].sid)
    /\ \A i \in 1 .. Len(replies) : replies[i].type = "unsubscribed" => Ended(replies[i].sid)

Indexed == TypeOK /\ Turns /\ Old /\ SidMapInverse /\ Known /\ Confirmed /\ Dropped

-----------------------------------------------------------------------------
(* The streams.                                                            *)

\* The next message of subscription s that arrives, if any was sent, is its first.
Starts(s) ==
    subs[s].first # NoSeq =>
        \E j \in 1 .. Len(replies) :
            /\ Carries(j, s) /\ replies[j].seq = subs[s].first
            /\ \A i \in 1 .. j - 1 : ~Carries(i, s)

\* What the exchange has sent of subscription s.
Sent(s) ==
    /\ subs[s].first <= subs[s].seq
    /\ \A k \in subs[s].skipped : k \in 1 .. subs[s].seq
    /\ \A i \in 1 .. Len(replies) :
           /\ Carries(i, s) => /\ subs[s].first # NoSeq
                               /\ subs[s].first <= replies[i].seq
                               /\ replies[i].seq <= subs[s].seq
                               /\ replies[i].seq \notin subs[s].skipped
           /\ replies[i].type = "data" /\ replies[i].sid = s
                  => replies[i].channel = subs[s].channel

\* Where the client stands, at number p, in subscription s.
Stands(s, p) ==
    /\ p <= subs[s].seq
    /\ p = NoSeq => Starts(s)
    /\ p # NoSeq => /\ subs[s].first # NoSeq /\ subs[s].first <= p
                    /\ \A k \in subs[s].skipped : k < subs[s].first \/ k > p

\* A channel without a sid has no number.
Unread == \A c \in DOMAIN channels : channels[c].sid = NoSid => channels[c].seq = NoSeq

Streams ==
    /\ Unread
    /\ \A s \in DOMAIN subs :
           /\ Sent(s)
           /\ s \in DOMAIN sidMap => Stands(s, channels[sidMap[s]].seq)
           /\ \A i \in 1 .. Len(replies) : Confirms(i) /\ replies[i].sid = s =>
                  /\ Stands(s, NoSeq)
                  /\ \A j \in 1 .. Len(replies) : Carries(j, s) => i < j

IInv == Indexed /\ Streams

-----------------------------------------------------------------------------
(* Sequences and maps.                                                     *)

LEMMA AppendElements ==
    ASSUME NEW S, NEW s \in Seq(S), NEW e \in S
    PROVE  /\ Append(s, e) \in Seq(S) /\ Len(Append(s, e)) = Len(s) + 1 /\ Len(s) \in Nat
           /\ \A i \in 1 .. Len(s) : Append(s, e)[i] = s[i]
           /\ Append(s, e)[Len(s) + 1] = e
OBVIOUS

LEMMA TailElements ==
    ASSUME NEW S, NEW s \in Seq(S), s # <<>>
    PROVE  /\ Tail(s) \in Seq(S) /\ Len(Tail(s)) = Len(s) - 1 /\ Len(s) \in Nat \ {0}
           /\ \A i \in 1 .. Len(Tail(s)) : Tail(s)[i] = s[i + 1]
           /\ Head(s) = s[1] /\ s[1] \in S
OBVIOUS

LEMMA PrefixElements ==
    ASSUME NEW S, NEW s \in Seq(S), NEW n \in 0 .. Len(s)
    PROVE  /\ SubSeq(s, 1, n) \in Seq(S) /\ Len(SubSeq(s, 1, n)) = n /\ Len(s) \in Nat
           /\ \A i \in 1 .. n : SubSeq(s, 1, n)[i] = s[i]
OBVIOUS

LEMMA Elements ==
    ASSUME NEW S, NEW s \in Seq(S)
    PROVE  Len(s) \in Nat /\ \A i \in 1 .. Len(s) : s[i] \in S
OBVIOUS

LEMMA EmptyElements ==
    ASSUME NEW S
    PROVE  <<>> \in Seq(S) /\ Len(<<>>) = 0 /\ DOMAIN <<>> = {}
OBVIOUS

LEMMA PutApplies ==
    ASSUME NEW f, NEW k, NEW v
    PROVE  /\ DOMAIN Put(f, k, v) = DOMAIN f \cup {k}
           /\ Put(f, k, v)[k] = v
           /\ \A x \in DOMAIN f : x # k => Put(f, k, v)[x] = f[x]
BY DEF Put

LEMMA DropApplies ==
    ASSUME NEW f, NEW ks
    PROVE  /\ DOMAIN Drop(f, ks) = DOMAIN f \ ks
           /\ \A x \in DOMAIN f \ ks : Drop(f, ks)[x] = f[x]
BY DEF Drop, Restrict

-----------------------------------------------------------------------------
(* A step that tells neither side of a new subscription.                   *)

\* The client forgets of its indexes, and learns nothing.
Forgets ==
    /\ DOMAIN sidMap' \subseteq DOMAIN sidMap
    /\ \A s \in DOMAIN sidMap' : sidMap'[s] = sidMap[s]
    /\ \A c \in DOMAIN channels' :
           channels'[c].sid # NoSid => c \in DOMAIN channels /\ channels'[c].sid = channels[c].sid

\* What is on its way was, or is sent now.
Sends ==
    /\ nextId' \in Nat /\ nextId <= nextId'
    /\ \A id \in DOMAIN pending' :
           \/ id \in DOMAIN pending /\ pending'[id] = pending[id]
           \/ id = nextId /\ nextId' = nextId + 1
    /\ \A i \in 1 .. Len(requests') :
           \/ \E j \in 1 .. Len(requests) : requests'[i] = requests[j]
           \/ /\ requests'[i].cmd = "subscribe" =>
                     /\ requests'[i].id = nextId /\ nextId' = nextId + 1
                     /\ requests'[i].id \in DOMAIN pending'
                            => pending'[requests'[i].id] = requests'[i].channel
              /\ requests'[i].cmd = "unsubscribe" =>
                     requests'[i].sid \in DOMAIN sidMap \ DOMAIN sidMap'

\* Replies arrive or are lost; of the new ones none is about a sid's beginning or end.
Reads ==
    \E k \in Nat : \A i \in 1 .. Len(replies') :
        \/ i + k \in 1 .. Len(replies) /\ replies'[i] = replies[i + k]
        \/ /\ i + k = Len(replies) + 1
           /\ replies'[i].type \in {"ok", "data", "error"}
           /\ replies'[i].type # "error" => replies'[i].sid < nextSid

\* The exchange keeps its subscriptions, or the connection ends.
Holds ==
    /\ nextSid' = nextSid
    /\ link' = "open" =>
           /\ link = "open" /\ DOMAIN subs' = DOMAIN subs
           /\ \A s \in DOMAIN subs : subs'[s].channel = subs[s].channel
    /\ link' # "open" => DOMAIN subs' = {}

LEMMA IdsAreOld ==
    ASSUME TypeOK, Old, Forgets, Sends, Reads, Holds
    PROVE  Old'
<1>1. /\ nextId \in Nat /\ nextId' \in Nat /\ nextId <= nextId' /\ nextSid' = nextSid
      /\ Len(replies) \in Nat
  BY Elements DEF TypeOK, ServerTypeOK, Sends, Holds
<1>2. \A s \in DOMAIN sidMap' : s < nextSid'
  BY <1>1 DEF Old, Forgets
<1>3. \A s \in DOMAIN subs' : s < nextSid'
  BY <1>1 DEF Old, Holds
<1>4. ASSUME NEW i \in 1 .. Len(replies')
      PROVE  /\ replies'[i].type # "error" => replies'[i].sid < nextSid'
             /\ replies'[i].type = "subscribed" => replies'[i].id < nextId'
  <2>1. CASE \E j \in 1 .. Len(replies) : replies'[i] = replies[j]
    <3>1. PICK j \in 1 .. Len(replies) : replies'[i] = replies[j]
      BY <2>1
    <3>2. replies[j].type = "subscribed" => replies[j].id < nextId /\ replies[j].id \in Nat
      <4>1. replies[j] \in Reply
        BY Elements DEF TypeOK, ServerTypeOK
      <4> QED
        BY <4>1 DEF Old, Confirms, Reply
    <3> QED
      BY <1>1, <3>1, <3>2 DEF Old
  <2>2. CASE ~ \E j \in 1 .. Len(replies) : replies'[i] = replies[j]
    BY <1>1, <2>2 DEF Reads
  <2> QED
    BY <2>1, <2>2
<1>5. ASSUME NEW i \in 1 .. Len(requests')
      PROVE  /\ requests'[i].cmd = "unsubscribe" => requests'[i].sid < nextSid'
             /\ requests'[i].cmd = "subscribe" => requests'[i].id < nextId'
  <2>1. CASE \E j \in 1 .. Len(requests) : requests'[i] = requests[j]
    <3>1. PICK j \in 1 .. Len(requests) : requests'[i] = requests[j]
      BY <2>1
    <3>2. requests[j].cmd = "subscribe" => requests[j].id < nextId /\ requests[j].id \in Nat
      <4>1. requests[j] \in Request
        BY Elements DEF TypeOK, ServerTypeOK
      <4> QED
        BY <4>1 DEF Old, Request
    <3> QED
      BY <1>1, <3>1, <3>2 DEF Old
  <2>2. CASE ~ \E j \in 1 .. Len(requests) : requests'[i] = requests[j]
    BY <1>1, <2>2 DEF Sends, Old
  <2> QED
    BY <2>1, <2>2
<1>6. \A id \in DOMAIN pending' : id < nextId'
  <2>1. DOMAIN pending \subseteq Nat
    BY DEF TypeOK
  <2> QED
    BY <1>1, <2>1 DEF Sends, Old
<1> QED
  BY <1>2, <1>3, <1>4, <1>5, <1>6 DEF Old, Confirms

LEMMA ConfirmedKept ==
    ASSUME TypeOK, Old, Confirmed, Forgets, Sends, Reads, Holds
    PROVE  Confirmed'
<1>1. /\ nextId \in Nat /\ Len(replies) \in Nat
      /\ \A i \in 1 .. Len(replies) : Confirms(i) => replies[i].id \in Nat /\ replies[i].id < nextId
  <2>1. ASSUME NEW i \in 1 .. Len(replies), Confirms(i) PROVE replies[i].id \in Nat
    <3>1. replies[i] \in Reply
      BY Elements DEF TypeOK, ServerTypeOK
    <3> QED
      BY <2>1, <3>1 DEF Confirms, Reply
  <2> QED
    BY <2>1, Elements DEF TypeOK, ServerTypeOK, Old
<1>2. PICK k \in Nat : \A i \in 1 .. Len(replies') :
          \/ i + k \in 1 .. Len(replies) /\ replies'[i] = replies[i + k]
          \/ replies'[i].type \in {"ok", "data", "error"}
  BY DEF Reads
<1>3. \A i \in 1 .. Len(replies') : Confirms(i)' =>
          i + k \in 1 .. Len(replies) /\ replies'[i] = replies[i + k] /\ Confirms(i + k)
  BY <1>2 DEF Confirms
<1>4. \A id \in DOMAIN pending' : id < nextId => id \in DOMAIN pending /\ pending'[id] = pending[id]
  BY <1>1 DEF Sends
<1>5. ASSUME NEW i \in 1 .. Len(requests'), requests'[i].cmd = "subscribe",
             requests'[i].id \in DOMAIN pending'
      PROVE  pending'[requests'[i].id] = requests'[i].channel
  <2>1. CASE \E j \in 1 .. Len(requests) : requests'[i] = requests[j]
    <3>1. PICK j \in 1 .. Len(requests) : requests'[i] = requests[j]
      BY <2>1
    <3>2. requests[j].id < nextId
      BY <1>5, <3>1 DEF Old
    <3> QED
      BY <1>4, <1>5, <3>1, <3>2 DEF Confirmed
  <2>2. CASE ~ \E j \in 1 .. Len(requests) : requests'[i] = requests[j]
    BY <1>5, <2>2 DEF Sends
  <2> QED
    BY <2>1, <2>2
<1>6. ASSUME NEW i \in 1 .. Len(replies'), Confirms(i)'
      PROVE  /\ replies'[i].sid \notin DOMAIN sidMap'
             /\ link' = "open" =>
                    /\ replies'[i].sid \in DOMAIN subs'
                    /\ replies'[i].id \in DOMAIN pending'
                           => pending'[replies'[i].id] = subs'[replies'[i].sid].channel
             /\ replies'[i].id \in DOMAIN pending' /\ pending'[replies'[i].id] \in DOMAIN channels'
                    => channels'[pending'[replies'[i].id]].sid = NoSid
  <2>1. i + k \in 1 .. Len(replies) /\ replies'[i] = replies[i + k] /\ Confirms(i + k)
    BY <1>3, <1>6
  <2>2. replies[i + k].id \in DOMAIN pending' =>
            /\ replies[i + k].id \in DOMAIN pending
            /\ pending'[replies[i + k].id] = pending[replies[i + k].id]
    BY <1>1, <1>4, <2>1
  <2>3. replies[i + k].sid \notin DOMAIN sidMap
    BY <2>1 DEF Confirmed
  <2>4. link' = "open" =>
            /\ replies[i + k].sid \in DOMAIN subs'
            /\ replies[i + k].id \in DOMAIN pending'
                   => pending'[replies[i + k].id] = subs'[replies[i + k].sid].channel
    BY <2>1, <2>2 DEF Confirmed, Holds
  <2>5. ASSUME replies[i + k].id \in DOMAIN pending', pending'[replies[i + k].id] \in DOMAIN channels'
        PROVE  channels'[pending'[replies[i + k].id]].sid = NoSid
    BY <2>1, <2>2, <2>5 DEF Confirmed, Forgets
  <2> QED
    BY <2>1, <2>3, <2>4, <2>5 DEF Forgets
<1>7. ASSUME NEW i \in 1 .. Len(replies'), NEW j \in 1 .. Len(replies'),
             Confirms(i)', Confirms(j)', i # j
      PROVE  /\ replies'[i].sid # replies'[j].sid
             /\ replies'[i].id \in DOMAIN pending' /\ replies'[j].id \in DOMAIN pending'
                    => pending'[replies'[i].id] # pending'[replies'[j].id]
  <2>1. /\ i + k \in 1 .. Len(replies) /\ replies'[i] = replies[i + k] /\ Confirms(i + k)
        /\ j + k \in 1 .. Len(replies) /\ replies'[j] = replies[j + k] /\ Confirms(j + k)
    BY <1>3, <1>7
  <2>2. i + k # j + k
    BY <1>7
  <2>3. /\ replies[i + k].sid # replies[j + k].sid
        /\ replies[i + k].id \in DOMAIN pending /\ replies[j + k].id \in DOMAIN pending
               => pending[replies[i + k].id] # pending[replies[j + k].id]
    BY <2>1, <2>2 DEF Confirmed
  <2> QED
    BY <1>1, <1>4, <2>1, <2>3
<1> QED
  BY <1>5, <1>6, <1>7 DEF Confirmed

LEMMA DroppedKept ==
    ASSUME TypeOK, Old, Confirmed, Dropped, Forgets, Sends, Reads, Holds
    PROVE  Dropped'
<1>1. ASSUME NEW j \in 1 .. Len(replies'), replies'[j].type \in {"subscribed", "unsubscribed"}
      PROVE  \E l \in 1 .. Len(replies) : replies'[j] = replies[l]
  BY <1>1 DEF Reads
<1>2. ASSUME NEW j \in 1 .. Len(replies'), Confirms(j)'
      PROVE  \E l \in 1 .. Len(replies) : replies'[j] = replies[l] /\ Confirms(l)
  BY <1>1, <1>2 DEF Confirms
<1>3. ASSUME NEW sid, Ended(sid) PROVE Ended(sid)'
  BY <1>2, <1>3 DEF Ended, Forgets
<1>4. ASSUME NEW i \in 1 .. Len(requests'), requests'[i].cmd = "unsubscribe"
      PROVE  Ended(requests[i].sid)'
  <2>1. CASE \E j \in 1 .. Len(requests) : requests'[i] = requests[j]
    <3>1. PICK j \in 1 .. Len(requests) : requests'[i] = requests[j]
      BY <2>1
    <3>2. Ended(requests[j].sid)
      BY <1>4, <3>1 DEF Dropped
    <3>3. PICK sid : sid = requests[j].sid
      OBVIOUS
    <3>4. Ended(sid)'
      BY <1>3, <3>2, <3>3
    <3> QED
      BY <3>1, <3>3, <3>4 DEF Ended
  <2>2. CASE ~ \E j \in 1 .. Len(requests) : requests'[i] = requests[j]
    <3>1. requests'[i].sid \in DOMAIN sidMap /\ requests'[i].sid \notin DOMAIN sidMap'
      BY <1>4, <2>2 DEF Sends
    <3>2. \A j \in 1 .. Len(replies) : Confirms(j) => replies[j].sid \notin DOMAIN sidMap
      BY DEF Confirmed
    <3> QED
      BY <1>2, <3>1, <3>2 DEF Ended
  <2> QED
    BY <2>1, <2>2
<1>5. ASSUME NEW i \in 1 .. Len(replies'), replies'[i].type = "unsubscribed"
      PROVE  Ended(replies[i].sid)'
  <2>1. PICK l \in 1 .. Len(replies) : replies'[i] = replies[l]
    BY <1>1, <1>5
  <2>2. Ended(replies[l].sid)
    BY <1>5, <2>1 DEF Dropped
  <2>3. PICK sid : sid = replies[l].sid
    OBVIOUS
  <2>4. Ended(sid)'
    BY <1>3, <2>2, <2>3
  <2> QED
    BY <2>1, <2>3, <2>4 DEF Ended
<1> QED
  BY <1>4, <1>5 DEF Dropped

LEMMA KnownKept ==
    ASSUME Known, Forgets, Holds
    PROVE  Known'
<1>1. CASE link' = "open"
  BY <1>1 DEF Known, Forgets, Holds
<1>2. CASE link' # "open"
  BY <1>2 DEF Known, Holds
<1> QED
  BY <1>1, <1>2

LEMMA IndexesKept ==
    ASSUME Indexed, Forgets, Sends, Reads, Holds
    PROVE  Old' /\ Known' /\ Confirmed' /\ Dropped'
BY IdsAreOld, ConfirmedKept, DroppedKept, KnownKept DEF Indexed

-----------------------------------------------------------------------------
(* Sending.                                                                *)

WireTyped ==
    /\ requests \in Seq(Request)
    /\ DOMAIN pending \subseteq Nat /\ \A i \in DOMAIN pending : pending[i] \in Channels
    /\ nextId \in Nat

LEMMA SentElements ==
    ASSUME requests \in Seq(Request), NEW r \in Request, Send(r)
    PROVE  /\ requests' \in Seq(Request)
           /\ \A i \in 1 .. Len(requests') :
                  (\E j \in 1 .. Len(requests) : requests'[i] = requests[j]) \/ requests'[i] = r
<1>1. CASE link = "open"
  <2>1. requests' = Append(requests, r)
    BY <1>1 DEF Send
  <2>2. \A i \in 1 .. Len(requests') : i \in 1 .. Len(requests) \/ i = Len(requests) + 1
    BY <2>1, AppendElements
  <2> QED
    BY <2>1, <2>2, AppendElements
<1>2. CASE link # "open"
  BY <1>2 DEF Send
<1> QED
  BY <1>1, <1>2

LEMMA NothingSent ==
    ASSUME TypeOK, NoSend
    PROVE  Sends /\ WireTyped'
<1>1. nextId \in Nat /\ nextId' = nextId /\ pending' = pending /\ requests' = requests
  BY DEF TypeOK, NoSend
<1> QED
  BY <1>1 DEF Sends, WireTyped, TypeOK, ServerTypeOK

LEMMA SubscribeSent ==
    ASSUME TypeOK, NEW c \in Channels, NEW markets \in SUBSET Markets, SendSubscribe(c, markets)
    PROVE  Sends /\ WireTyped'
<1> DEFINE r == [cmd |-> "subscribe", id |-> nextId, channel |-> c, markets |-> markets]
<1>1. nextId \in Nat /\ nextId' = nextId + 1 /\ Send(r)
  BY DEF TypeOK, SendSubscribe
<1>2. r \in Request /\ r.cmd = "subscribe" /\ r.id = nextId /\ r.channel = c
  BY <1>1 DEF Request
<1>3. /\ DOMAIN pending' = DOMAIN pending \cup {nextId} /\ pending'[nextId] = c
      /\ \A id \in DOMAIN pending : id # nextId => pending'[id] = pending[id]
  BY DEF SendSubscribe, Put
<1> HIDE DEF r
<1>4. /\ requests' \in Seq(Request)
      /\ \A i \in 1 .. Len(requests') :
             (\E j \in 1 .. Len(requests) : requests'[i] = requests[j]) \/ requests'[i] = r
  BY <1>1, <1>2, SentElements DEF TypeOK, ServerTypeOK
<1>5. Sends
  BY <1>1, <1>2, <1>3, <1>4 DEF Sends
<1>6. WireTyped'
  BY <1>1, <1>3, <1>4 DEF WireTyped, TypeOK
<1> QED
  BY <1>5, <1>6

LEMMA UpdateSent ==
    ASSUME TypeOK, NEW sid \in Sids, NEW markets \in SUBSET Markets,
           NEW action \in {"add_markets", "delete_markets", "get_snapshot"},
           Send([cmd |-> "update_subscription", sid |-> sid, markets |-> markets,
                 action |-> action]),
           nextId' = nextId, DOMAIN pending' \subseteq DOMAIN pending,
           \A id \in DOMAIN pending' : pending'[id] = pending[id]
    PROVE  Sends /\ WireTyped'
<1> DEFINE r == [cmd |-> "update_subscription", sid |-> sid, markets |-> markets, action |-> action]
<1>1. nextId \in Nat /\ r \in Request /\ r.cmd = "update_subscription" /\ Send(r)
  BY DEF TypeOK, Request
<1> HIDE DEF r
<1>2. /\ requests' \in Seq(Request)
      /\ \A i \in 1 .. Len(requests') :
             (\E j \in 1 .. Len(requests) : requests'[i] = requests[j]) \/ requests'[i] = r
  BY <1>1, SentElements DEF TypeOK, ServerTypeOK
<1>3. Sends
  BY <1>1, <1>2 DEF Sends
<1>4. WireTyped'
  BY <1>1, <1>2 DEF WireTyped, TypeOK
<1> QED
  BY <1>3, <1>4

LEMMA UnsubscribeSent ==
    ASSUME TypeOK, NEW sid \in DOMAIN sidMap \ DOMAIN sidMap', SendUnsubscribe(sid)
    PROVE  Sends /\ WireTyped'
<1> DEFINE r == [cmd |-> "unsubscribe", sid |-> sid]
<1>1. /\ nextId \in Nat /\ nextId' = nextId /\ pending' = pending /\ Send(r)
      /\ r \in Request /\ r.cmd = "unsubscribe" /\ r.sid = sid
  BY DEF TypeOK, Request, SendUnsubscribe
<1> HIDE DEF r
<1>2. /\ requests' \in Seq(Request)
      /\ \A i \in 1 .. Len(requests') :
             (\E j \in 1 .. Len(requests) : requests'[i] = requests[j]) \/ requests'[i] = r
  BY <1>1, SentElements DEF TypeOK, ServerTypeOK
<1>3. Sends
  BY <1>1, <1>2 DEF Sends
<1>4. WireTyped'
  BY <1>1, <1>2 DEF WireTyped, TypeOK
<1> QED
  BY <1>3, <1>4

\* An update outside of HandleSubscribed.
LEMMA SendUpdateSent ==
    ASSUME TypeOK, NEW sid \in Sids, NEW markets \in SUBSET Markets,
           NEW action \in {"add_markets", "delete_markets", "get_snapshot"},
           SendUpdate(sid, markets, action)
    PROVE  Sends /\ WireTyped'
<1>1. nextId' = nextId /\ pending' = pending
  BY DEF SendUpdate
<1> QED
  BY <1>1, UpdateSent DEF SendUpdate

-----------------------------------------------------------------------------
(* The indexes.                                                            *)

ChannelsTyped ==
    /\ DOMAIN channels \subseteq Channels
    /\ \A c \in DOMAIN channels : channels[c] \in ChannelState
    /\ DOMAIN sidMap \subseteq Sids /\ \A s \in DOMAIN sidMap : sidMap[s] \in Channels

\* The sids stay as they are.
SameSids ==
    /\ sidMap' = sidMap
    /\ DOMAIN channels \subseteq DOMAIN channels'
    /\ \A c \in DOMAIN channels : channels'[c].sid = channels[c].sid
    /\ \A c \in DOMAIN channels' \ DOMAIN channels : channels'[c].sid = NoSid

\* The numbers stay as they are.
SameSeqs ==
    /\ \A c \in DOMAIN channels \cap DOMAIN channels' : channels'[c].seq = channels[c].seq
    /\ \A c \in DOMAIN channels' \ DOMAIN channels : channels'[c].seq = NoSeq

\* In the subscriptions that the client still knows it stands where it stood.
Positions ==
    /\ \A s \in DOMAIN sidMap' : channels'[sidMap'[s]].seq = channels[sidMap[s]].seq
    /\ Unread => Unread'

LEMMA SameSidsKeep ==
    ASSUME SidMapInverse, SameSids
    PROVE  Forgets /\ SidMapInverse' /\ (SameSeqs => Positions)
<1>1. Forgets /\ SidMapInverse'
  BY DEF SidMapInverse, SameSids, Forgets
<1>2. ASSUME SameSeqs PROVE Positions
  BY <1>2 DEF SidMapInverse, SameSids, SameSeqs, Positions, Unread
<1> QED
  BY <1>1, <1>2

\* Channel c gives up its sid.
GivesUp(c) ==
    /\ c \in DOMAIN channels /\ channels[c].sid # NoSid
    /\ sidMap' = Drop(sidMap, {channels[c].sid})
    /\ DOMAIN channels' \subseteq DOMAIN channels
    /\ DOMAIN channels \ {c} \subseteq DOMAIN channels'
    /\ \A d \in DOMAIN channels \ {c} :
           channels'[d].sid = channels[d].sid /\ channels'[d].seq = channels[d].seq
    /\ c \in DOMAIN channels' => channels'[c].sid = NoSid /\ channels'[c].seq = NoSeq

LEMMA GivesUpKeeps ==
    ASSUME SidMapInverse, NEW c, GivesUp(c)
    PROVE  /\ Forgets /\ SidMapInverse' /\ Positions
           /\ channels[c].sid \in DOMAIN sidMap \ DOMAIN sidMap'
<1>1. /\ DOMAIN sidMap' = DOMAIN sidMap \ {channels[c].sid}
      /\ \A s \in DOMAIN sidMap' : sidMap'[s] = sidMap[s]
  BY DEF GivesUp, Drop, Restrict
<1>2. channels[c].sid \in DOMAIN sidMap /\ sidMap[channels[c].sid] = c
  BY DEF SidMapInverse, GivesUp
<1>3. Forgets
  BY <1>1 DEF GivesUp, Forgets
<1>4. ASSUME NEW s \in DOMAIN sidMap'
      PROVE  sidMap'[s] \in DOMAIN channels' /\ channels'[sidMap'[s]].sid = s
  <2>1. s \in DOMAIN sidMap /\ s # channels[c].sid /\ sidMap'[s] = sidMap[s]
    BY <1>1
  <2>2. sidMap[s] \in DOMAIN channels /\ channels[sidMap[s]].sid = s
    BY <2>1 DEF SidMapInverse
  <2>3. sidMap[s] \in DOMAIN channels \ {c}
    BY <2>1, <2>2
  <2> QED
    BY <2>1, <2>2, <2>3 DEF GivesUp
<1>5. ASSUME NEW d \in DOMAIN channels', channels'[d].sid # NoSid
      PROVE  channels'[d].sid \in DOMAIN sidMap' /\ sidMap'[channels'[d].sid] = d
  <2>1. d \in DOMAIN channels \ {c} /\ channels'[d].sid = channels[d].sid
    BY <1>5 DEF GivesUp
  <2>2. channels[d].sid \in DOMAIN sidMap /\ sidMap[channels[d].sid] = d
    BY <1>5, <2>1 DEF SidMapInverse
  <2>3. channels[d].sid # channels[c].sid
    BY <1>2, <2>1, <2>2
  <2> QED
    BY <1>1, <2>1, <2>2, <2>3
<1>6. Positions
  <2>1. ASSUME NEW s \in DOMAIN sidMap'
        PROVE  channels'[sidMap'[s]].seq = channels[sidMap[s]].seq
    <3>1. s \in DOMAIN sidMap /\ s # channels[c].sid /\ sidMap'[s] = sidMap[s]
      BY <1>1
    <3>2. sidMap[s] \in DOMAIN channels \ {c}
      BY <3>1 DEF SidMapInverse
    <3> QED
      BY <3>1, <3>2 DEF GivesUp
  <2>2. Unread => Unread'
    BY DEF GivesUp, Unread
  <2> QED
    BY <2>1, <2>2 DEF Positions
<1> QED
  BY <1>1, <1>2, <1>3, <1>4, <1>5, <1>6 DEF SidMapInverse

LEMMA LossKeeps ==
    ASSUME TypeOK, NEW chs, HandleConnectionLoss(chs), DOMAIN chs = DOMAIN channels,
           \A c \in DOMAIN chs : chs[c] \in ChannelState
    PROVE  /\ Forgets /\ SidMapInverse' /\ ChannelsTyped'
           /\ DOMAIN channels' = DOMAIN channels
           /\ DOMAIN sidMap' = {} /\ DOMAIN pending' = {}
           /\ \A c \in DOMAIN channels' : channels'[c].seq = NoSeq
<1>1. DOMAIN sidMap' = {} /\ DOMAIN pending' = {}
  BY EmptyElements DEF HandleConnectionLoss
<1>2. /\ DOMAIN channels' = DOMAIN channels
      /\ \A c \in DOMAIN channels' : channels'[c] = [chs[c] EXCEPT !.sid = NoSid, !.seq = NoSeq]
  BY DEF HandleConnectionLoss, Forgotten
<1>3. \A c \in DOMAIN channels' :
          channels'[c] \in ChannelState /\ channels'[c].sid = NoSid /\ channels'[c].seq = NoSeq
  <2>1. ASSUME NEW c \in DOMAIN chs
        PROVE  channels'[c] \in ChannelState /\ channels'[c].sid = NoSid /\ channels'[c].seq = NoSeq
    <3>1. channels'[c] = [chs[c] EXCEPT !.sid = NoSid, !.seq = NoSeq] /\ chs[c] \in ChannelState
      BY <1>2
    <3>2. NoSid \in Nat /\ NoSeq \in Nat
      BY DEF NoSid, NoSeq
    <3> QED
      BY <3>1, <3>2 DEF ChannelState
  <2> QED
    BY <1>2, <2>1
<1> QED
  BY <1>1, <1>2, <1>3 DEF Forgets, SidMapInverse, ChannelsTyped, TypeOK

LEMMA StateOfTyped ==
    ASSUME TypeOK, NEW c \in Channels
    PROVE  /\ StateOf(c) \in ChannelState
           /\ StateOf(c).markets \subseteq Markets /\ StateOf(c).sid \in Nat
           /\ StateOf(c).sid # NoSid => c \in DOMAIN channels /\ StateOf(c).sid \in Sids
           /\ c \in DOMAIN channels => StateOf(c) = channels[c]
           /\ c \notin DOMAIN channels => StateOf(c) = Fresh
<1>1. Fresh \in ChannelState /\ Fresh.sid = NoSid
  BY DEF Fresh, ChannelState, NoSid, NoSeq
<1>2. StateOf(c) \in ChannelState
  BY <1>1 DEF StateOf, TypeOK
<1> QED
  BY <1>1, <1>2 DEF StateOf, ChannelState, Sids

\* A channel's state gets other markets; its sid and its number stay.
LEMMA PutKeeps ==
    ASSUME TypeOK, NEW c \in Channels, NEW state \in ChannelState,
           state.sid = StateOf(c).sid, state.seq = StateOf(c).seq,
           channels' = Put(channels, c, state), sidMap' = sidMap
    PROVE  SameSids /\ SameSeqs /\ ChannelsTyped'
<1>1. /\ DOMAIN channels' = DOMAIN channels \cup {c} /\ channels'[c] = state
      /\ \A d \in DOMAIN channels : d # c => channels'[d] = channels[d]
  BY DEF Put
<1>2. /\ c \in DOMAIN channels => state.sid = channels[c].sid /\ state.seq = channels[c].seq
      /\ c \notin DOMAIN channels => state.sid = NoSid /\ state.seq = NoSeq
  BY StateOfTyped DEF Fresh
<1> QED
  BY <1>1, <1>2 DEF SameSids, SameSeqs, ChannelsTyped, TypeOK

-----------------------------------------------------------------------------
(* The operations of the program.                                          *)

OpType == [name : {"none", "add_market", "add_markets", "remove_market"},
           markets : SUBSET Markets, left : SUBSET Channels, sentIn : Nat]
Task(o) == o \in OpType /\ (o = NoOp \/ o.markets # {})

\* What a step of the program does to the indexes and the wire.
Acts ==
    /\ Forgets /\ Sends /\ Positions
    /\ SidMapInverse' /\ WireTyped' /\ ChannelsTyped'
    /\ DOMAIN channels \subseteq DOMAIN channels' \/ DOMAIN sidMap # {}

LEMMA NoOpIsTask == NoOp \in OpType /\ Task(NoOp)
BY DEF Task, OpType, NoOp

LEMMA OperationGoesOn ==
    ASSUME TypeOK, NEW o, Task(o), NEW c, GoOn(o, c) \/ GoOnUnlessRaised(o, c)
    PROVE  Task(op')
<1>1. Task(Rest(o, c)) /\ Rest(o, c).sentIn \in Nat /\ session \in Nat
  <2>1. NoOp \in OpType /\ o \in OpType /\ session \in Nat
    BY NoOpIsTask DEF Task, TypeOK, ServerTypeOK
  <2>2. ASSUME o.markets # {}
        PROVE  Task([o EXCEPT !.left = @ \ {c}])
    BY <2>1, <2>2 DEF Task, OpType
  <2>3. Task(Rest(o, c))
    <3>1. CASE o = NoOp
      <4>1. o.left \subseteq {c}
        BY <3>1 DEF NoOp
      <4> QED
        BY <4>1, NoOpIsTask DEF Rest
    <3>2. CASE o # NoOp
      BY <2>2, <3>2, NoOpIsTask DEF Rest, Task
    <3> QED
      BY <3>1, <3>2
  <2> QED
    BY <2>1, <2>3 DEF Task, OpType
<1>2. ASSUME NEW n \in Nat, Rest(o, c) # NoOp PROVE Task([Rest(o, c) EXCEPT !.sentIn = n])
  BY <1>1, <1>2 DEF Task, OpType
<1>3. \/ op' = NoOp
      \/ Rest(o, c) # NoOp /\ \E n \in Nat : op' = [Rest(o, c) EXCEPT !.sentIn = n]
  BY <1>1 DEF GoOn, GoOnUnlessRaised
<1> QED
  BY <1>2, <1>3, NoOpIsTask

LEMMA PutActs ==
    ASSUME Indexed, NEW c \in Channels, NEW state \in ChannelState,
           state.sid = StateOf(c).sid, state.seq = StateOf(c).seq,
           channels' = Put(channels, c, state), sidMap' = sidMap,
           Sends, WireTyped'
    PROVE  Acts
<1>1. SameSids /\ SameSeqs /\ ChannelsTyped'
  BY PutKeeps DEF Indexed
<1>2. Forgets /\ SidMapInverse' /\ Positions
  BY <1>1, SameSidsKeep DEF Indexed
<1> QED
  BY <1>1, <1>2 DEF Acts, SameSids

LEMMA AddMarketActs ==
    ASSUME Indexed, NEW o, Task(o), NEW c \in Channels, NEW market \in Markets,
           AddMarket(o, c, market)
    PROVE  Acts /\ Task(op')
<1> DEFINE state == StateOf(c)
           added == [state EXCEPT !.markets = @ \cup {market}]
           collected == [added EXCEPT !.pending = @ \cup {market}]
<1>1. TypeOK /\ sidMap' = sidMap
  BY DEF Indexed, AddMarket
<1>2. /\ state \in ChannelState /\ added \in ChannelState /\ collected \in ChannelState
      /\ added.sid = state.sid /\ added.seq = state.seq
      /\ collected.sid = state.sid /\ collected.seq = state.seq
      /\ state.sid # NoSid => state.sid \in Sids
  BY <1>1, StateOfTyped DEF ChannelState
<1> HIDE DEF added, collected
<1>3. /\ GoOn(o, c) \/ GoOnUnlessRaised(o, c)
      /\ \E s \in {state, added, collected} : channels' = Put(channels, c, s)
      /\ \/ NoSend
         \/ state.sid # NoSid /\ SendUpdate(state.sid, {market}, "add_markets")
         \/ SendSubscribe(c, {market})
  BY DEF AddMarket, GoOn, added, collected
<1>4. Sends /\ WireTyped'
  BY <1>1, <1>2, <1>3, NothingSent, SendUpdateSent, SubscribeSent
<1>5. Acts
  BY <1>1, <1>2, <1>3, <1>4, PutActs
<1> QED
  BY <1>1, <1>3, <1>5, OperationGoesOn

LEMMA AddMarketsActs ==
    ASSUME Indexed, NEW o, Task(o), NEW c \in Channels, NEW markets \in SUBSET Markets,
           AddMarkets(o, c, markets)
    PROVE  Acts /\ Task(op')
<1> DEFINE state == StateOf(c)
           new == markets \ state.markets
           added == [state EXCEPT !.markets = @ \cup new]
<1>1. TypeOK /\ sidMap' = sidMap /\ channels' = Put(channels, c, added)
  BY DEF Indexed, AddMarkets
<1>2. /\ state \in ChannelState /\ added \in ChannelState /\ added.markets \in SUBSET Markets
      /\ added.sid = state.sid /\ added.seq = state.seq
      /\ state.sid # NoSid => state.sid \in Sids
      /\ new \in SUBSET Markets
  BY <1>1, StateOfTyped DEF ChannelState
<1> HIDE DEF added, new
<1>3. /\ GoOn(o, c) \/ GoOnUnlessRaised(o, c)
      /\ \/ NoSend
         \/ state.sid # NoSid /\ SendUpdate(state.sid, new, "add_markets")
         \/ SendSubscribe(c, added.markets)
  BY DEF AddMarkets, GoOn, added, new
<1>4. Sends /\ WireTyped'
  BY <1>1, <1>2, <1>3, NothingSent, SendUpdateSent, SubscribeSent
<1>5. Acts
  BY <1>1, <1>2, <1>4, PutActs
<1> QED
  BY <1>1, <1>3, <1>5, OperationGoesOn

LEMMA RemoveMarketActs ==
    ASSUME Indexed, NEW o, Task(o), NEW c \in Channels, NEW market \in Markets,
           RemoveMarket(o, c, market)
    PROVE  Acts /\ Task(op')
<1> DEFINE state == StateOf(c)
           removed == [state EXCEPT !.markets = @ \ {market}]
<1>1. /\ TypeOK /\ SidMapInverse
      /\ state \in ChannelState /\ removed \in ChannelState
      /\ removed.sid = state.sid /\ removed.seq = state.seq
      /\ state.sid # NoSid => state.sid \in Sids /\ c \in DOMAIN channels /\ state = channels[c]
  BY StateOfTyped DEF Indexed, ChannelState
<1> HIDE DEF removed
<1>2. GoOn(o, c) \/ GoOnUnlessRaised(o, c)
  BY DEF RemoveMarket
<1>3. ASSUME UNCHANGED <<channels, sidMap>>, GoOn(o, c) PROVE Acts
  <2>1. Sends /\ WireTyped'
    BY <1>1, <1>3, NothingSent DEF GoOn
  <2>2. SameSids /\ SameSeqs /\ ChannelsTyped'
    BY <1>1, <1>3 DEF SameSids, SameSeqs, ChannelsTyped, TypeOK
  <2> QED
    BY <1>1, <2>1, <2>2, SameSidsKeep DEF Acts, SameSids
<1>4. ASSUME channels' = Put(channels, c, removed), sidMap' = sidMap,
             GoOn(o, c) \/ (state.sid # NoSid /\ SendUpdate(state.sid, {market}, "delete_markets"))
      PROVE  Acts
  <2>1. Sends /\ WireTyped'
    BY <1>1, <1>4, NothingSent, SendUpdateSent DEF GoOn
  <2> QED
    BY <1>1, <1>4, <2>1, PutActs
<1>5. ASSUME state.sid # NoSid,
             channels' = Drop(channels, {c}),
             sidMap' = Drop(sidMap, {state.sid}),
             SendUnsubscribe(state.sid)
      PROVE  Acts
  <2>1. /\ DOMAIN channels' = DOMAIN channels \ {c}
        /\ \A d \in DOMAIN channels' : channels'[d] = channels[d]
        /\ DOMAIN sidMap' = DOMAIN sidMap \ {state.sid}
        /\ \A s \in DOMAIN sidMap' : sidMap'[s] = sidMap[s]
    BY <1>5 DEF Drop, Restrict
  <2>2. GivesUp(c)
    BY <1>1, <1>5, <2>1 DEF GivesUp
  <2>3. Forgets /\ SidMapInverse' /\ Positions /\ state.sid \in DOMAIN sidMap \ DOMAIN sidMap'
    BY <1>1, <1>5, <2>2, GivesUpKeeps
  <2>4. Sends /\ WireTyped'
    BY <1>1, <1>5, <2>3, UnsubscribeSent
  <2>5. ChannelsTyped'
    BY <1>1, <2>1 DEF ChannelsTyped, TypeOK
  <2> QED
    BY <2>3, <2>4, <2>5 DEF Acts
<1>6. Acts
  BY <1>3, <1>4, <1>5 DEF RemoveMarket, removed
<1> QED
  BY <1>1, <1>2, <1>6, OperationGoesOn

-----------------------------------------------------------------------------
(* The steps of the program's tasks.                                       *)

OthersTyped ==
    /\ listening \in BOOLEAN
    /\ listener \in {"off", "reading", "sleeping", "recovering"}
    /\ op \in OpType
    /\ sweep \in [left : SUBSET (Channels \X Markets), sentIn : Nat]
    /\ DOMAIN resub \subseteq Channels /\ \A c \in DOMAIN resub : resub[c] \subseteq Markets
    /\ recovery \in [left : SUBSET Channels, size : Nat, suspended : BOOLEAN]
    /\ gap \in Channels \cup {NoChannel}
    /\ called \in [ops : Nat, refusals : Nat, closed : BOOLEAN]

LinkTyped ==
    /\ link \in {"none", "open", "closed"}
    /\ session \in Nat
    /\ replies \in Seq(Reply)
    /\ DOMAIN subs \subseteq Sids /\ \A s \in DOMAIN subs : subs[s] \in Subscription
    /\ nextSid \in Sids
    /\ spent \in [updates : Nat, skips : Nat, losses : Nat]

LEMMA TypedParts == TypeOK <=> LinkTyped /\ WireTyped /\ ChannelsTyped /\ OthersTyped
BY DEF TypeOK, ServerTypeOK, LinkTyped, WireTyped, ChannelsTyped, OthersTyped, OpType

LEMMA PartsTyped ==
    ASSUME LinkTyped', WireTyped', ChannelsTyped', OthersTyped'
    PROVE  TypeOK'
BY DEF TypeOK, ServerTypeOK, LinkTyped, WireTyped, ChannelsTyped, OthersTyped, OpType

LEMMA SameReplies ==
    ASSUME TypeOK, WireOnlySends, Known
    PROVE  Reads /\ Holds /\ LinkTyped'
<1>1. LinkTyped' /\ replies \in Seq(Reply)
  BY TypedParts DEF WireOnlySends, LinkTyped
<1>2. Reads
  <2>1. 0 \in Nat /\ Len(replies) \in Nat
    BY <1>1, Elements
  <2>2. \A i \in 1 .. Len(replies') : i + 0 \in 1 .. Len(replies) /\ replies'[i] = replies[i + 0]
    BY <2>1 DEF WireOnlySends
  <2> QED
    BY <2>1, <2>2 DEF Reads
<1>3. Holds
  BY DEF WireOnlySends, Holds, Known
<1> QED
  BY <1>1, <1>2, <1>3

LEMMA StreamsSame ==
    ASSUME Streams, Forgets, Positions, replies' = replies, subs' = subs
    PROVE  Streams'
<1>1. Unread'
  BY DEF Streams, Positions
<1>2. ASSUME NEW s \in DOMAIN subs'
      PROVE  /\ Sent(s)'
             /\ s \in DOMAIN sidMap' => Stands(s, channels[sidMap[s]].seq)'
             /\ \A i \in 1 .. Len(replies') : Confirms(i)' /\ replies'[i].sid = s =>
                    /\ Stands(s, NoSeq)'
                    /\ \A j \in 1 .. Len(replies') : Carries(j, s)' => i < j
  <2>1. \A p : Stands(s, p)' <=> Stands(s, p)
    BY DEF Stands, Starts, Carries
  <2>2. Sent(s)' <=> Sent(s)
    BY DEF Sent, Carries
  <2>3. s \in DOMAIN sidMap' =>
            s \in DOMAIN sidMap /\ channels'[sidMap'[s]].seq = channels[sidMap[s]].seq
    BY DEF Forgets, Positions
  <2> QED
    BY <2>1, <2>2, <2>3 DEF Streams, Confirms, Carries
<1> QED
  BY <1>1, <1>2 DEF Streams

\* A step of the client that reads nothing, and learns of no sid.
Tacit == Acts /\ WireOnlySends

LEMMA ClientStep ==
    ASSUME IInv, Acts, WireOnlySends, OthersTyped', Turns'
    PROVE  IInv' /\ Tacit
<1>1. Reads /\ Holds /\ LinkTyped'
  BY SameReplies DEF IInv, Indexed
<1>2. Indexed'
  BY <1>1, PartsTyped, IndexesKept DEF IInv, Indexed, Acts
<1>3. Streams'
  BY StreamsSame DEF IInv, Acts, WireOnlySends
<1> QED
  BY <1>2, <1>3 DEF IInv, Tacit

TasksTyped ==
    /\ Task(op)
    /\ sweep \in [left : SUBSET (Channels \X Markets), sentIn : Nat]
    /\ DOMAIN resub \subseteq Channels /\ \A c \in DOMAIN resub : resub[c] \subseteq Markets
    /\ called \in [ops : Nat, refusals : Nat, closed : BOOLEAN]

LEMMA ProgramStep ==
    ASSUME IInv, Acts, WireOnlySends, ListenerWaits, TasksTyped'
    PROVE  IInv' /\ Tacit
<1>1. OthersTyped'
  BY TypedParts DEF IInv, Indexed, OthersTyped, TasksTyped, ListenerWaits, Task
<1>2. Turns'
  <2>1. DOMAIN sidMap' \subseteq DOMAIN sidMap
    BY DEF Acts, Forgets
  <2>2. recovery.left \subseteq DOMAIN channels'
    BY DEF IInv, Indexed, Turns, Acts
  <2> QED
    BY <2>1, <2>2 DEF IInv, Indexed, Turns, WireOnlySends, ListenerWaits, TasksTyped, Task
<1> QED
  BY <1>1, <1>2, ClientStep

LEMMA TasksAreTyped == ASSUME IInv PROVE TasksTyped
BY TypedParts DEF IInv, Indexed, OthersTyped, TasksTyped, Task, Turns

\* A step that leaves indexes and wire alone.
LEMMA NothingActs ==
    ASSUME IInv, NoSend, UNCHANGED <<channels, sidMap>>
    PROVE  Acts
<1>1. Sends /\ WireTyped'
  BY NothingSent DEF IInv, Indexed
<1>2. SameSids /\ SameSeqs
  BY DEF SameSids, SameSeqs
<1>3. ChannelsTyped'
  BY TypedParts DEF IInv, Indexed, ChannelsTyped
<1> QED
  BY <1>1, <1>2, <1>3, SameSidsKeep DEF Acts, SameSids, IInv, Indexed

LEMMA CallsCounted ==
    ASSUME IInv, NEW name, NEW c, Calls(name, c)
    PROVE  called' \in [ops : Nat, refusals : Nat, closed : BOOLEAN]
BY TasksAreTyped DEF TasksTyped, Calls

LEMMA ShareActs ==
    ASSUME IInv, NEW o, Task(o), o.name # "none" => o.markets # {}, ShareOf(o)
    PROVE  Acts /\ Task(op')
<1>1. PICK c \in o.left :
          \/ o.name = "add_market" /\ \A m \in o.markets : AddMarket(o, c, m)
          \/ o.name = "add_markets" /\ AddMarkets(o, c, o.markets)
          \/ o.name = "remove_market" /\ \A m \in o.markets : RemoveMarket(o, c, m)
  BY DEF ShareOf
<1>2. c \in Channels /\ o.markets \in SUBSET Markets /\ o.markets # {}
  BY <1>1 DEF Task, OpType
<1>3. PICK m \in o.markets : m \in Markets
  BY <1>2
<1>4. Indexed
  BY DEF IInv
<1>5. CASE o.name = "add_market" /\ AddMarket(o, c, m)
  BY <1>2, <1>3, <1>4, <1>5, AddMarketActs
<1>6. CASE AddMarkets(o, c, o.markets)
  BY <1>2, <1>4, <1>6, AddMarketsActs
<1>7. CASE o.name = "remove_market" /\ RemoveMarket(o, c, m)
  BY <1>2, <1>3, <1>4, <1>7, RemoveMarketActs
<1> QED
  BY <1>1, <1>3, <1>5, <1>6, <1>7

LEMMA BeginKeeps ==
    ASSUME IInv, NEW name \in {"add_market", "add_markets", "remove_market"},
           NEW markets \in (SUBSET Markets) \ {{}}, NEW names \in (SUBSET Channels) \ {{}},
           Begin(name, markets, names)
    PROVE  IInv' /\ Tacit
<1> DEFINE o == [name |-> name, markets |-> markets, left |-> names, sentIn |-> 0]
<1>0. names # {} /\ markets # {} /\ names \in SUBSET Channels /\ markets \in SUBSET Markets
  OBVIOUS
<1>1. Task(o) /\ o.markets # {} /\ ShareOf(o)
  <2>1. o \in OpType /\ o.markets # {}
    BY <1>0 DEF OpType
  <2> QED
    BY <2>1 DEF Task, Begin
<1> HIDE DEF o
<1>2. Acts /\ Task(op')
  BY <1>1, ShareActs
<1>3. called' \in [ops : Nat, refusals : Nat, closed : BOOLEAN]
  <2>1. PICK c \in names : Calls(name, c)
    BY <1>0 DEF Begin
  <2> QED
    BY <2>1, CallsCounted
<1>4. WireOnlySends /\ ListenerWaits /\ UNCHANGED <<sweep, resub>>
  BY <1>1 DEF ShareOf
<1>5. TasksTyped'
  BY <1>2, <1>3, <1>4, TasksAreTyped DEF TasksTyped
<1> QED
  BY <1>2, <1>4, <1>5, ProgramStep

LEMMA ShareKeeps ==
    ASSUME IInv, Share
    PROVE  IInv' /\ Tacit
<1>1. Task(op) /\ op.markets # {} /\ ShareOf(op) /\ UNCHANGED called
  BY TasksAreTyped DEF TasksTyped, Task, Share, Unlocked
<1>2. Acts /\ Task(op')
  BY <1>1, ShareActs
<1>3. WireOnlySends /\ ListenerWaits /\ UNCHANGED <<sweep, resub>>
  BY <1>1 DEF ShareOf
<1>4. TasksTyped'
  BY <1>1, <1>2, <1>3, TasksAreTyped DEF TasksTyped
<1> QED
  BY <1>2, <1>3, <1>4, ProgramStep

LEMMA AbortKeeps ==
    ASSUME IInv, Abort
    PROVE  IInv' /\ Tacit
<1>1. /\ NoSend /\ WireOnlySends /\ ListenerWaits
      /\ UNCHANGED <<channels, sidMap, resub, called>>
      /\ op' \in {op, NoOp} /\ sweep' \in {sweep, NoSweep}
  BY DEF Abort, NoSend, WireOnlySends, ListenerWaits, serverVars
<1>2. NoSweep \in [left : SUBSET (Channels \X Markets), sentIn : Nat]
  BY DEF NoSweep
<1>3. TasksTyped'
  BY <1>1, <1>2, NoOpIsTask, TasksAreTyped DEF TasksTyped
<1> QED
  BY <1>1, <1>3, NothingActs, ProgramStep

LEMMA UnsubscribeAllKeeps ==
    ASSUME IInv, UnsubscribeAll
    PROVE  IInv' /\ Tacit
<1>1. /\ NoSend /\ WireOnlySends /\ ListenerWaits
      /\ UNCHANGED <<channels, sidMap, resub, op>>
      /\ called' = [called EXCEPT !.ops = @ + 1]
      /\ sweep' = [left |-> UNION {{c} \X channels[c].markets : c \in DOMAIN channels}, sentIn |-> 0]
  BY DEF UnsubscribeAll, NoSend, WireOnlySends, ListenerWaits, serverVars
<1>2. UNION {{c} \X channels[c].markets : c \in DOMAIN channels} \subseteq Channels \X Markets
  <2>1. \A c \in DOMAIN channels : c \in Channels /\ channels[c].markets \subseteq Markets
    BY TypedParts DEF IInv, Indexed, ChannelsTyped, ChannelState
  <2> QED
    BY <2>1
<1>3. called' \in [ops : Nat, refusals : Nat, closed : BOOLEAN]
  BY <1>1, TasksAreTyped DEF TasksTyped
<1>4. TasksTyped'
  BY <1>1, <1>2, <1>3, TasksAreTyped DEF TasksTyped
<1> QED
  BY <1>1, <1>4, NothingActs, ProgramStep

LEMMA SweepKeeps ==
    ASSUME IInv, Sweep
    PROVE  IInv' /\ Tacit
<1>1. PICK pair \in sweep.left :
          /\ RemoveMarket(NoOp, pair[1], pair[2])
          /\ \/ sweep' = NoSweep
             \/ \E n \in {session, 0} : sweep' = [left |-> sweep.left \ {pair}, sentIn |-> n]
  BY DEF Sweep
<1>2. WireOnlySends /\ ListenerWaits /\ UNCHANGED <<resub, called>>
  BY DEF Sweep
<1>3. sweep.left \subseteq Channels \X Markets /\ session \in Nat
  BY TypedParts DEF IInv, Indexed, OthersTyped, LinkTyped
<1>4. Acts /\ Task(op')
  BY <1>1, <1>3, NoOpIsTask, RemoveMarketActs DEF IInv
<1>5. sweep' \in [left : SUBSET (Channels \X Markets), sentIn : Nat]
  BY <1>1, <1>3 DEF NoSweep
<1>6. TasksTyped'
  BY <1>2, <1>4, <1>5, TasksAreTyped DEF TasksTyped
<1> QED
  BY <1>2, <1>4, <1>6, ProgramStep

LEMMA RequestSnapshotKeeps ==
    ASSUME IInv, NEW c \in Channels, NEW markets \in SUBSET Markets, RequestSnapshot(c, markets)
    PROVE  IInv' /\ Tacit
<1>1. /\ SendUpdate(StateOf(c).sid, markets, "get_snapshot") /\ StateOf(c).sid # NoSid
      /\ WireOnlySends /\ ListenerWaits /\ Calls("request_snapshot", c)
      /\ UNCHANGED <<channels, sidMap, op, sweep, resub>>
  BY DEF RequestSnapshot
<1>2. TypeOK
  BY DEF IInv, Indexed
<1>3. StateOf(c).sid \in Sids
  BY <1>1, <1>2, StateOfTyped
<1>4. Sends /\ WireTyped'
  BY <1>1, <1>2, <1>3, SendUpdateSent
<1>5. SameSids /\ SameSeqs /\ ChannelsTyped'
  BY <1>1, <1>2, TypedParts DEF SameSids, SameSeqs, ChannelsTyped
<1>6. Acts
  BY <1>4, <1>5, SameSidsKeep DEF Acts, SameSids, IInv, Indexed
<1>7. TasksTyped'
  BY <1>1, CallsCounted, TasksAreTyped DEF TasksTyped
<1> QED
  BY <1>1, <1>6, <1>7, ProgramStep

LEMMA ResubscribeKeeps ==
    ASSUME IInv, NEW c \in Channels, Resubscribe(c)
    PROVE  IInv' /\ Tacit
<1> DEFINE old == channels[c].sid
           state == [channels[c] EXCEPT !.sid = NoSid, !.seq = NoSeq]
<1>1. /\ c \in DOMAIN channels /\ Calls("resubscribe_channel", c)
      /\ channels' = Put(channels, c, state)
      /\ WireOnlySends /\ ListenerWaits /\ UNCHANGED <<op, sweep>>
  BY DEF Resubscribe
<1>2. /\ TypeOK /\ SidMapInverse /\ channels[c] \in ChannelState
      /\ channels[c].markets \subseteq Markets
  BY <1>1 DEF IInv, Indexed, TypeOK, ChannelState
<1>3. state \in ChannelState /\ state.sid = NoSid /\ state.seq = NoSeq
  BY <1>2 DEF ChannelState, NoSid, NoSeq
<1> HIDE DEF state
<1>4. /\ DOMAIN channels' = DOMAIN channels /\ channels'[c] = state
      /\ \A d \in DOMAIN channels : d # c => channels'[d] = channels[d]
  BY <1>1 DEF Put
<1>5. Unread
  BY DEF IInv, Streams
<1>6. Acts
  <2>1. CASE old = NoSid /\ NoSend /\ UNCHANGED sidMap
    <3>1. SameSids /\ SameSeqs
      BY <1>1, <1>3, <1>4, <1>5, <2>1 DEF SameSids, SameSeqs, Unread
    <3>2. Forgets /\ SidMapInverse' /\ Positions
      BY <1>2, <3>1, SameSidsKeep
    <3>3. ChannelsTyped'
      BY <1>2, <1>3, <1>4, <2>1 DEF ChannelsTyped, TypeOK
    <3> QED
      BY <1>2, <1>4, <2>1, <3>2, <3>3, NothingSent DEF Acts
  <2>2. CASE old # NoSid /\ sidMap' = Drop(sidMap, {old}) /\ SendUnsubscribe(old)
    <3>1. GivesUp(c)
      BY <1>1, <1>3, <1>4, <2>2 DEF GivesUp
    <3>2. Forgets /\ SidMapInverse' /\ Positions /\ old \in DOMAIN sidMap \ DOMAIN sidMap'
      BY <1>2, <3>1, GivesUpKeeps
    <3>3. Sends /\ WireTyped'
      BY <1>2, <2>2, <3>2, UnsubscribeSent
    <3>4. ChannelsTyped'
      BY <1>2, <1>3, <1>4, <3>2 DEF ChannelsTyped, TypeOK, Forgets
    <3> QED
      BY <1>4, <3>2, <3>3, <3>4 DEF Acts
  <2> QED
    BY <2>1, <2>2 DEF Resubscribe
<1>7. DOMAIN resub' \subseteq Channels /\ \A d \in DOMAIN resub' : resub'[d] \subseteq Markets
  <2>1. DOMAIN resub \subseteq Channels /\ \A d \in DOMAIN resub : resub[d] \subseteq Markets
    BY TasksAreTyped DEF TasksTyped
  <2>2. resub' \in {resub, Put(resub, c, channels[c].markets)}
    BY DEF Resubscribe
  <2> QED
    BY <1>2, <2>1, <2>2 DEF Put
<1>8. TasksTyped'
  BY <1>1, <1>7, CallsCounted, TasksAreTyped DEF TasksTyped
<1> QED
  BY <1>1, <1>6, <1>8, ProgramStep

LEMMA ResubscribeAgainKeeps ==
    ASSUME IInv, NEW c \in Channels, ResubscribeAgain(c)
    PROVE  IInv' /\ Tacit
<1>1. /\ c \in DOMAIN resub /\ resub' = Drop(resub, {c})
      /\ NoSend \/ SendSubscribe(c, resub[c])
      /\ WireOnlySends /\ ListenerWaits
      /\ UNCHANGED <<channels, sidMap, op, sweep, called>>
  BY DEF ResubscribeAgain
<1>2. TypeOK /\ resub[c] \in SUBSET Markets
  BY <1>1, TasksAreTyped DEF IInv, Indexed, TasksTyped
<1>3. Sends /\ WireTyped'
  BY <1>1, <1>2, NothingSent, SubscribeSent
<1>4. SameSids /\ SameSeqs /\ ChannelsTyped'
  BY <1>1, <1>2, TypedParts DEF SameSids, SameSeqs, ChannelsTyped
<1>5. Acts
  BY <1>3, <1>4, SameSidsKeep DEF Acts, SameSids, IInv, Indexed
<1>6. TasksTyped'
  BY <1>1, TasksAreTyped DEF TasksTyped, Drop, Restrict
<1> QED
  BY <1>1, <1>5, <1>6, ProgramStep

-----------------------------------------------------------------------------
(* The connection and the listener.                                        *)

\* Nothing changes of the client's tasks.
LEMMA OthersSame ==
    ASSUME IInv, UNCHANGED <<listening, listener, op, sweep, resub, recovery, gap, called>>
    PROVE  OthersTyped'
BY TypedParts DEF IInv, Indexed, OthersTyped

\* Nothing changes of the client's indexes.
LEMMA IndexesSame ==
    ASSUME IInv, UNCHANGED <<channels, sidMap>>
    PROVE  Forgets /\ Positions /\ SidMapInverse' /\ ChannelsTyped'
<1>1. SameSids /\ SameSeqs
  BY DEF SameSids, SameSeqs
<1>2. ChannelsTyped'
  BY TypedParts DEF IInv, Indexed, ChannelsTyped
<1> QED
  BY <1>1, <1>2, SameSidsKeep DEF IInv, Indexed

LEMMA NoStreams ==
    ASSUME IInv, UNCHANGED <<channels, sidMap>>, DOMAIN subs' = {}
    PROVE  Streams'
BY DEF IInv, Streams, Unread

\* The end of a connection.
LEMMA HangupKeeps ==
    ASSUME IInv, Hangup, link = "open", UNCHANGED <<session, nextSid>>,
           spent' \in [updates : Nat, skips : Nat, losses : Nat],
           UNCHANGED <<channels, sidMap, pending, nextId, op, listener, recovery>>, OthersTyped'
    PROVE  IInv'
<1>1. PICK n \in 0 .. Len(replies) : replies' = SubSeq(replies, 1, n)
  BY DEF Hangup
<1>2. /\ link' = "closed" /\ requests' = <<>> /\ subs' = <<>>
      /\ DOMAIN subs' = {} /\ Len(requests') = 0
  BY EmptyElements DEF Hangup
<1>3. TypeOK /\ replies \in Seq(Reply) /\ nextId \in Nat
  BY DEF IInv, Indexed, TypeOK, ServerTypeOK
<1>4. /\ replies' \in Seq(Reply) /\ Len(replies') = n /\ Len(replies) \in Nat
      /\ \A i \in 1 .. n : replies'[i] = replies[i]
  BY <1>1, <1>3, PrefixElements
<1>5. Reads
  <2>1. 0 \in Nat /\ \A i \in 1 .. Len(replies') :
                         i + 0 \in 1 .. Len(replies) /\ replies'[i] = replies[i + 0]
    BY <1>4
  <2> QED
    BY <2>1 DEF Reads
<1>6. Holds
  BY <1>2 DEF Holds
<1>7. Sends
  BY <1>2, <1>3 DEF Sends
<1>8. LinkTyped'
  BY <1>2, <1>3, <1>4, TypedParts DEF LinkTyped
<1>9. WireTyped'
  BY <1>2, <1>3, TypedParts DEF WireTyped
<1>10. Turns'
  BY <1>2 DEF IInv, Indexed, Turns
<1>11. Forgets /\ SidMapInverse' /\ ChannelsTyped'
  BY IndexesSame
<1>12. Old' /\ Known' /\ Confirmed' /\ Dropped'
  BY <1>5, <1>6, <1>7, <1>11, IndexesKept DEF IInv
<1>13. TypeOK'
  BY <1>8, <1>9, <1>11, PartsTyped
<1> QED
  BY <1>2, <1>10, <1>11, <1>12, <1>13, NoStreams DEF IInv, Indexed

LEMMA LoseKeeps ==
    ASSUME IInv, Lose, UNCHANGED clientVars
    PROVE  IInv'
<1>1. spent \in [updates : Nat, skips : Nat, losses : Nat]
  BY TypedParts DEF IInv, Indexed, LinkTyped
<1>2. spent' \in [updates : Nat, skips : Nat, losses : Nat]
  BY <1>1 DEF Lose
<1> QED
  BY <1>2, HangupKeeps, OthersSame DEF Lose, clientVars

LEMMA CloseKeeps ==
    ASSUME IInv, Close
    PROVE  IInv'
<1>1. OthersTyped /\ LinkTyped
  BY TypedParts DEF IInv, Indexed
<1>2. OthersTyped'
  BY <1>1 DEF Close, OthersTyped
<1>3. CASE link = "open"
  BY <1>1, <1>2, <1>3, HangupKeeps DEF Close, LinkTyped
<1>4. CASE link # "open"
  <2>1. /\ WireOnlySends /\ NoSend /\ UNCHANGED <<channels, sidMap, op, listener, recovery>>
    BY <1>4 DEF Close, WireOnlySends, NoSend
  <2>2. Turns'
    BY <2>1 DEF IInv, Indexed, Turns, WireOnlySends
  <2> QED
    BY <1>2, <2>1, <2>2, NothingActs, ClientStep
<1> QED
  BY <1>3, <1>4

\* A new connection, of a client that knows no sid.
LEMMA AcceptKeeps ==
    ASSUME IInv, Accept, DOMAIN sidMap = {}, UNCHANGED <<spent, channels, sidMap, pending, nextId>>,
           OthersTyped', Turns'
    PROVE  IInv'
<1>1. /\ link' = "open" /\ session' = session + 1 /\ nextSid' = 1
      /\ requests' = <<>> /\ replies' = <<>> /\ DOMAIN subs' = {}
      /\ Len(requests') = 0 /\ Len(replies') = 0
  BY EmptyElements DEF Accept
<1>2. LinkTyped'
  BY <1>1, EmptyElements, TypedParts DEF IInv, Indexed, LinkTyped, Sids, NoSid
<1>3. WireTyped'
  BY <1>1, EmptyElements, TypedParts DEF IInv, Indexed, WireTyped
<1>4. SidMapInverse' /\ ChannelsTyped'
  BY IndexesSame
<1>5. TypeOK'
  BY <1>2, <1>3, <1>4, PartsTyped
<1>6. Old' /\ Known' /\ Confirmed' /\ Dropped'
  BY <1>1 DEF IInv, Indexed, Old, Known, Confirmed, Dropped
<1> QED
  BY <1>1, <1>4, <1>5, <1>6, NoStreams DEF IInv, Indexed

LEMMA ConnectKeeps ==
    ASSUME IInv, Connect
    PROVE  IInv'
<1>1. OthersTyped'
  BY TypedParts DEF IInv, Indexed, Connect, OthersTyped
<1>2. DOMAIN sidMap = {} /\ replies = <<>>
  BY DEF IInv, Indexed, Turns, Connect
<1>3. Turns'
  BY <1>2 DEF IInv, Indexed, Turns, Connect, Accept
<1> QED
  BY <1>1, <1>2, <1>3, AcceptKeeps DEF Connect

LEMMA ReconnectKeeps ==
    ASSUME IInv, Reconnect
    PROVE  IInv'
<1>1. DOMAIN sidMap = {} /\ OthersTyped /\ ChannelsTyped
  BY TypedParts DEF IInv, Indexed, Turns, Reconnect
<1>2. /\ recovery' \in [left : SUBSET Channels, size : Nat, suspended : BOOLEAN]
      /\ recovery'.left \subseteq DOMAIN channels
      /\ listener' \in {"reading", "recovering"}
      /\ listener' # "recovering" => recovery'.left = {}
  <2>1. Cardinality(DOMAIN channels) \in Nat
    BY <1>1, ServerAssumption, FS_Subset, FS_CardinalityType DEF ChannelsTyped
  <2> QED
    BY <1>1, <2>1 DEF Reconnect, NoRecovery, ChannelsTyped
<1>3. OthersTyped'
  BY <1>1, <1>2 DEF OthersTyped, Reconnect
<1>4. Turns'
  BY <1>1, <1>2 DEF IInv, Indexed, Turns, Reconnect, Accept
<1> QED
  BY <1>1, <1>3, <1>4, AcceptKeeps DEF Reconnect

\* The listener begins, ends or waits, and nothing else happens.
LEMMA ListenerMoves ==
    ASSUME IInv, UNCHANGED <<serverVars, channels, sidMap, pending, nextId, op, recovery>>,
           listener \in {"off", "sleeping"}, listener' = "reading", OthersTyped'
    PROVE  IInv' /\ Tacit
<1>1. WireOnlySends /\ NoSend
  BY DEF serverVars, WireOnlySends, NoSend
<1>2. Turns'
  BY <1>1 DEF IInv, Indexed, Turns, WireOnlySends
<1> QED
  BY <1>1, <1>2, NothingActs, ClientStep

LEMMA ListenKeeps ==
    ASSUME IInv, Listen
    PROVE  IInv' /\ Tacit
<1>1. OthersTyped'
  BY TypedParts DEF IInv, Indexed, Listen, OthersTyped
<1> QED
  BY <1>1, ListenerMoves DEF Listen

LEMMA ReconnectFailsKeeps ==
    ASSUME IInv, ReconnectFails
    PROVE  IInv' /\ Tacit
<1>1. OthersTyped'
  BY TypedParts DEF IInv, Indexed, ReconnectFails, OthersTyped
<1> QED
  BY <1>1, ListenerMoves DEF ReconnectFails

LEMMA RecoverKeeps ==
    ASSUME IInv, Recover
    PROVE  IInv' /\ Tacit
<1>1. /\ listener = "recovering" /\ WireOnlySends
      /\ UNCHANGED <<listening, channels, sidMap, op, sweep, resub, gap, called>>
  BY DEF Recover
<1>2. TypeOK /\ OthersTyped /\ recovery.left \subseteq DOMAIN channels
  BY TypedParts DEF IInv, Indexed, Turns
<1>3. \/ NoSend
      \/ \E c \in recovery.left : SendSubscribe(c, channels[c].markets)
  BY DEF Recover, RecoverTurn
<1>4. Sends /\ WireTyped'
  <2>1. ASSUME NEW c \in recovery.left
        PROVE  c \in Channels /\ channels[c].markets \in SUBSET Markets
    BY <1>2 DEF TypeOK, ChannelState
  <2> QED
    BY <1>2, <1>3, <2>1, NothingSent, SubscribeSent
<1>5. Acts
  BY <1>1, <1>4, IndexesSame DEF Acts
<1>6. /\ recovery' \in [left : SUBSET Channels, size : Nat, suspended : BOOLEAN]
      /\ recovery'.left \subseteq recovery.left
      /\ listener' \in {"reading", "recovering"}
      /\ listener' # "recovering" => recovery'.left = {}
  <2>1. recovery \in [left : SUBSET Channels, size : Nat, suspended : BOOLEAN]
    BY <1>2 DEF OthersTyped
  <2>2. CASE listener' = "reading" /\ recovery' = NoRecovery
    BY <2>2 DEF NoRecovery
  <2>3. CASE UNCHANGED listener /\ \E c \in recovery.left : RecoverTurn(c)
    BY <1>1, <2>1, <2>3 DEF RecoverTurn
  <2> QED
    BY <2>2, <2>3 DEF Recover
<1>7. OthersTyped'
  BY <1>1, <1>2, <1>6 DEF OthersTyped
<1>8. Turns'
  BY <1>1, <1>6 DEF IInv, Indexed, Turns, WireOnlySends
<1> QED
  BY <1>1, <1>5, <1>7, <1>8, ClientStep

LEMMA ConnectionLostKeeps ==
    ASSUME IInv, ConnectionLost
    PROVE  IInv' /\ Tacit
<1>1. /\ WireOnlySends /\ listener = "reading" /\ SocketError(channels, sidMap, pending)
      /\ UNCHANGED <<requests, nextId, listening, op, sweep, resub, recovery, called, gap>>
  BY DEF ConnectionLost, serverVars, WireOnlySends, SocketError
<1>2. TypeOK /\ WireTyped /\ recovery.left = {}
  BY <1>1, TypedParts DEF IInv, Indexed, Turns
<1>3. OthersTyped'
  BY <1>1, TypedParts DEF IInv, Indexed, OthersTyped, SocketError
<1>4. CASE listener' = "off" /\ UNCHANGED <<channels, sidMap, pending>>
  <2>1. NoSend
    BY <1>1, <1>4 DEF NoSend
  <2>2. Turns'
    BY <1>1, <1>2, <1>4 DEF IInv, Indexed, Turns, WireOnlySends
  <2> QED
    BY <1>1, <1>3, <1>4, <2>1, <2>2, NothingActs, ClientStep
<1>5. CASE listener' = "sleeping" /\ HandleConnectionLoss(channels)
  <2>1. /\ Forgets /\ SidMapInverse' /\ ChannelsTyped' /\ DOMAIN channels' = DOMAIN channels
        /\ DOMAIN sidMap' = {} /\ DOMAIN pending' = {}
        /\ \A c \in DOMAIN channels' : channels'[c].seq = NoSeq
    BY <1>2, <1>5, LossKeeps DEF TypeOK
  <2>2. Positions
    BY <2>1 DEF Positions, Unread
  <2>3. Sends /\ WireTyped'
    BY <1>1, <1>2, <2>1 DEF Sends, WireTyped
  <2>4. Turns'
    BY <1>1, <1>2, <1>5, <2>1 DEF IInv, Indexed, Turns, WireOnlySends
  <2> QED
    BY <1>1, <1>3, <2>1, <2>2, <2>3, <2>4, ClientStep DEF Acts
<1> QED
  BY <1>1, <1>4, <1>5 DEF SocketError

-----------------------------------------------------------------------------
(* The exchange.                                                           *)

Numbers(m, s) == m.type \in {"ok", "data"} /\ m.sid = s /\ m.seq # NoSeq

LEMMA Appended ==
    ASSUME replies \in Seq(Reply), NEW m \in Reply, replies' = Append(replies, m)
    PROVE  /\ replies' \in Seq(Reply) /\ Len(replies) \in Nat /\ Len(replies') = Len(replies) + 1
           /\ \A i \in 1 .. Len(replies) : replies'[i] = replies[i]
           /\ replies'[Len(replies) + 1] = m
           /\ \A i, s : Carries(i, s)' <=>
                  Carries(i, s) \/ (i = Len(replies) + 1 /\ Numbers(m, s))
           /\ \A i : Confirms(i)' <=>
                  Confirms(i) \/ (i = Len(replies) + 1 /\ m.type = "subscribed")
<1>1. /\ replies' \in Seq(Reply) /\ Len(replies) \in Nat /\ Len(replies') = Len(replies) + 1
      /\ \A i \in 1 .. Len(replies) : replies'[i] = replies[i]
      /\ replies'[Len(replies) + 1] = m
  BY AppendElements
<1>2. \A i : i \in 1 .. Len(replies') <=> i \in 1 .. Len(replies) \/ i = Len(replies) + 1
  BY <1>1
<1>3. Len(replies) + 1 \notin 1 .. Len(replies)
  BY <1>1
<1> QED
  BY <1>1, <1>2, <1>3 DEF Carries, Confirms, Numbers

\* A reply that has no number in subscription s.
LEMMA StreamQuiet ==
    ASSUME TypeOK, NEW m \in Reply, replies' = Append(replies, m),
           NEW s \in DOMAIN subs, Sent(s), ~Numbers(m, s),
           subs'[s].seq = subs[s].seq, subs'[s].first = subs[s].first,
           subs'[s].skipped = subs[s].skipped, subs'[s].channel = subs[s].channel,
           m.type = "data" /\ m.sid = s => m.channel = subs[s].channel
    PROVE  Sent(s)' /\ \A p \in Nat : Stands(s, p) => Stands(s, p)'
<1>1. replies \in Seq(Reply)
  BY DEF TypeOK, ServerTypeOK
<1>2. \A i : Carries(i, s)' <=> Carries(i, s)
  BY <1>1, Appended
<1>3. /\ Len(replies') = Len(replies) + 1 /\ Len(replies) \in Nat
      /\ \A i \in 1 .. Len(replies) : replies'[i] = replies[i]
      /\ replies'[Len(replies) + 1] = m
  BY <1>1, Appended
<1>4. \A i : Carries(i, s) => i \in 1 .. Len(replies)
  BY DEF Carries
<1>5. Sent(s)'
  <2>1. ASSUME NEW i \in 1 .. Len(replies')
        PROVE  /\ Carries(i, s)' => /\ subs'[s].first # NoSeq
                                    /\ subs'[s].first <= replies'[i].seq
                                    /\ replies'[i].seq <= subs'[s].seq
                                    /\ replies'[i].seq \notin subs'[s].skipped
               /\ replies'[i].type = "data" /\ replies'[i].sid = s
                      => replies'[i].channel = subs'[s].channel
    <3>1. CASE i \in 1 .. Len(replies)
      BY <1>2, <1>3, <3>1 DEF Sent
    <3>2. CASE i = Len(replies) + 1
      <4>1. ~ Carries(i, s)
        BY <1>3, <1>4, <3>2
      <4> QED
        BY <1>2, <1>3, <3>2, <4>1
    <3> QED
      BY <1>3, <3>1, <3>2
  <2> QED
    BY <2>1 DEF Sent
<1>6. Starts(s) => Starts(s)'
  <2>1. ASSUME NEW j \in 1 .. Len(replies), Carries(j, s), replies[j].seq = subs[s].first,
               \A i \in 1 .. j - 1 : ~Carries(i, s)
        PROVE  Starts(s)'
    <3>1. j \in 1 .. Len(replies') /\ Carries(j, s)' /\ replies'[j].seq = subs'[s].first
      BY <1>2, <1>3, <2>1
    <3>2. \A i \in 1 .. j - 1 : ~Carries(i, s)'
      BY <1>2, <2>1
    <3> QED
      BY <3>1, <3>2 DEF Starts
  <2> QED
    BY <2>1 DEF Starts
<1> QED
  BY <1>5, <1>6 DEF Stands

\* The next number of subscription s.
LEMMA StreamGrows ==
    ASSUME TypeOK, NEW m \in Reply, replies' = Append(replies, m),
           NEW s \in DOMAIN subs, Sent(s), Numbers(m, s),
           m.type = "data" => m.channel = subs[s].channel,
           m.seq = subs[s].seq + 1, subs'[s].seq = subs[s].seq + 1,
           subs'[s].first = (IF subs[s].first = NoSeq THEN subs[s].seq + 1 ELSE subs[s].first),
           subs'[s].skipped = subs[s].skipped, subs'[s].channel = subs[s].channel
    PROVE  Sent(s)' /\ \A p \in Nat : Stands(s, p) => Stands(s, p)'
<1>0. PICK n \in Nat : n = Len(replies) + 1
  BY Elements DEF TypeOK, ServerTypeOK
<1>1. /\ replies \in Seq(Reply) /\ subs[s].first \in Nat /\ subs[s].seq \in Nat
      /\ subs[s].skipped \subseteq Nat
  BY DEF TypeOK, ServerTypeOK, Subscription
<1>2. \A i : Carries(i, s)' <=> Carries(i, s) \/ i = n
  BY <1>0, <1>1, Appended
<1>3. /\ Len(replies') = n /\ Len(replies) \in Nat
      /\ \A i \in 1 .. Len(replies) : replies'[i] = replies[i]
      /\ replies'[n] = m
  BY <1>0, <1>1, Appended
<1>4. \A i : Carries(i, s) => i \in 1 .. Len(replies)
  BY DEF Carries
<1>5. /\ subs[s].first <= subs[s].seq /\ NoSeq = 0
      /\ \A k \in subs[s].skipped : k \in 1 .. subs[s].seq
  BY DEF Sent, NoSeq
<1>6. Sent(s)'
  <2>1. ASSUME NEW i \in 1 .. Len(replies')
        PROVE  /\ Carries(i, s)' => /\ subs'[s].first # NoSeq
                                    /\ subs'[s].first <= replies'[i].seq
                                    /\ replies'[i].seq <= subs'[s].seq
                                    /\ replies'[i].seq \notin subs'[s].skipped
               /\ replies'[i].type = "data" /\ replies'[i].sid = s
                      => replies'[i].channel = subs'[s].channel
    <3>1. CASE i \in 1 .. Len(replies)
      <4>1. i # n
        BY <1>0, <1>3, <3>1
      <4>2. ASSUME Carries(i, s)
            PROVE  /\ subs[s].first # NoSeq /\ subs[s].first <= replies[i].seq
                   /\ replies[i].seq <= subs[s].seq /\ replies[i].seq \notin subs[s].skipped
                   /\ replies[i].seq \in Nat
        <5>1. replies[i] \in Reply
          BY <1>1, <3>1, Elements
        <5>2. replies[i].seq \in Nat
          BY <4>2, <5>1 DEF Carries, Reply
        <5> QED
          BY <3>1, <4>2, <5>2 DEF Sent
      <4>3. replies[i].type = "data" /\ replies[i].sid = s => replies[i].channel = subs[s].channel
        BY <3>1 DEF Sent
      <4> QED
        BY <1>1, <1>2, <1>3, <3>1, <4>1, <4>2, <4>3
    <3>2. CASE i = n
      <4>1. subs[s].seq + 1 \notin subs[s].skipped
        BY <1>1, <1>5
      <4> QED
        BY <1>1, <1>3, <1>5, <3>2, <4>1 DEF Numbers
    <3> QED
      BY <1>0, <1>3, <3>1, <3>2
  <2>2. /\ subs'[s].first <= subs'[s].seq
        /\ \A k \in subs'[s].skipped : k \in 1 .. subs'[s].seq
    BY <1>1, <1>5
  <2> QED
    BY <2>1, <2>2 DEF Sent
<1>7. Starts(s) => Starts(s)'
  <2>1. CASE subs[s].first = NoSeq
    <3>1. \A i : ~Carries(i, s)
      BY <1>4, <2>1 DEF Sent
    <3>2. n \in 1 .. Len(replies') /\ Carries(n, s)' /\ replies'[n].seq = subs'[s].first
      BY <1>0, <1>1, <1>2, <1>3, <2>1
    <3>3. \A i \in 1 .. n - 1 : ~Carries(i, s)'
      BY <1>0, <1>2, <1>3, <3>1
    <3> QED
      BY <3>2, <3>3 DEF Starts
  <2>2. CASE subs[s].first # NoSeq
    <3>1. ASSUME NEW j \in 1 .. Len(replies), Carries(j, s), replies[j].seq = subs[s].first,
                 \A i \in 1 .. j - 1 : ~Carries(i, s)
          PROVE  Starts(s)'
      <4>1. j \in 1 .. Len(replies') /\ Carries(j, s)' /\ replies'[j].seq = subs'[s].first
        BY <1>2, <1>3, <2>2, <3>1
      <4>2. \A i \in 1 .. j - 1 : ~Carries(i, s)'
        BY <1>2, <1>3, <3>1
      <4> QED
        BY <4>1, <4>2 DEF Starts
    <3> QED
      BY <2>2, <3>1 DEF Starts
  <2> QED
    BY <2>1, <2>2
<1>8. ASSUME NEW p \in Nat, Stands(s, p) PROVE Stands(s, p)'
  BY <1>1, <1>5, <1>7, <1>8 DEF Stands
<1> QED
  BY <1>6, <1>8

\* After a reply was added, every old stream stands, and a new one begins.
LEMMA StreamsAppended ==
    ASSUME IInv, NEW m \in Reply, replies' = Append(replies, m), UNCHANGED <<channels, sidMap>>,
           m.type = "subscribed" => m.sid = nextSid,
           DOMAIN subs' \subseteq DOMAIN subs \cup {nextSid},
           \A s \in DOMAIN subs' \ {nextSid} :
               Sent(s)' /\ \A p \in Nat : Stands(s, p) => Stands(s, p)',
           nextSid \in DOMAIN subs' =>
               /\ m.type = "subscribed"
               /\ subs'[nextSid].seq = 0 /\ subs'[nextSid].first = NoSeq
               /\ subs'[nextSid].skipped = {}
    PROVE  Streams'
<1>1. /\ TypeOK /\ Old /\ Streams /\ replies \in Seq(Reply) /\ nextSid \in Nat
      /\ SidMapInverse
  BY DEF IInv, Indexed, TypeOK, ServerTypeOK, Sids
<1>2. /\ Len(replies') = Len(replies) + 1 /\ Len(replies) \in Nat
      /\ \A i \in 1 .. Len(replies) : replies'[i] = replies[i]
      /\ replies'[Len(replies) + 1] = m
      /\ \A i, s : Carries(i, s)' <=>
             Carries(i, s) \/ (i = Len(replies) + 1 /\ Numbers(m, s))
      /\ \A i : Confirms(i)' <=>
             Confirms(i) \/ (i = Len(replies) + 1 /\ m.type = "subscribed")
  BY <1>1, Appended
<1>3. \A i, s : Carries(i, s) => i \in 1 .. Len(replies) /\ replies[i].sid = s /\ s < nextSid
  <2>1. \A i, s : Carries(i, s) =>
            /\ i \in 1 .. Len(replies) /\ replies[i].sid = s /\ replies[i].type # "error"
    BY DEF Carries
  <2> QED
    BY <1>1, <2>1 DEF Old
<1>4. ASSUME NEW s \in DOMAIN subs', s # nextSid
      PROVE  /\ Sent(s)'
             /\ s \in DOMAIN sidMap' => Stands(s, channels[sidMap[s]].seq)'
             /\ \A i \in 1 .. Len(replies') : Confirms(i)' /\ replies'[i].sid = s =>
                    /\ Stands(s, NoSeq)'
                    /\ \A j \in 1 .. Len(replies') : Carries(j, s)' => i < j
  <2>1. s \in DOMAIN subs /\ Sent(s)' /\ \A p \in Nat : Stands(s, p) => Stands(s, p)'
    BY <1>4
  <2>2. ASSUME s \in DOMAIN sidMap' PROVE Stands(s, channels[sidMap[s]].seq)'
    <3> DEFINE p == channels[sidMap[s]].seq
    <3>1. Stands(s, p) /\ p \in Nat
      <4>1. s \in DOMAIN sidMap /\ channels[sidMap[s]] \in ChannelState
        BY <1>1, <2>2 DEF SidMapInverse, TypeOK
      <4> QED
        BY <1>1, <2>1, <4>1 DEF Streams, ChannelState
    <3>2. Stands(s, p)' <=> Stands(s, channels[sidMap[s]].seq)'
      OBVIOUS
    <3>3. channels'[sidMap'[s]].seq = p
      OBVIOUS
    <3> QED
      BY <2>1, <3>1, <3>3 DEF Stands
  <2>3. ASSUME NEW i \in 1 .. Len(replies'), Confirms(i)', replies'[i].sid = s
        PROVE  Stands(s, NoSeq)' /\ \A j \in 1 .. Len(replies') : Carries(j, s)' => i < j
    <3>1. i \in 1 .. Len(replies) /\ Confirms(i) /\ replies[i].sid = s
      BY <1>2, <1>4, <2>3 DEF Confirms
    <3>2. Stands(s, NoSeq) /\ \A j \in 1 .. Len(replies) : Carries(j, s) => i < j
      BY <1>1, <2>1, <3>1 DEF Streams
    <3>3. Stands(s, NoSeq)'
      BY <2>1, <3>2 DEF NoSeq
    <3>4. \A j \in 1 .. Len(replies') : Carries(j, s)' => i < j
      BY <1>2, <1>3, <3>1, <3>2
    <3> QED
      BY <3>3, <3>4
  <2> QED
    BY <2>1, <2>2, <2>3
<1>5. ASSUME NEW s \in DOMAIN subs', s = nextSid
      PROVE  /\ Sent(s)' /\ s \notin DOMAIN sidMap'
             /\ Stands(s, NoSeq)'
             /\ \A j \in 1 .. Len(replies') : ~Carries(j, s)'
  <2>1. /\ m.type = "subscribed" /\ subs'[s].seq = 0 /\ subs'[s].first = NoSeq
        /\ subs'[s].skipped = {}
    BY <1>5
  <2>2. s \notin DOMAIN sidMap'
    BY <1>1, <1>5 DEF Old
  <2>3. \A j : ~Carries(j, s)'
    <3>1. \A j : ~Carries(j, s)
      BY <1>1, <1>3, <1>5
    <3> QED
      BY <1>2, <2>1, <3>1 DEF Numbers
  <2>4. ASSUME NEW i \in 1 .. Len(replies'), replies'[i].type = "data" PROVE replies'[i].sid # s
    <3>1. i \in 1 .. Len(replies) /\ replies'[i] = replies[i]
      BY <1>2, <2>1, <2>4
    <3> QED
      BY <1>1, <1>5, <2>4, <3>1 DEF Old
  <2>5. Sent(s)'
    BY <2>1, <2>3, <2>4 DEF Sent, NoSeq
  <2>6. Stands(s, NoSeq)'
    BY <2>1 DEF Stands, Starts, NoSeq
  <2> QED
    BY <2>2, <2>3, <2>5, <2>6
<1>6. Unread'
  BY <1>1 DEF Streams, Unread
<1>7. ASSUME NEW s \in DOMAIN subs'
      PROVE  /\ Sent(s)'
             /\ s \in DOMAIN sidMap' => Stands(s, channels[sidMap[s]].seq)'
             /\ \A i \in 1 .. Len(replies') : Confirms(i)' /\ replies'[i].sid = s =>
                    /\ Stands(s, NoSeq)'
                    /\ \A j \in 1 .. Len(replies') : Carries(j, s)' => i < j
  <2>1. CASE s = nextSid
    BY <1>5, <2>1
  <2>2. CASE s # nextSid
    BY <1>4, <2>2
  <2> QED
    BY <2>1, <2>2
<1> QED
  BY <1>6, <1>7 DEF Streams

LEMMA AppendedReads ==
    ASSUME replies \in Seq(Reply), NEW m \in Reply, replies' = Append(replies, m),
           m.type \in {"ok", "data", "error"}, m.type # "error" => m.sid < nextSid
    PROVE  Reads
<1>1. /\ Len(replies) \in Nat /\ Len(replies') = Len(replies) + 1
      /\ \A i \in 1 .. Len(replies) : replies'[i] = replies[i]
      /\ replies'[Len(replies) + 1] = m
  BY AppendElements
<1>2. 0 \in Nat
  OBVIOUS
<1>3. \A i \in 1 .. Len(replies') :
          \/ i + 0 \in 1 .. Len(replies) /\ replies'[i] = replies[i + 0]
          \/ /\ i + 0 = Len(replies) + 1
             /\ replies'[i].type \in {"ok", "data", "error"}
             /\ replies'[i].type # "error" => replies'[i].sid < nextSid
  BY <1>1
<1> QED
  BY <1>2, <1>3 DEF Reads

\* The requests that are left when the first one was taken.
LEMMA TakenRequests ==
    ASSUME TypeOK, requests # <<>>, requests' = Tail(requests), UNCHANGED <<pending, nextId>>
    PROVE  /\ Sends /\ WireTyped'
           /\ Head(requests) = requests[1] /\ requests[1] \in Request /\ 1 \in 1 .. Len(requests)
           /\ \A i \in 1 .. Len(requests') :
                  \E j \in 1 .. Len(requests) : requests'[i] = requests[j]
<1>1. requests \in Seq(Request) /\ nextId \in Nat
  BY DEF TypeOK, ServerTypeOK
<1>2. /\ requests' \in Seq(Request) /\ Len(requests') = Len(requests) - 1
      /\ Len(requests) \in Nat \ {0}
      /\ \A i \in 1 .. Len(requests') : requests'[i] = requests[i + 1]
      /\ Head(requests) = requests[1] /\ requests[1] \in Request
  BY <1>1, TailElements
<1>3. \A i \in 1 .. Len(requests') : i + 1 \in 1 .. Len(requests)
  BY <1>2
<1>4. Sends
  BY <1>1, <1>2, <1>3 DEF Sends
<1>5. WireTyped'
  BY <1>2 DEF WireTyped, TypeOK
<1> QED
  BY <1>2, <1>3, <1>4, <1>5

\* A step of the exchange that begins or ends no subscription.
LEMMA ExchangeSends ==
    ASSUME IInv, NEW m \in Reply, replies' = Append(replies, m), link = "open",
           m.type \in {"ok", "data", "error"}, m.type # "error" => m.sid \in DOMAIN subs,
           UNCHANGED <<link, session, nextSid, clientVars>>, Sends, WireTyped',
           spent' \in [updates : Nat, skips : Nat, losses : Nat],
           DOMAIN subs' = DOMAIN subs,
           \A s \in DOMAIN subs : subs'[s] \in Subscription /\ subs'[s].channel = subs[s].channel,
           \A s \in DOMAIN subs : Sent(s)' /\ \A p \in Nat : Stands(s, p) => Stands(s, p)'
    PROVE  IInv'
<1>1. TypeOK /\ replies \in Seq(Reply) /\ Old /\ LinkTyped
  BY TypedParts DEF IInv, Indexed, LinkTyped
<1>2. Reads
  BY <1>1, AppendedReads DEF Old
<1>3. Holds
  BY DEF Holds
<1>4. Forgets /\ SidMapInverse' /\ ChannelsTyped' /\ OthersTyped'
  BY IndexesSame, OthersSame DEF clientVars
<1>5. LinkTyped'
  BY <1>1, AppendElements DEF LinkTyped
<1>6. Turns'
  BY DEF IInv, Indexed, Turns, clientVars
<1>7. Old' /\ Known' /\ Confirmed' /\ Dropped'
  BY <1>2, <1>3, <1>4, IndexesKept DEF IInv
<1>8. nextSid \notin DOMAIN subs'
  BY <1>1 DEF Old, LinkTyped, Sids
<1>9. Streams'
  BY <1>8, StreamsAppended DEF clientVars
<1> QED
  BY <1>4, <1>5, <1>6, <1>7, <1>9, PartsTyped DEF IInv, Indexed

\* What follows on the numbers of subscription s.
LEMMA DataOf ==
    ASSUME TypeOK, NEW s \in DOMAIN subs
    PROVE  /\ s \in Sids /\ subs[s] \in Subscription /\ After(s) \in Subscription
           /\ After(s).channel = subs[s].channel /\ After(s).skipped = subs[s].skipped
           /\ Number(s) \in Nat
           /\ Data(s) \in Reply /\ Data(s).type = "data" /\ Data(s).sid = s
           /\ Data(s).channel = subs[s].channel /\ Data(s).seq = Number(s)
           /\ ~Numbered(s) => Number(s) = NoSeq /\ After(s) = subs[s]
           /\ Numbered(s) =>
                  /\ Number(s) = subs[s].seq + 1 /\ Number(s) # NoSeq
                  /\ After(s).seq = subs[s].seq + 1
                  /\ After(s).first = IF subs[s].first = NoSeq THEN subs[s].seq + 1 ELSE subs[s].first
<1>1. s \in Sids /\ subs[s] \in Subscription
  BY DEF TypeOK, ServerTypeOK
<1>2. CASE ~Numbered(s)
  BY <1>1, <1>2 DEF After, Number, Data, Reply, Subscription, NoSeq
<1>3. CASE Numbered(s)
  <2> DEFINE first == IF subs[s].first = NoSeq THEN subs[s].seq + 1 ELSE subs[s].first
  <2>1. subs[s].seq \in Nat /\ first \in Nat
    BY <1>1 DEF Subscription
  <2>2. After(s) = [subs[s] EXCEPT !.seq = subs[s].seq + 1, !.first = first]
    BY <1>3 DEF After
  <2> HIDE DEF first
  <2>3. /\ After(s) \in Subscription /\ After(s).seq = subs[s].seq + 1 /\ After(s).first = first
        /\ After(s).channel = subs[s].channel /\ After(s).skipped = subs[s].skipped
    <3> DEFINE r == subs[s]
               n == subs[s].seq + 1
               next == After(s)
    <3>1. r \in Subscription /\ n \in Nat /\ next = [r EXCEPT !.seq = n, !.first = first]
      BY <1>1, <2>1, <2>2
    <3> HIDE DEF r, n, next
    <3>2. /\ next \in Subscription /\ next.seq = n /\ next.first = first
          /\ next.channel = r.channel /\ next.skipped = r.skipped
      BY <2>1, <3>1 DEF Subscription
    <3> QED
      BY <3>2 DEF r, n, next
  <2>4. Number(s) = subs[s].seq + 1 /\ Number(s) \in Nat /\ Number(s) # NoSeq
    BY <1>3, <2>1 DEF Number, NoSeq
  <2>5. subs[s].channel \in Channels
    BY <1>1 DEF Subscription
  <2> QED
    BY <1>1, <1>3, <2>3, <2>4, <2>5 DEF Data, Reply, first
<1> QED
  BY <1>2, <1>3

\* A message on subscription s, which takes the next number.
LEMMA StreamsAfter ==
    ASSUME IInv, NEW m \in Reply, replies' = Append(replies, m), NEW s \in DOMAIN subs,
           m.type \in {"ok", "data"}, m.sid = s, m.seq = Number(s),
           m.type = "data" => m.channel = subs[s].channel,
           DOMAIN subs' = DOMAIN subs, \A t \in DOMAIN subs \ {s} : subs'[t] = subs[t],
           subs'[s].seq = After(s).seq, subs'[s].first = After(s).first,
           subs'[s].skipped = After(s).skipped, subs'[s].channel = After(s).channel,
           ~Numbered(s) => subs'[s].seq = subs[s].seq /\ subs'[s].first = subs[s].first
    PROVE  \A t \in DOMAIN subs : Sent(t)' /\ \A p \in Nat : Stands(t, p) => Stands(t, p)'
<1>1. TypeOK /\ \A t \in DOMAIN subs : Sent(t)
  BY DEF IInv, Indexed, Streams
<1>2. ASSUME NEW t \in DOMAIN subs, t # s
      PROVE  Sent(t)' /\ \A p \in Nat : Stands(t, p) => Stands(t, p)'
  BY <1>1, <1>2, StreamQuiet DEF Numbers
<1>3. CASE Numbered(s)
  <2>1. Sent(s)' /\ \A p \in Nat : Stands(s, p) => Stands(s, p)'
    BY <1>1, <1>3, DataOf, StreamGrows DEF Numbers
  <2> QED
    BY <1>2, <2>1
<1>4. CASE ~Numbered(s)
  <2>1. Sent(s)' /\ \A p \in Nat : Stands(s, p) => Stands(s, p)'
    BY <1>1, <1>4, DataOf, StreamQuiet DEF Numbers
  <2> QED
    BY <1>2, <2>1
<1> QED
  BY <1>3, <1>4


LEMMA PublishKeeps ==
    ASSUME IInv, NEW s \in DOMAIN subs, Publish(s), UNCHANGED clientVars
    PROVE  IInv'
<1> DEFINE m == Data(s)
<1>1. /\ link = "open" /\ replies' = Append(replies, m)
      /\ DOMAIN subs' = DOMAIN subs /\ subs'[s] = After(s)
      /\ \A t \in DOMAIN subs \ {s} : subs'[t] = subs[t]
      /\ spent' = [spent EXCEPT !.updates = @ + 1]
      /\ UNCHANGED <<link, session, requests, nextSid>>
  BY DEF Publish, Answer
<1>2. TypeOK /\ spent \in [updates : Nat, skips : Nat, losses : Nat]
  BY DEF IInv, Indexed, TypeOK, ServerTypeOK
<1>3. /\ m \in Reply /\ m.type = "data" /\ m.sid = s /\ m.seq = Number(s)
      /\ m.channel = subs[s].channel
      /\ After(s) \in Subscription /\ After(s).channel = subs[s].channel
      /\ ~Numbered(s) => After(s) = subs[s]
  BY <1>2, DataOf
<1> HIDE DEF m
<1>4. \A t \in DOMAIN subs : Sent(t)' /\ \A p \in Nat : Stands(t, p) => Stands(t, p)'
  BY <1>1, <1>3, StreamsAfter
<1>5. Sends /\ WireTyped'
  BY <1>1, <1>2, NothingSent DEF NoSend, clientVars
<1>6. \A t \in DOMAIN subs : subs'[t] \in Subscription /\ subs'[t].channel = subs[t].channel
  BY <1>1, <1>2, <1>3 DEF TypeOK, ServerTypeOK
<1>7. spent' \in [updates : Nat, skips : Nat, losses : Nat]
  BY <1>1, <1>2
<1> QED
  BY <1>1, <1>3, <1>4, <1>5, <1>6, <1>7, ExchangeSends

\* A number that is never sent lies after all that the client may have seen.
LEMMA SkipKeeps ==
    ASSUME IInv, NEW s \in DOMAIN subs, Skip(s), UNCHANGED clientVars
    PROVE  IInv'
<1> DEFINE n == subs[s].seq + 1
           r == subs[s]
           next == AfterSkip(s)
<1>1. /\ link = "open" /\ subs' = [subs EXCEPT ![s] = next]
      /\ spent' = [spent EXCEPT !.skips = @ + 1]
      /\ UNCHANGED <<link, session, requests, replies, nextSid>>
  BY DEF Skip
<1>2. /\ TypeOK /\ Known /\ Streams /\ spent \in [updates : Nat, skips : Nat, losses : Nat]
      /\ r \in Subscription
      /\ subs[s].seq \in Nat /\ subs[s].skipped \subseteq Nat /\ subs[s].first \in Nat
  BY DEF IInv, Indexed, TypeOK, ServerTypeOK, Subscription
<1>3. /\ DOMAIN subs' = DOMAIN subs
      /\ \A t \in DOMAIN subs \ {s} : subs'[t] = subs[t]
      /\ subs'[s] \in Subscription /\ subs'[s].channel = subs[s].channel
      /\ subs'[s].seq = n /\ subs'[s].skipped = subs[s].skipped \cup {n}
      /\ subs'[s].first = subs[s].first
  <2>0. n \in Nat /\ next = [r EXCEPT !.seq = n, !.skipped = r.skipped \cup {n}]
    BY <1>2 DEF AfterSkip
  <2> HIDE DEF n, r, next
  <2>1. /\ next \in Subscription /\ next.channel = r.channel /\ next.first = r.first
        /\ next.seq = n /\ next.skipped = r.skipped \cup {n}
    BY <1>2, <2>0 DEF Subscription
  <2>2. r = subs[s]
    BY DEF r
  <2> QED
    BY <1>1, <2>1, <2>2
<1> HIDE DEF r, next
<1>4. Sends /\ WireTyped'
  BY <1>1, <1>2, NothingSent DEF NoSend, clientVars
<1>5. Forgets /\ Positions /\ SidMapInverse' /\ ChannelsTyped' /\ OthersTyped'
  BY IndexesSame, OthersSame DEF clientVars
<1>6. Reads
  <2>1. 0 \in Nat /\ Len(replies) \in Nat
    BY <1>2, Elements DEF TypeOK, ServerTypeOK
  <2>2. \A i \in 1 .. Len(replies') : i + 0 \in 1 .. Len(replies) /\ replies'[i] = replies[i + 0]
    BY <1>1, <2>1
  <2> QED
    BY <2>1, <2>2 DEF Reads
<1>7. Holds
  BY <1>1, <1>3 DEF Holds
<1>8. Old' /\ Known' /\ Confirmed' /\ Dropped'
  BY <1>4, <1>5, <1>6, <1>7, IndexesKept DEF IInv
<1>9. LinkTyped'
  <2>1. spent' \in [updates : Nat, skips : Nat, losses : Nat]
    BY <1>1, <1>2
  <2>2. \A t \in DOMAIN subs' : subs'[t] \in Subscription
    BY <1>2, <1>3 DEF TypeOK, ServerTypeOK
  <2> QED
    BY <1>1, <1>2, <1>3, <2>1, <2>2 DEF LinkTyped, TypeOK, ServerTypeOK
<1>10. Turns'
  BY <1>1 DEF IInv, Indexed, Turns, clientVars
<1>11. ASSUME NEW t \in DOMAIN subs
       PROVE  Sent(t)' /\ \A p \in Nat : Stands(t, p) => Stands(t, p)'
  <2>1. \A i : Carries(i, t)' <=> Carries(i, t)
    BY <1>1 DEF Carries
  <2>2. CASE t # s
    <3>1. subs'[t] = subs[t] /\ replies' = replies /\ Sent(t)
      BY <1>1, <1>2, <1>3, <2>2 DEF Streams
    <3>2. Sent(t)'
      BY <2>1, <3>1 DEF Sent
    <3>3. Starts(t) => Starts(t)'
      BY <2>1, <3>1 DEF Starts
    <3> QED
      BY <3>1, <3>2, <3>3 DEF Stands
  <2>3. CASE t = s
    <3>1. Sent(s)
      BY <1>2 DEF Streams
    <3>2. \A i \in 1 .. Len(replies) : Carries(i, s) => replies[i].seq \in Nat
      <4>1. ASSUME NEW i \in 1 .. Len(replies), Carries(i, s) PROVE replies[i].seq \in Nat
        <5>1. replies[i] \in Reply
          BY <1>2, Elements DEF TypeOK, ServerTypeOK
        <5> QED
          BY <4>1, <5>1 DEF Carries, Reply
      <4> QED
        BY <4>1
    <3>3. Sent(s)'
      <4>1. /\ subs'[s].first <= subs'[s].seq
            /\ \A k \in subs'[s].skipped : k \in 1 .. subs'[s].seq
        BY <1>2, <1>3, <3>1 DEF Sent
      <4>2. ASSUME NEW i \in 1 .. Len(replies), Carries(i, s)
            PROVE  /\ subs'[s].first # NoSeq /\ subs'[s].first <= replies[i].seq
                   /\ replies[i].seq <= subs'[s].seq /\ replies[i].seq \notin subs'[s].skipped
        <5>1. /\ subs[s].first # NoSeq /\ subs[s].first <= replies[i].seq
              /\ replies[i].seq <= subs[s].seq /\ replies[i].seq \notin subs[s].skipped
              /\ replies[i].seq \in Nat
          BY <3>1, <3>2, <4>2 DEF Sent
        <5> QED
          BY <1>2, <1>3, <5>1
      <4>3. \A i \in 1 .. Len(replies) :
                replies[i].type = "data" /\ replies[i].sid = s => replies[i].channel = subs'[s].channel
        BY <1>3, <3>1 DEF Sent
      <4> QED
        BY <1>1, <2>1, <2>3, <4>1, <4>2, <4>3 DEF Sent
    <3>4. ASSUME NEW p \in Nat, Stands(s, p) PROVE Stands(s, p)'
      <4>1. Starts(s) => Starts(s)'
        BY <1>1, <1>3, <2>1, <2>3 DEF Starts
      <4> QED
        BY <1>2, <1>3, <3>4, <4>1 DEF Stands
    <3> QED
      BY <2>3, <3>3, <3>4
  <2> QED
    BY <2>2, <2>3
<1>12. Streams'
  <2>1. Unread'
    BY <1>2, <1>5 DEF Streams, Positions
  <2>2. ASSUME NEW t \in DOMAIN subs, t \in DOMAIN sidMap
        PROVE  Stands(t, channels[sidMap[t]].seq)'
    <3> DEFINE p == channels[sidMap[t]].seq
    <3>1. Stands(t, p) /\ p \in Nat
      <4>1. channels[sidMap[t]] \in ChannelState
        BY <1>2, <2>2 DEF IInv, Indexed, SidMapInverse, TypeOK
      <4> QED
        BY <1>2, <2>2, <4>1 DEF Streams, ChannelState
    <3>2. channels'[sidMap'[t]].seq = p
      BY DEF clientVars
    <3> QED
      BY <1>11, <3>1, <3>2 DEF Stands
  <2>3. ASSUME NEW t \in DOMAIN subs, NEW i \in 1 .. Len(replies'), Confirms(i)', replies'[i].sid = t
        PROVE  Stands(t, NoSeq)' /\ \A j \in 1 .. Len(replies') : Carries(j, t)' => i < j
    <3>1. Stands(t, NoSeq) /\ \A j \in 1 .. Len(replies) : Carries(j, t) => i < j
      BY <1>1, <1>2, <2>3 DEF Streams, Confirms
    <3>2. NoSeq \in Nat
      BY DEF NoSeq
    <3> QED
      BY <1>1, <1>11, <3>1, <3>2 DEF Carries
  <2> QED
    BY <1>1, <1>3, <1>11, <2>1, <2>2, <2>3 DEF Streams, clientVars
<1> QED
  BY <1>4, <1>5, <1>8, <1>9, <1>10, <1>12, PartsTyped DEF IInv, Indexed

\* The exchange takes a request.
Serving ==
    /\ link = "open" /\ requests # <<>> /\ requests' = Tail(requests)
    /\ UNCHANGED <<link, session, spent, clientVars>>

LEMMA ServingSends ==
    ASSUME IInv, Serving
    PROVE  /\ TypeOK /\ Sends /\ WireTyped'
           /\ Head(requests) = requests[1] /\ requests[1] \in Request /\ 1 \in 1 .. Len(requests)
           /\ \A i \in 1 .. Len(requests') :
                  \E j \in 1 .. Len(requests) : requests'[i] = requests[j]
           /\ spent' \in [updates : Nat, skips : Nat, losses : Nat]
<1>1. TypeOK /\ spent' \in [updates : Nat, skips : Nat, losses : Nat]
  BY DEF IInv, Indexed, TypeOK, ServerTypeOK, Serving
<1> QED
  BY <1>1, TakenRequests DEF Serving, clientVars

LEMMA RefusalKeeps ==
    ASSUME IInv, Serving, Answer([type |-> "error"]), UNCHANGED nextSid,
           DOMAIN subs' = DOMAIN subs, \A t \in DOMAIN subs : subs'[t] = subs[t]
    PROVE  IInv'
<1> DEFINE m == [type |-> "error"]
<1>1. m \in Reply /\ m.type = "error" /\ replies' = Append(replies, m)
  BY DEF Reply, Answer
<1> HIDE DEF m
<1>2. TypeOK /\ Sends /\ WireTyped' /\ spent' \in [updates : Nat, skips : Nat, losses : Nat]
  BY ServingSends
<1>3. \A t \in DOMAIN subs : Sent(t)' /\ \A p \in Nat : Stands(t, p) => Stands(t, p)'
  <2>1. ASSUME NEW t \in DOMAIN subs
        PROVE  Sent(t)' /\ \A p \in Nat : Stands(t, p) => Stands(t, p)'
    <3>1. Sent(t) /\ ~Numbers(m, t)
      BY <1>1 DEF IInv, Streams, Numbers
    <3> QED
      BY <1>1, <1>2, <3>1, StreamQuiet
  <2> QED
    BY <2>1
<1>4. \A t \in DOMAIN subs : subs'[t] \in Subscription /\ subs'[t].channel = subs[t].channel
  BY <1>2 DEF TypeOK, ServerTypeOK
<1> QED
  BY <1>1, <1>2, <1>3, <1>4, ExchangeSends DEF Serving

LEMMA ServeUpdateKeeps ==
    ASSUME IInv, Serving, NEW r, r = Head(requests), r.cmd = "update_subscription", ServeUpdate(r)
    PROVE  IInv'
<1>1. /\ TypeOK /\ Sends /\ WireTyped' /\ spent' \in [updates : Nat, skips : Nat, losses : Nat]
      /\ r \in Request /\ nextSid' = nextSid
  BY ServingSends DEF ServeUpdate
<1>2. r.markets \subseteq Markets
  BY <1>1 DEF Request
<1>3. CASE r.sid \notin DOMAIN subs
  BY <1>3, RefusalKeeps DEF ServeUpdate
<1>4. CASE r.sid \in DOMAIN subs
  <2> DEFINE s == r.sid
  <2>1. /\ s \in Sids /\ subs[s] \in Subscription /\ subs[s].markets \subseteq Markets
        /\ Data(s) \in Reply /\ Data(s).type = "data" /\ Data(s).sid = s
        /\ Data(s).channel = subs[s].channel /\ Data(s).seq = Number(s) /\ Number(s) \in Nat
        /\ After(s) \in Subscription /\ After(s).channel = subs[s].channel
        /\ ~Numbered(s) => After(s) = subs[s]
    BY <1>1, <1>4, DataOf DEF Subscription
  <2>2. \E m \in Reply, next \in Subscription :
            /\ m.type \in {"ok", "data"} /\ m.sid = s /\ m.seq = Number(s)
            /\ m.type = "data" => m.channel = subs[s].channel
            /\ replies' = Append(replies, m)
            /\ subs' = [subs EXCEPT ![s] = next]
            /\ next.seq = After(s).seq /\ next.first = After(s).first
            /\ next.skipped = After(s).skipped /\ next.channel = After(s).channel
    <3>1. CASE r.action = "get_snapshot"
      <4>1. replies' = Append(replies, Data(s)) /\ subs' = [subs EXCEPT ![s] = After(s)]
        BY <1>4, <3>1 DEF ServeUpdate, Answer
      <4> QED
        BY <2>1, <4>1
    <3>2. CASE r.action # "get_snapshot"
      <4>1. PICK markets \in SUBSET Markets :
                /\ subs' = [subs EXCEPT ![s] = [After(s) EXCEPT !.markets = markets]]
                /\ replies' = Append(replies, [type |-> "ok", sid |-> s, seq |-> Number(s),
                                               markets |-> markets,
                                               skips |-> subs[s].skipped # {}])
        <5>1. subs[s].markets \cup r.markets \in SUBSET Markets /\ subs[s].markets \ r.markets \in SUBSET Markets
          BY <1>2, <2>1
        <5> QED
          BY <1>4, <3>2, <5>1 DEF ServeUpdate, Answer
      <4> DEFINE m == [type |-> "ok", sid |-> s, seq |-> Number(s), markets |-> markets,
                       skips |-> subs[s].skipped # {}]
                 next == [After(s) EXCEPT !.markets = markets]
      <4>2. m \in Reply /\ m.type = "ok" /\ m.sid = s /\ m.seq = Number(s)
        BY <2>1 DEF Reply
      <4>3. /\ next \in Subscription /\ next.seq = After(s).seq /\ next.first = After(s).first
            /\ next.skipped = After(s).skipped /\ next.channel = After(s).channel
        BY <2>1 DEF Subscription
      <4> HIDE DEF m, next
      <4>4. replies' = Append(replies, m) /\ subs' = [subs EXCEPT ![s] = next]
        BY <4>1 DEF m, next
      <4> QED
        BY <4>2, <4>3, <4>4
    <3> QED
      BY <3>1, <3>2
  <2>3. PICK m \in Reply, next \in Subscription :
            /\ m.type \in {"ok", "data"} /\ m.sid = s /\ m.seq = Number(s)
            /\ m.type = "data" => m.channel = subs[s].channel
            /\ replies' = Append(replies, m)
            /\ subs' = [subs EXCEPT ![s] = next]
            /\ next.seq = After(s).seq /\ next.first = After(s).first
            /\ next.skipped = After(s).skipped /\ next.channel = After(s).channel
    BY <2>2
  <2>4. /\ DOMAIN subs' = DOMAIN subs /\ subs'[s] = next
        /\ \A t \in DOMAIN subs \ {s} : subs'[t] = subs[t]
    BY <1>4, <2>3
  <2> HIDE DEF s
  <2>5. s \in DOMAIN subs
    BY <1>4 DEF s
  <2>6. \A t \in DOMAIN subs : Sent(t)' /\ \A p \in Nat : Stands(t, p) => Stands(t, p)'
    BY <2>1, <2>3, <2>4, <2>5, StreamsAfter
  <2>7. \A t \in DOMAIN subs : subs'[t] \in Subscription /\ subs'[t].channel = subs[t].channel
    BY <1>1, <2>1, <2>3, <2>4 DEF TypeOK, ServerTypeOK
  <2> QED
    BY <1>1, <2>3, <2>4, <2>5, <2>6, <2>7, ExchangeSends DEF Serving
<1> QED
  BY <1>3, <1>4

\* What an answer that begins or ends a subscription leaves of the old ones.
LEMMA Quieted ==
    ASSUME IInv, NEW m \in Reply, m.type \in {"subscribed", "unsubscribed"},
           replies' = Append(replies, m),
           NEW s \in DOMAIN subs, subs'[s] = subs[s]
    PROVE  Sent(s)' /\ \A p \in Nat : Stands(s, p) => Stands(s, p)'
<1>1. TypeOK /\ Sent(s) /\ ~Numbers(m, s) /\ m.type # "data"
  BY DEF IInv, Indexed, Streams, Numbers
<1> QED
  BY <1>1, StreamQuiet

LEMMA ServeUnsubscribeKeeps ==
    ASSUME IInv, Serving, NEW r, r = Head(requests), r.cmd = "unsubscribe", ServeUnsubscribe(r)
    PROVE  IInv'
<1>1. /\ TypeOK /\ Sends /\ WireTyped' /\ spent' \in [updates : Nat, skips : Nat, losses : Nat]
      /\ r \in Request /\ r = requests[1] /\ 1 \in 1 .. Len(requests)
      /\ \A i \in 1 .. Len(requests') : \E j \in 1 .. Len(requests) : requests'[i] = requests[j]
  BY ServingSends
<1>2. /\ DOMAIN subs' = DOMAIN subs \ {r.sid} /\ \A t \in DOMAIN subs' : subs'[t] = subs[t]
      /\ nextSid' = nextSid
  <2>1. subs' = Drop(subs, {r.sid}) /\ nextSid' = nextSid
    BY DEF ServeUnsubscribe
  <2> QED
    BY <2>1 DEF Drop, Restrict
<1>3. CASE r.sid \notin DOMAIN subs
  <2>1. Answer([type |-> "error"])
    BY <1>3 DEF ServeUnsubscribe
  <2> QED
    BY <1>2, <1>3, <2>1, RefusalKeeps
<1>4. CASE r.sid \in DOMAIN subs
  <2> DEFINE m == [type |-> "unsubscribed", sid |-> r.sid]
  <2>1. r.sid \in Sids
    BY <1>1 DEF Request
  <2>2. m \in Reply /\ m.type = "unsubscribed" /\ m.sid = r.sid
    BY <2>1 DEF Reply
  <2>3. replies' = Append(replies, m)
    BY <1>4 DEF ServeUnsubscribe, Answer
  <2> HIDE DEF m
  <2>4. replies \in Seq(Reply) /\ Old /\ Known /\ Confirmed /\ Dropped /\ LinkTyped
    BY TypedParts DEF IInv, Indexed, LinkTyped
  <2>5. /\ r.sid \notin DOMAIN sidMap /\ r.sid < nextSid
        /\ \A j \in 1 .. Len(replies) : Confirms(j) => replies[j].sid # r.sid
    BY <1>1, <2>4 DEF Old, Dropped, Ended
  <2>6. /\ replies' \in Seq(Reply) /\ Len(replies') = Len(replies) + 1 /\ Len(replies) \in Nat
        /\ \A i \in 1 .. Len(replies) : replies'[i] = replies[i]
        /\ replies'[Len(replies) + 1] = m
        /\ \A i : Confirms(i)' <=> Confirms(i)
    BY <2>2, <2>3, <2>4, Appended
  <2>7. \A i : Confirms(i) => i \in 1 .. Len(replies)
    BY DEF Confirms
  <2>8. Forgets /\ SidMapInverse' /\ ChannelsTyped' /\ OthersTyped'
    BY IndexesSame, OthersSame DEF Serving, clientVars
  <2>9. LinkTyped'
    BY <1>1, <1>2, <2>4, <2>6 DEF LinkTyped, Serving
  <2>10. Turns'
    BY DEF IInv, Indexed, Turns, Serving, clientVars
  <2>11. \A i \in 1 .. Len(replies') : i \in 1 .. Len(replies) \/ i = Len(replies) + 1
    BY <2>6
  <2>12. Old'
    <3>1. \A s \in DOMAIN sidMap' : s < nextSid'
      BY <1>2, <2>4 DEF Old, Serving, clientVars
    <3>2. \A s \in DOMAIN subs' : s < nextSid'
      BY <1>2, <2>4 DEF Old
    <3>3. \A i \in 1 .. Len(replies') : replies'[i].type # "error" => replies'[i].sid < nextSid'
      BY <1>2, <2>2, <2>4, <2>5, <2>6, <2>11 DEF Old
    <3>4. /\ \A i \in 1 .. Len(requests') :
                 requests'[i].cmd = "unsubscribe" => requests'[i].sid < nextSid'
          /\ \A i \in 1 .. Len(requests') : requests'[i].cmd = "subscribe" => requests'[i].id < nextId'
      BY <1>1, <1>2, <2>4 DEF Old, Serving, clientVars
    <3>5. \A i \in 1 .. Len(replies') : Confirms(i)' => replies'[i].id < nextId'
      BY <2>4, <2>6, <2>7 DEF Old, Serving, clientVars
    <3>6. \A id \in DOMAIN pending' : id < nextId'
      BY <2>4 DEF Old, Serving, clientVars
    <3> QED
      BY <3>1, <3>2, <3>3, <3>4, <3>5, <3>6 DEF Old
  <2>13. Known'
    BY <1>2, <2>4, <2>5 DEF Known, Serving, clientVars
  <2>14. Confirmed'
    <3>1. \A i \in 1 .. Len(requests') :
              requests'[i].cmd = "subscribe" /\ requests'[i].id \in DOMAIN pending'
                  => pending'[requests'[i].id] = requests'[i].channel
      <4>1. ASSUME NEW i \in 1 .. Len(requests'), requests'[i].cmd = "subscribe",
                   requests'[i].id \in DOMAIN pending
            PROVE  pending[requests'[i].id] = requests'[i].channel
        <5>1. PICK j \in 1 .. Len(requests) : requests'[i] = requests[j]
          BY <1>1
        <5> QED
          BY <2>4, <4>1, <5>1 DEF Confirmed
      <4> QED
        BY <4>1 DEF Serving, clientVars
    <3>2. ASSUME NEW i \in 1 .. Len(replies'), Confirms(i)'
          PROVE  /\ replies'[i].sid \notin DOMAIN sidMap'
                 /\ link' = "open" =>
                        /\ replies'[i].sid \in DOMAIN subs'
                        /\ replies'[i].id \in DOMAIN pending'
                               => pending'[replies'[i].id] = subs'[replies'[i].sid].channel
                 /\ replies'[i].id \in DOMAIN pending' /\ pending'[replies'[i].id] \in DOMAIN channels'
                        => channels'[pending'[replies'[i].id]].sid = NoSid
      <4>1. i \in 1 .. Len(replies) /\ Confirms(i) /\ replies'[i] = replies[i]
        BY <2>6, <2>7, <3>2
      <4>2. replies[i].sid # r.sid
        BY <2>5, <4>1
      <4> QED
        BY <1>2, <2>4, <4>1, <4>2 DEF Confirmed, Serving, clientVars
    <3>3. ASSUME NEW i \in 1 .. Len(replies'), NEW j \in 1 .. Len(replies'),
                 Confirms(i)', Confirms(j)', i # j
          PROVE  /\ replies'[i].sid # replies'[j].sid
                 /\ replies'[i].id \in DOMAIN pending' /\ replies'[j].id \in DOMAIN pending'
                        => pending'[replies'[i].id] # pending'[replies'[j].id]
      <4>1. /\ i \in 1 .. Len(replies) /\ Confirms(i) /\ replies'[i] = replies[i]
            /\ j \in 1 .. Len(replies) /\ Confirms(j) /\ replies'[j] = replies[j]
        BY <2>6, <2>7, <3>3
      <4> QED
        BY <2>4, <3>3, <4>1 DEF Confirmed, Serving, clientVars
    <3> QED
      BY <3>1, <3>2, <3>3 DEF Confirmed
  <2>15. Dropped'
    <3>1. ASSUME NEW sid, Ended(sid) PROVE Ended(sid)'
      BY <2>6, <2>7, <3>1 DEF Ended, Serving, clientVars
    <3>2. Ended(r.sid)'
      BY <2>5, <3>1 DEF Ended
    <3>3. ASSUME NEW i \in 1 .. Len(requests'), requests'[i].cmd = "unsubscribe"
          PROVE  Ended(requests[i].sid)'
      <4>1. PICK k \in 1 .. Len(requests) : requests'[i] = requests[k]
        BY <1>1
      <4>2. PICK sid : sid = requests[k].sid
        OBVIOUS
      <4>3. Ended(sid)'
        BY <2>4, <3>1, <3>3, <4>1, <4>2 DEF Dropped
      <4> QED
        BY <4>1, <4>2, <4>3 DEF Ended
    <3>4. ASSUME NEW i \in 1 .. Len(replies'), replies'[i].type = "unsubscribed"
          PROVE  Ended(replies[i].sid)'
      <4>1. CASE i \in 1 .. Len(replies)
        <5>1. PICK sid : sid = replies[i].sid
          OBVIOUS
        <5>2. Ended(sid)'
          BY <2>4, <2>6, <3>1, <3>4, <4>1, <5>1 DEF Dropped
        <5> QED
          BY <2>6, <4>1, <5>1, <5>2 DEF Ended
      <4>2. CASE i = Len(replies) + 1
        <5>1. replies'[i].sid = r.sid
          BY <2>2, <2>6, <4>2
        <5> QED
          BY <3>2, <5>1 DEF Ended
      <4> QED
        BY <2>11, <4>1, <4>2
    <3> QED
      BY <3>3, <3>4 DEF Dropped
  <2>16. Streams'
    <3>1. nextSid \notin DOMAIN subs'
      BY <1>2, <2>4 DEF Old, LinkTyped, Sids
    <3> QED
      BY <1>2, <2>2, <2>3, <3>1, Quieted, StreamsAppended DEF Serving, clientVars
  <2> QED
    BY <1>1, <2>8, <2>9, <2>10, <2>12, <2>13, <2>14, <2>15, <2>16, PartsTyped DEF IInv, Indexed
<1> QED
  BY <1>3, <1>4

LEMMA ServeSubscribeKeeps ==
    ASSUME IInv, Serving, NEW r, r = Head(requests), r.cmd = "subscribe", ServeSubscribe(r)
    PROVE  IInv'
<1>1. /\ TypeOK /\ Sends /\ WireTyped' /\ spent' \in [updates : Nat, skips : Nat, losses : Nat]
      /\ r \in Request /\ r = requests[1] /\ 1 \in 1 .. Len(requests)
      /\ \A i \in 1 .. Len(requests') : \E j \in 1 .. Len(requests) : requests'[i] = requests[j]
  BY ServingSends
<1>2. CASE SubscribedTo(r.channel)
  BY <1>2, RefusalKeeps DEF ServeSubscribe
<1>3. CASE ~SubscribedTo(r.channel)
  <2> DEFINE m == [type |-> "subscribed", id |-> r.id, sid |-> nextSid]
             sub == [channel |-> r.channel, markets |-> r.markets, seq |-> 0,
                     first |-> NoSeq, skipped |-> {}]
  <2>1. r.id \in Nat /\ r.channel \in Channels /\ r.markets \subseteq Markets
    BY <1>1 DEF Request
  <2>2. replies \in Seq(Reply) /\ Old /\ Known /\ Confirmed /\ Dropped /\ LinkTyped /\ nextSid \in Sids
    BY TypedParts DEF IInv, Indexed, LinkTyped
  <2>3. m \in Reply /\ m.type = "subscribed" /\ m.id = r.id /\ m.sid = nextSid
    BY <2>1, <2>2 DEF Reply
  <2>4. /\ sub \in Subscription /\ sub.channel = r.channel /\ sub.seq = 0 /\ sub.first = NoSeq
        /\ sub.skipped = {}
    BY <2>1 DEF Subscription, NoSeq
  <2>5. replies' = Append(replies, m) /\ subs' = Put(subs, nextSid, sub) /\ nextSid' = nextSid + 1
    BY <1>3 DEF ServeSubscribe, Answer
  <2> HIDE DEF m, sub
  <2>6. /\ replies' \in Seq(Reply) /\ Len(replies') = Len(replies) + 1 /\ Len(replies) \in Nat
        /\ \A i \in 1 .. Len(replies) : replies'[i] = replies[i]
        /\ replies'[Len(replies) + 1] = m
        /\ \A i : Confirms(i)' <=> Confirms(i) \/ i = Len(replies) + 1
    BY <2>2, <2>3, <2>5, Appended
  <2>7. \A i : Confirms(i) => i \in 1 .. Len(replies)
    BY DEF Confirms
  <2>8. /\ nextSid \in Nat /\ nextSid' \in Sids
        /\ \A s \in DOMAIN sidMap : s \in Nat /\ s < nextSid
        /\ \A s \in DOMAIN subs : s \in Nat /\ s < nextSid
        /\ r.id < nextId
    <3>1. nextSid \in Nat /\ nextSid # 0
      BY <2>2 DEF Sids, NoSid
    <3>2. nextSid' \in Sids
      BY <2>5, <3>1 DEF Sids, NoSid
    <3>3. DOMAIN sidMap \subseteq Nat /\ DOMAIN subs \subseteq Nat
      BY <1>1 DEF TypeOK, ServerTypeOK, Sids
    <3>4. /\ \A s \in DOMAIN sidMap : s < nextSid
          /\ \A s \in DOMAIN subs : s < nextSid
          /\ r.id < nextId
      BY <1>1, <2>2 DEF Old
    <3> QED
      BY <3>1, <3>2, <3>3, <3>4
  <2>9. /\ DOMAIN subs' = DOMAIN subs \cup {nextSid} /\ subs'[nextSid] = sub
        /\ \A s \in DOMAIN subs : subs'[s] = subs[s] /\ s # nextSid
    <3>1. \A s \in DOMAIN subs : s # nextSid
      BY <2>8
    <3> QED
      BY <2>5, <3>1 DEF Put
  <2>10. Forgets /\ SidMapInverse' /\ ChannelsTyped' /\ OthersTyped'
    BY IndexesSame, OthersSame DEF Serving, clientVars
  <2>11. LinkTyped'
    BY <1>1, <2>2, <2>4, <2>6, <2>8, <2>9 DEF LinkTyped, Serving
  <2>12. Turns'
    BY DEF IInv, Indexed, Turns, Serving, clientVars
  <2>13. \A i \in 1 .. Len(replies') : i \in 1 .. Len(replies) \/ i = Len(replies) + 1
    BY <2>6
  <2>14. ASSUME NEW i \in 1 .. Len(replies), replies[i].type # "error"
         PROVE  replies[i].sid \in Nat /\ replies[i].sid < nextSid /\ replies[i].sid # nextSid
    <3>1. replies[i] \in Reply /\ replies[i].sid < nextSid
      BY <2>2, <2>14, Elements DEF Old
    <3>2. replies[i].sid \in Nat
      BY <2>14, <3>1 DEF Reply, Sids
    <3> QED
      BY <2>8, <3>1, <3>2
  <2>15. ASSUME NEW i \in 1 .. Len(requests), requests[i].cmd = "unsubscribe"
         PROVE  requests[i].sid \in Nat /\ requests[i].sid < nextSid /\ requests[i].sid # nextSid
    <3>1. requests[i] \in Request /\ requests[i].sid < nextSid
      BY <1>1, <2>2, <2>15, Elements DEF Old, TypeOK, ServerTypeOK
    <3>2. requests[i].sid \in Nat
      BY <2>15, <3>1 DEF Request, Sids
    <3> QED
      BY <2>8, <3>1, <3>2
  <2>16. Old'
    <3>1. \A s \in DOMAIN sidMap' : s < nextSid'
      BY <2>5, <2>8 DEF Serving, clientVars
    <3>2. \A s \in DOMAIN subs' : s < nextSid'
      BY <2>5, <2>8, <2>9
    <3>3. \A i \in 1 .. Len(replies') : replies'[i].type # "error" => replies'[i].sid < nextSid'
      BY <2>3, <2>5, <2>6, <2>8, <2>13, <2>14
    <3>4. /\ \A i \in 1 .. Len(requests') :
                 requests'[i].cmd = "unsubscribe" => requests'[i].sid < nextSid'
          /\ \A i \in 1 .. Len(requests') : requests'[i].cmd = "subscribe" => requests'[i].id < nextId'
      <4>1. ASSUME NEW i \in 1 .. Len(requests')
            PROVE  /\ requests'[i].cmd = "unsubscribe" => requests'[i].sid < nextSid + 1
                   /\ requests'[i].cmd = "subscribe" => requests'[i].id < nextId
        <5>1. PICK k \in 1 .. Len(requests) : requests'[i] = requests[k]
          BY <1>1
        <5>2. requests[k].cmd = "subscribe" => requests[k].id < nextId
          BY <2>2 DEF Old
        <5>3. requests[k].cmd = "unsubscribe" => requests[k].sid < nextSid + 1
          BY <2>8, <2>15
        <5> QED
          BY <5>1, <5>2, <5>3
      <4> QED
        BY <2>5, <4>1 DEF Serving, clientVars
    <3>5. \A i \in 1 .. Len(replies') : Confirms(i)' => replies'[i].id < nextId'
      BY <2>2, <2>3, <2>6, <2>7, <2>8 DEF Old, Serving, clientVars
    <3>6. \A id \in DOMAIN pending' : id < nextId'
      BY <2>2 DEF Old, Serving, clientVars
    <3> QED
      BY <3>1, <3>2, <3>3, <3>4, <3>5, <3>6 DEF Old
  <2>17. Known'
    <3>1. link = "open" /\ link' = "open"
      BY DEF Serving
    <3>2. \A s \in DOMAIN subs : subs[s].channel # r.channel
      BY <1>3 DEF SubscribedTo
    <3> QED
      BY <2>2, <2>4, <2>9, <3>1, <3>2 DEF Known, Serving, clientVars
  <2>18. \A i : Confirms(i) => /\ replies[i].sid \in DOMAIN subs
                               /\ replies[i].id \in DOMAIN pending =>
                                      /\ pending[replies[i].id] = subs[replies[i].sid].channel
                                      /\ pending[replies[i].id] # r.channel
    BY <1>3, <2>2, <2>7 DEF Confirmed, SubscribedTo, Serving
  <2>19. r.id \in DOMAIN pending =>
             /\ pending[r.id] = r.channel
             /\ r.channel \in DOMAIN channels => channels[r.channel].sid = NoSid
    <3>1. r.id \in DOMAIN pending => pending[r.id] = r.channel
      BY <1>1, <2>2 DEF Confirmed
    <3>2. ASSUME r.channel \in DOMAIN channels, channels[r.channel].sid # NoSid
          PROVE  FALSE
      <4>1. /\ channels[r.channel].sid \in DOMAIN sidMap
            /\ sidMap[channels[r.channel].sid] = r.channel
        BY <3>2 DEF IInv, Indexed, SidMapInverse
      <4> QED
        BY <1>3, <2>2, <4>1 DEF Known, Serving, SubscribedTo
    <3> QED
      BY <3>1, <3>2
  <2>20. Confirmed'
    <3>1. \A i \in 1 .. Len(requests') :
              requests'[i].cmd = "subscribe" /\ requests'[i].id \in DOMAIN pending'
                  => pending'[requests'[i].id] = requests'[i].channel
      <4>1. ASSUME NEW i \in 1 .. Len(requests'), requests'[i].cmd = "subscribe",
                   requests'[i].id \in DOMAIN pending
            PROVE  pending[requests'[i].id] = requests'[i].channel
        <5>1. PICK j \in 1 .. Len(requests) : requests'[i] = requests[j]
          BY <1>1
        <5> QED
          BY <2>2, <4>1, <5>1 DEF Confirmed
      <4> QED
        BY <4>1 DEF Serving, clientVars
    <3>2. ASSUME NEW i \in 1 .. Len(replies'), Confirms(i)'
          PROVE  /\ replies'[i].sid \notin DOMAIN sidMap'
                 /\ link' = "open" =>
                        /\ replies'[i].sid \in DOMAIN subs'
                        /\ replies'[i].id \in DOMAIN pending'
                               => pending'[replies'[i].id] = subs'[replies'[i].sid].channel
                 /\ replies'[i].id \in DOMAIN pending' /\ pending'[replies'[i].id] \in DOMAIN channels'
                        => channels'[pending'[replies'[i].id]].sid = NoSid
      <4>1. CASE i \in 1 .. Len(replies) /\ Confirms(i)
        <5>1. replies'[i] = replies[i]
          BY <2>6, <4>1
        <5> QED
          BY <2>2, <2>9, <2>18, <4>1, <5>1 DEF Confirmed, Serving, clientVars
      <4>2. CASE i = Len(replies) + 1
        <5>1. replies'[i].sid = nextSid /\ replies'[i].id = r.id
          BY <2>3, <2>6, <4>2
        <5>2. nextSid \notin DOMAIN sidMap
          BY <2>8
        <5> QED
          BY <2>4, <2>9, <2>19, <5>1, <5>2 DEF Serving, clientVars
      <4> QED
        BY <2>6, <2>7, <3>2, <4>1, <4>2
    <3>3. ASSUME NEW i \in 1 .. Len(replies'), NEW j \in 1 .. Len(replies'),
                 Confirms(i)', Confirms(j)', i # j
          PROVE  /\ replies'[i].sid # replies'[j].sid
                 /\ replies'[i].id \in DOMAIN pending' /\ replies'[j].id \in DOMAIN pending'
                        => pending'[replies'[i].id] # pending'[replies'[j].id]
      <4>1. \A k \in {i, j} : \/ /\ k \in 1 .. Len(replies) /\ Confirms(k) /\ replies'[k] = replies[k]
                                 /\ replies[k].sid # nextSid
                              \/ /\ k = Len(replies) + 1 /\ replies'[k].sid = nextSid
                                 /\ replies'[k].id = r.id
        BY <2>3, <2>6, <2>7, <2>9, <2>18, <3>3
      <4>2. CASE i \in 1 .. Len(replies) /\ Confirms(i) /\ j \in 1 .. Len(replies) /\ Confirms(j)
        BY <2>2, <2>6, <3>3, <4>2 DEF Confirmed, Serving, clientVars
      <4>3. CASE i = Len(replies) + 1 \/ j = Len(replies) + 1
        BY <2>6, <2>18, <2>19, <3>3, <4>1, <4>3 DEF Serving, clientVars
      <4> QED
        BY <4>1, <4>2, <4>3
    <3> QED
      BY <3>1, <3>2, <3>3 DEF Confirmed
  <2>21. ASSUME NEW j \in 1 .. Len(replies'), Confirms(j)'
         PROVE  \/ j \in 1 .. Len(replies) /\ Confirms(j) /\ replies'[j] = replies[j]
                \/ replies'[j].sid = nextSid
    BY <2>3, <2>6, <2>7, <2>21
  <2>22. Dropped'
    <3>1. ASSUME NEW sid, Ended(sid), sid # nextSid PROVE Ended(sid)'
      BY <2>21, <3>1 DEF Ended, Serving, clientVars
    <3>2. ASSUME NEW i \in 1 .. Len(requests'), requests'[i].cmd = "unsubscribe"
          PROVE  Ended(requests[i].sid)'
      <4>1. PICK k \in 1 .. Len(requests) : requests'[i] = requests[k]
        BY <1>1
      <4>2. PICK sid : sid = requests[k].sid
        OBVIOUS
      <4>3. Ended(sid) /\ sid # nextSid
        BY <2>2, <2>15, <3>2, <4>1, <4>2 DEF Dropped
      <4>4. Ended(sid)'
        BY <3>1, <4>3
      <4> QED
        BY <4>1, <4>2, <4>4 DEF Ended
    <3>3. ASSUME NEW i \in 1 .. Len(replies'), replies'[i].type = "unsubscribed"
          PROVE  Ended(replies[i].sid)'
      <4>1. i \in 1 .. Len(replies) /\ replies'[i] = replies[i]
        BY <2>3, <2>6, <2>13, <3>3
      <4>2. PICK sid : sid = replies[i].sid
        OBVIOUS
      <4>3. Ended(sid) /\ sid # nextSid
        BY <2>2, <2>14, <3>3, <4>1, <4>2 DEF Dropped
      <4>4. Ended(sid)'
        BY <3>1, <4>3
      <4> QED
        BY <4>1, <4>2, <4>4 DEF Ended
    <3> QED
      BY <3>2, <3>3 DEF Dropped
  <2>23. Streams'
    <3>1. \A s \in DOMAIN subs : Sent(s)' /\ \A p \in Nat : Stands(s, p) => Stands(s, p)'
      BY <2>3, <2>5, <2>9, Quieted
    <3>2. UNCHANGED <<channels, sidMap>>
      BY DEF Serving, clientVars
    <3> QED
      BY <2>3, <2>4, <2>5, <2>9, <3>1, <3>2, StreamsAppended
  <2> QED
    BY <1>1, <2>10, <2>11, <2>12, <2>16, <2>17, <2>20, <2>22, <2>23, PartsTyped DEF IInv, Indexed
<1> QED
  BY <1>2, <1>3

LEMMA ServeKeeps ==
    ASSUME IInv, Serve, UNCHANGED clientVars
    PROVE  IInv'
BY ServeSubscribeKeeps, ServeUnsubscribeKeeps, ServeUpdateKeeps DEF Serve, Serving

LEMMA ExchangeKeeps ==
    ASSUME IInv, ServerNext, UNCHANGED clientVars
    PROVE  IInv'
BY ServeKeeps, PublishKeeps, SkipKeeps, LoseKeeps DEF ServerNext

-----------------------------------------------------------------------------
(* A message is read.                                                      *)

LEMMA Taken ==
    ASSUME IInv, NEW type, Reading(type)
    PROVE  /\ TypeOK /\ replies \in Seq(Reply)
           /\ Len(replies) \in Nat \ {0} /\ Len(replies') = Len(replies) - 1
           /\ \A i \in 1 .. Len(replies') : i + 1 \in 1 .. Len(replies) /\ replies'[i] = replies[i + 1]
           /\ Head(replies) = replies[1] /\ replies[1] \in Reply /\ replies[1].type = type
           /\ 1 \in 1 .. Len(replies)
           /\ \A s : \A i \in 1 .. Len(replies') : Carries(i, s)' <=> Carries(i + 1, s)
           /\ \A i \in 1 .. Len(replies') : Confirms(i)' <=> Confirms(i + 1)
           /\ Reads /\ Holds /\ LinkTyped'
           /\ listener = "reading" /\ link # "none" /\ recovery.left = {}
           /\ UNCHANGED <<link, session, subs, nextSid, spent>>
           /\ UNCHANGED <<listening, nextId, op, sweep, resub, recovery, called>>
<1>1. /\ replies # <<>> /\ replies' = Tail(replies) /\ Head(replies).type = type
      /\ listener = "reading"
      /\ UNCHANGED <<link, session, subs, nextSid, spent>>
      /\ UNCHANGED <<listening, nextId, op, sweep, resub, recovery, called>>
  BY DEF Reading
<1>2. TypeOK /\ replies \in Seq(Reply) /\ LinkTyped
  BY TypedParts DEF IInv, Indexed, LinkTyped
<1>3. /\ replies' \in Seq(Reply) /\ Len(replies') = Len(replies) - 1 /\ Len(replies) \in Nat \ {0}
      /\ \A i \in 1 .. Len(replies') : replies'[i] = replies[i + 1]
      /\ Head(replies) = replies[1] /\ replies[1] \in Reply
  BY <1>1, <1>2, TailElements
<1>4. 1 \in 1 .. Len(replies) /\ \A i \in 1 .. Len(replies') : i + 1 \in 1 .. Len(replies)
  BY <1>3
<1>5. /\ \A s : \A i \in 1 .. Len(replies') : Carries(i, s)' <=> Carries(i + 1, s)
      /\ \A i \in 1 .. Len(replies') : Confirms(i)' <=> Confirms(i + 1)
  BY <1>3, <1>4 DEF Carries, Confirms
<1>6. Reads
  <2>1. 1 \in Nat
    OBVIOUS
  <2> QED
    BY <1>3, <1>4, <2>1 DEF Reads
<1>7. Holds
  BY <1>1 DEF Holds, IInv, Indexed, Known
<1>8. LinkTyped'
  BY <1>1, <1>2, <1>3 DEF LinkTyped
<1>9. link # "none" /\ recovery.left = {}
  BY <1>1 DEF IInv, Indexed, Turns
<1> QED
  BY <1>1, <1>2, <1>3, <1>4, <1>5, <1>6, <1>7, <1>8, <1>9

\* What a message that is read does to the client's place in subscription s.
Moves(s) ==
    \/ /\ s \in DOMAIN sidMap
       /\ channels'[sidMap'[s]].seq = channels[sidMap[s]].seq
       /\ Carries(1, s) => channels[sidMap[s]].seq # NoSeq
    \/ /\ s \in DOMAIN sidMap
       /\ Carries(1, s)
       /\ channels'[sidMap'[s]].seq = replies[1].seq
       /\ \/ channels[sidMap[s]].seq = NoSeq
          \/ channels'[sidMap'[s]].seq = channels[sidMap[s]].seq + 1
    \/ Confirms(1) /\ replies[1].sid = s /\ channels'[sidMap'[s]].seq = NoSeq

LEMMA StartsRead ==
    ASSUME IInv, NEW type, Reading(type), NEW s, Starts(s), ~Carries(1, s)
    PROVE  Starts(s)'
<1>1. CASE subs[s].first = NoSeq
  BY <1>1, Taken DEF Starts
<1>2. CASE subs[s].first # NoSeq
  <2>1. PICK j \in 1 .. Len(replies) : /\ Carries(j, s) /\ replies[j].seq = subs[s].first
                                       /\ \A i \in 1 .. j - 1 : ~Carries(i, s)
    BY <1>2 DEF Starts
  <2>2. PICK k : k = j - 1
    OBVIOUS
  <2>3. /\ Len(replies) \in Nat \ {0} /\ Len(replies') = Len(replies) - 1
        /\ \A i \in 1 .. Len(replies') : replies'[i] = replies[i + 1]
        /\ \A i \in 1 .. Len(replies') : Carries(i, s)' <=> Carries(i + 1, s)
        /\ subs' = subs
    BY Taken
  <2>4. j # 1
    BY <2>1
  <2>5. k \in 1 .. Len(replies') /\ k + 1 = j
    BY <2>2, <2>3, <2>4
  <2>6. Carries(k, s)' /\ replies'[k].seq = subs'[s].first
    BY <2>1, <2>3, <2>5
  <2>7. \A i \in 1 .. k - 1 : ~Carries(i, s)'
    <3>1. ASSUME NEW i \in 1 .. k - 1 PROVE i \in 1 .. Len(replies') /\ i + 1 \in 1 .. j - 1
      BY <2>3, <2>5
    <3> QED
      BY <2>1, <2>3, <3>1
  <2> QED
    BY <2>5, <2>6, <2>7 DEF Starts
<1> QED
  BY <1>1, <1>2

LEMMA SentRead ==
    ASSUME IInv, NEW type, Reading(type), NEW s \in DOMAIN subs
    PROVE  Sent(s)'
<1>1. /\ \A i \in 1 .. Len(replies') : i + 1 \in 1 .. Len(replies) /\ replies'[i] = replies[i + 1]
      /\ \A i \in 1 .. Len(replies') : Carries(i, s)' <=> Carries(i + 1, s)
      /\ subs' = subs /\ Sent(s)
  BY Taken DEF IInv, Streams
<1> QED
  BY <1>1 DEF Sent

\* The new place is one where the client may stand.
LEMMA MovesStand ==
    ASSUME IInv, NEW type, Reading(type), NEW s \in DOMAIN subs, s \in DOMAIN sidMap', Moves(s)
    PROVE  Stands(s, channels[sidMap[s]].seq)'
<1> DEFINE p == channels[sidMap[s]].seq
           q == channels'[sidMap'[s]].seq
<1>1. /\ TypeOK /\ SidMapInverse /\ Sent(s) /\ subs' = subs /\ NoSeq = 0
      /\ s \in DOMAIN sidMap => Stands(s, p)
      /\ \A i \in 1 .. Len(replies) : Confirms(i) /\ replies[i].sid = s =>
             /\ Stands(s, NoSeq)
             /\ \A j \in 1 .. Len(replies) : Carries(j, s) => i < j
      /\ 1 \in 1 .. Len(replies) /\ replies[1] \in Reply
  BY Taken DEF IInv, Indexed, Streams, NoSeq
<1>2. /\ subs[s].seq \in Nat /\ subs[s].first \in Nat /\ subs[s].skipped \subseteq Nat
  BY <1>1 DEF TypeOK, ServerTypeOK, Subscription
<1>3. s \in DOMAIN sidMap => p \in Nat
  BY <1>1 DEF SidMapInverse, TypeOK, ChannelState
<1> SUFFICES ASSUME NEW n, n = q PROVE Stands(s, n)'
  BY DEF Stands
<1>4. CASE s \in DOMAIN sidMap /\ q = p /\ (Carries(1, s) => p # NoSeq)
  <2>1. p = NoSeq => Starts(s)'
    BY <1>1, <1>4, StartsRead DEF Stands
  <2> QED
    BY <1>1, <1>4, <2>1 DEF Stands
<1>5. CASE /\ s \in DOMAIN sidMap /\ Carries(1, s) /\ q = replies[1].seq
           /\ p = NoSeq \/ q = p + 1
  <2>1. /\ q \in Nat /\ q # NoSeq /\ subs[s].first # NoSeq /\ subs[s].first <= q
        /\ q <= subs[s].seq /\ q \notin subs[s].skipped
    <3>1. q \in Nat /\ q # NoSeq
      BY <1>1, <1>5 DEF Carries, Reply
    <3> QED
      BY <1>1, <1>5, <3>1 DEF Sent
  <2>2. CASE p = NoSeq
    <3>1. PICK j \in 1 .. Len(replies) : /\ Carries(j, s) /\ replies[j].seq = subs[s].first
                                         /\ \A i \in 1 .. j - 1 : ~Carries(i, s)
      BY <1>1, <1>5, <2>1, <2>2 DEF Stands, Starts
    <3>2. j = 1
      <4>1. 1 \in 1 .. j - 1 \/ j = 1
        OBVIOUS
      <4> QED
        BY <1>5, <3>1, <4>1
    <3>3. q = subs[s].first
      BY <1>5, <3>1, <3>2
    <3>4. \A k \in subs[s].skipped : k < subs[s].first \/ k > q
      BY <1>2, <2>1, <3>3
    <3> QED
      BY <1>1, <2>1, <3>4 DEF Stands
  <2>3. CASE p # NoSeq /\ q = p + 1
    <3>1. \A k \in subs[s].skipped : k < subs[s].first \/ k > p
      BY <1>1, <1>5, <2>3 DEF Stands
    <3>2. \A k \in subs[s].skipped : k < subs[s].first \/ k > q
      BY <1>2, <1>3, <1>5, <2>1, <2>3, <3>1
    <3> QED
      BY <1>1, <2>1, <3>2 DEF Stands
  <2> QED
    BY <1>5, <2>2, <2>3
<1>6. CASE Confirms(1) /\ replies[1].sid = s /\ q = NoSeq
  <2>1. Stands(s, NoSeq) /\ ~Carries(1, s)
    <3>1. Carries(1, s) => 1 < 1
      BY <1>1, <1>6
    <3> QED
      BY <1>1, <1>6, <3>1
  <2>2. Starts(s)'
    BY <2>1, StartsRead DEF Stands
  <2> QED
    BY <1>1, <1>6, <2>1, <2>2 DEF Stands
<1> QED
  BY <1>4, <1>5, <1>6 DEF Moves

LEMMA StreamsRead ==
    ASSUME IInv, NEW type, Reading(type), Unread',
           \A s \in DOMAIN subs : s \in DOMAIN sidMap' => Moves(s)
    PROVE  Streams'
<1>1. subs' = subs
  BY Taken
<1>2. ASSUME NEW s \in DOMAIN subs, NEW i \in 1 .. Len(replies'), Confirms(i)', replies'[i].sid = s
      PROVE  Stands(s, NoSeq)' /\ \A j \in 1 .. Len(replies') : Carries(j, s)' => i < j
  <2>1. i + 1 \in 1 .. Len(replies) /\ Confirms(i + 1) /\ replies[i + 1].sid = s
    BY <1>2, Taken
  <2>2. Stands(s, NoSeq) /\ \A j \in 1 .. Len(replies) : Carries(j, s) => i + 1 < j
    BY <2>1 DEF IInv, Streams
  <2>3. ~Carries(1, s)
    <3>1. Carries(1, s) => i + 1 < 1
      BY <2>2, Taken
    <3> QED
      BY <3>1
  <2>4. Starts(s)'
    BY <2>2, <2>3, StartsRead DEF Stands
  <2>5. \A j \in 1 .. Len(replies') : Carries(j, s)' => i < j
    <3>1. ASSUME NEW j \in 1 .. Len(replies'), Carries(j, s)' PROVE i < j
      <4>1. i + 1 < j + 1
        BY <2>2, <3>1, Taken
      <4> QED
        BY <4>1
    <3> QED
      BY <3>1
  <2> QED
    BY <1>1, <2>2, <2>4, <2>5 DEF Stands
<1> QED
  BY <1>1, <1>2, SentRead, MovesStand DEF Streams

\* The handler of a message that tells of no new subscription.
LEMMA ReadKeeps ==
    ASSUME IInv, NEW type, Reading(type), Forgets, Sends,
           WireTyped', SidMapInverse', ChannelsTyped',
           listener' \in {"reading", "off", "sleeping"},
           listener' = "sleeping" => DOMAIN sidMap' = {},
           gap' \in Channels \cup {NoChannel},
           Unread',
           \A s \in DOMAIN subs : s \in DOMAIN sidMap' => Moves(s)
    PROVE  IInv'
<1>1. OthersTyped'
  BY Taken, TypedParts DEF IInv, Indexed, OthersTyped
<1>2. Turns'
  BY Taken DEF IInv, Indexed, Turns
<1>3. Old' /\ Known' /\ Confirmed' /\ Dropped'
  BY Taken, IndexesKept DEF IInv
<1>4. TypeOK'
  BY <1>1, Taken, PartsTyped
<1> QED
  BY <1>2, <1>3, <1>4, StreamsRead DEF IInv, Indexed

LEMMA HandleErrorKeeps ==
    ASSUME IInv, HandleError
    PROVE  IInv'
<1>1. Reading("error") /\ UNCHANGED <<requests, channels, sidMap, pending, listener, gap>>
  BY DEF HandleError, KeepReading
<1>2. Forgets /\ SidMapInverse' /\ ChannelsTyped' /\ Positions
  BY <1>1, IndexesSame
<1>3. Sends /\ WireTyped'
  BY <1>1, Taken, NothingSent DEF NoSend
<1>4. ~ \E s : Carries(1, s)
  BY <1>1, Taken DEF Carries
<1>5. Unread' /\ \A s \in DOMAIN sidMap' : Moves(s)
  BY <1>1, <1>2, <1>4 DEF Moves, Positions, IInv, Streams
<1>6. listener' = "reading" /\ gap' \in Channels \cup {NoChannel}
  BY <1>1, Taken DEF TypeOK
<1> QED
  BY <1>1, <1>2, <1>3, <1>5, <1>6, ReadKeeps

\* The sid of an "unsubscribed" is one that the client gave up when it sent the command.
LEMMA HandleUnsubscribedKeeps ==
    ASSUME IInv, HandleUnsubscribed
    PROVE  IInv'
<1>1. /\ Reading("unsubscribed") /\ UNCHANGED <<requests, channels, pending, listener, gap>>
      /\ sidMap' = Drop(sidMap, {Head(replies).sid})
  BY DEF HandleUnsubscribed, KeepReading
<1>2. /\ TypeOK /\ SidMapInverse /\ Dropped /\ Streams
      /\ 1 \in 1 .. Len(replies) /\ replies[1].type = "unsubscribed" /\ Head(replies) = replies[1]
      /\ listener = "reading" /\ gap \in Channels \cup {NoChannel}
  BY <1>1, Taken DEF IInv, Indexed, TypeOK
<1>3. replies[1].sid \notin DOMAIN sidMap
  BY <1>2 DEF Dropped, Ended
<1>4. DOMAIN sidMap' = DOMAIN sidMap /\ \A s \in DOMAIN sidMap : sidMap'[s] = sidMap[s]
  BY <1>1, <1>2, <1>3 DEF Drop, Restrict
<1>5. Forgets /\ SidMapInverse' /\ ChannelsTyped'
  <2>1. Forgets
    BY <1>1, <1>4 DEF Forgets
  <2>2. SidMapInverse'
    BY <1>1, <1>2, <1>4 DEF SidMapInverse
  <2>3. ChannelsTyped'
    BY <1>1, <1>2, <1>4 DEF ChannelsTyped, TypeOK
  <2> QED
    BY <2>1, <2>2, <2>3
<1>6. Sends /\ WireTyped'
  BY <1>1, Taken, NothingSent DEF NoSend
<1>7. ~ \E s : Carries(1, s)
  BY <1>2 DEF Carries
<1>8. Unread' /\ \A s \in DOMAIN sidMap' : Moves(s)
  BY <1>1, <1>2, <1>4, <1>7 DEF Moves, Streams, Unread
<1> QED
  BY <1>1, <1>2, <1>5, <1>6, <1>8, ReadKeeps

\* A message with a number, on a channel that the client keeps.
LEMMA CheckKeeps ==
    ASSUME IInv, NEW type \in {"ok", "data"}, Reading(type),
           UNCHANGED <<requests, sidMap, pending>>,
           replies[1].sid \in DOMAIN sidMap, NEW c, c = sidMap[replies[1].sid],
           NEW chs, DOMAIN chs = DOMAIN channels,
           \A d \in DOMAIN chs : /\ chs[d] \in ChannelState /\ chs[d].sid = channels[d].sid
                                 /\ chs[d].seq = channels[d].seq,
           CheckAndUpdateSeq(chs, c, replies[1].seq)
    PROVE  IInv'
<1> DEFINE sid == replies[1].sid
           seq == replies[1].seq
<1>1. /\ TypeOK /\ SidMapInverse /\ Streams /\ listener = "reading"
      /\ gap \in Channels \cup {NoChannel}
      /\ 1 \in 1 .. Len(replies) /\ replies[1].type = type /\ replies[1] \in Reply
  BY Taken DEF IInv, Indexed, TypeOK
<1>2. /\ c \in DOMAIN channels /\ channels[c].sid = sid /\ c \in Channels /\ seq \in Nat
      /\ chs[c] \in ChannelState
  BY <1>1 DEF SidMapInverse, TypeOK, Reply
<1>3. /\ listener' \in {"reading", "off"} /\ gap' \in Channels \cup {NoChannel}
  BY <1>1, <1>2 DEF CheckAndUpdateSeq, KeepReading
<1>4. /\ DOMAIN channels' = DOMAIN channels
      /\ \A d \in DOMAIN channels : channels'[d] \in ChannelState /\ channels'[d].sid = channels[d].sid
      /\ \A d \in DOMAIN channels \ {c} : channels'[d].seq = channels[d].seq
      /\ \/ channels'[c].seq = channels[c].seq /\ (seq # NoSeq => channels[c].seq # NoSeq)
         \/ /\ seq # NoSeq /\ channels'[c].seq = seq
            /\ channels[c].seq = NoSeq \/ seq = channels[c].seq + 1
  <2>1. CASE channels' = chs /\ (seq = NoSeq \/ IsGap(chs[c].seq, seq))
    BY <1>2, <2>1 DEF IsGap
  <2>2. CASE seq # NoSeq /\ ~IsGap(chs[c].seq, seq) /\ channels' = [chs EXCEPT ![c].seq = seq]
    <3> DEFINE next == [chs[c] EXCEPT !.seq = seq]
    <3>1. next \in ChannelState /\ next.sid = chs[c].sid /\ next.seq = seq
      BY <1>2 DEF ChannelState
    <3>2. channels' = [chs EXCEPT ![c] = next]
      BY <2>2
    <3> HIDE DEF next
    <3>3. channels[c].seq = NoSeq \/ seq = channels[c].seq + 1
      BY <1>2, <2>2 DEF IsGap
    <3> QED
      BY <1>2, <2>2, <3>1, <3>2, <3>3
  <2> QED
    BY <2>1, <2>2 DEF CheckAndUpdateSeq
<1>5. SameSids
  BY <1>4 DEF SameSids
<1>6. Forgets /\ SidMapInverse'
  BY <1>1, <1>5, SameSidsKeep
<1>7. ChannelsTyped'
  BY <1>1, <1>4 DEF ChannelsTyped, TypeOK
<1>8. Sends /\ WireTyped'
  BY Taken, NothingSent DEF NoSend
<1>9. Unread'
  <2>1. sid # NoSid
    BY <1>1 DEF TypeOK, Sids
  <2> QED
    BY <1>1, <1>2, <1>4, <2>1 DEF Streams, Unread
<1>10. ASSUME NEW s \in DOMAIN sidMap' PROVE Moves(s)
  <2>1. s \in DOMAIN sidMap /\ sidMap[s] \in DOMAIN channels /\ channels[sidMap[s]].sid = s
    BY <1>1 DEF SidMapInverse
  <2>2. CASE s = sid
    <3>1. Carries(1, s) <=> seq # NoSeq
      BY <1>1, <2>2 DEF Carries
    <3> QED
      BY <1>4, <2>1, <2>2, <3>1 DEF Moves
  <2>3. CASE s # sid
    <3>1. ~Carries(1, s) /\ sidMap[s] # c
      BY <1>2, <2>1, <2>3 DEF Carries
    <3> QED
      BY <1>4, <2>1, <3>1 DEF Moves
  <2> QED
    BY <2>2, <2>3
<1> QED
  BY <1>3, <1>6, <1>7, <1>8, <1>9, <1>10, ReadKeeps

\* A message that is booked on no channel is of no subscription that the client knows.
LEMMA PassKeeps ==
    ASSUME IInv, NEW type, Reading(type),
           UNCHANGED <<requests, sidMap, pending, channels, listener, gap>>,
           \A s \in DOMAIN sidMap \cap DOMAIN subs : ~Carries(1, s)
    PROVE  IInv'
<1>1. Forgets /\ SidMapInverse' /\ ChannelsTyped' /\ Positions
  BY IndexesSame
<1>2. Sends /\ WireTyped'
  BY Taken, NothingSent DEF NoSend
<1>3. Unread' /\ \A s \in DOMAIN subs : s \in DOMAIN sidMap' => Moves(s)
  BY <1>1 DEF Moves, Positions, IInv, Streams
<1>4. listener' = "reading" /\ gap' \in Channels \cup {NoChannel}
  BY Taken DEF TypeOK
<1> QED
  BY <1>1, <1>2, <1>3, <1>4, ReadKeeps

LEMMA HandleOkKeeps ==
    ASSUME IInv, HandleOk
    PROVE  IInv'
<1> DEFINE m == Head(replies)
<1>1. Reading("ok") /\ UNCHANGED <<requests, sidMap, pending>>
  BY DEF HandleOk
<1>2. /\ m = replies[1] /\ replies[1].type = "ok" /\ replies[1] \in Reply
      /\ TypeOK /\ SidMapInverse
  BY <1>1, Taken DEF IInv, Indexed
<1>3. CASE m.sid \notin DOMAIN sidMap /\ UNCHANGED channels /\ KeepReading
  <2>1. \A s \in DOMAIN sidMap \cap DOMAIN subs : ~Carries(1, s)
    BY <1>2, <1>3 DEF Carries
  <2> QED
    BY <1>1, <1>3, <2>1, PassKeeps DEF KeepReading
<1>4. CASE m.sid \in DOMAIN sidMap
  <2> DEFINE c == sidMap[m.sid]
             told == IF OkCarriesTickers THEN [channels EXCEPT ![c].markets = m.markets] ELSE channels
  <2>1. CheckAndUpdateSeq(told, c, m.seq)
    BY <1>4 DEF HandleOk
  <2>2. m.markets \subseteq Markets /\ c \in DOMAIN channels /\ channels[c] \in ChannelState
    BY <1>2, <1>4 DEF Reply, SidMapInverse, TypeOK
  <2>3. /\ DOMAIN told = DOMAIN channels
        /\ \A d \in DOMAIN told : /\ told[d] \in ChannelState /\ told[d].sid = channels[d].sid
                                  /\ told[d].seq = channels[d].seq
    <3> DEFINE next == [channels[c] EXCEPT !.markets = m.markets]
    <3>1. next \in ChannelState /\ next.sid = channels[c].sid /\ next.seq = channels[c].seq
      BY <2>2 DEF ChannelState
    <3>2. told = IF OkCarriesTickers THEN [channels EXCEPT ![c] = next] ELSE channels
      OBVIOUS
    <3> HIDE DEF next, told, c
    <3> QED
      BY <1>2, <2>2, <3>1, <3>2 DEF TypeOK
  <2> HIDE DEF told, c, m
  <2>4. replies[1].sid \in DOMAIN sidMap /\ c = sidMap[replies[1].sid]
    BY <1>2, <1>4 DEF c
  <2>5. CheckAndUpdateSeq(told, c, replies[1].seq)
    BY <1>2, <2>1
  <2> QED
    BY <1>1, <2>3, <2>4, <2>5, CheckKeeps
<1> QED
  BY <1>3, <1>4 DEF HandleOk

LEMMA HandleDataKeeps ==
    ASSUME IInv, HandleData
    PROVE  IInv'
<1> DEFINE m == Head(replies)
<1>1. Reading("data") /\ UNCHANGED <<requests, sidMap, pending>>
  BY DEF HandleData
<1>2. /\ m = replies[1] /\ replies[1].type = "data" /\ replies[1] \in Reply
      /\ 1 \in 1 .. Len(replies) /\ TypeOK /\ Streams /\ Known
  BY <1>1, Taken DEF IInv, Indexed
<1>3. CASE ~Routed(m) /\ UNCHANGED channels /\ KeepReading
  <2>1. ASSUME NEW s \in DOMAIN sidMap \cap DOMAIN subs PROVE ~Carries(1, s)
    <3>1. Sent(s) /\ subs[s].channel = sidMap[s]
      BY <1>2 DEF Streams, Known
    <3>2. replies[1].sid = s => replies[1].channel = subs[s].channel
      BY <1>2, <3>1 DEF Sent
    <3>3. replies[1].sid # s
      BY <1>2, <1>3, <3>1, <3>2 DEF Routed
    <3> QED
      BY <3>3 DEF Carries
  <2> QED
    BY <1>1, <1>3, <2>1, PassKeeps DEF KeepReading
<1>4. CASE Routed(m) /\ CheckAndUpdateSeq(channels, m.channel, m.seq)
  <2>1. /\ replies[1].sid \in DOMAIN sidMap /\ m.channel = sidMap[replies[1].sid]
        /\ \A d \in DOMAIN channels : channels[d] \in ChannelState
        /\ CheckAndUpdateSeq(channels, m.channel, replies[1].seq)
    BY <1>2, <1>4 DEF Routed, TypeOK
  <2> QED
    BY <1>1, <2>1, CheckKeeps
<1> QED
  BY <1>3, <1>4 DEF HandleData

\* The client learns a sid.
LEMMA ConfirmKeeps ==
    ASSUME IInv, Reading("subscribed"), Expected(replies[1]),
           NEW c, c = pending[replies[1].id],
           DOMAIN channels' = DOMAIN channels,
           channels'[c] \in ChannelState, channels'[c].sid = replies[1].sid,
           channels'[c].seq = channels[c].seq,
           \A d \in DOMAIN channels \ {c} : channels'[d] = channels[d],
           sidMap' = Put(sidMap, replies[1].sid, c),
           pending' = Drop(pending, {replies[1].id}),
           requests' \in Seq(Request),
           \A i \in 1 .. Len(requests') :
               \/ \E j \in 1 .. Len(requests) : requests'[i] = requests[j]
               \/ requests'[i].cmd = "update_subscription",
           listener' \in {"reading", "off"}, UNCHANGED gap
    PROVE  IInv'
<1> DEFINE id == replies[1].id
           sid == replies[1].sid
<1>1. /\ TypeOK /\ SidMapInverse /\ Old /\ Known /\ Confirmed /\ Dropped /\ Streams
      /\ listener = "reading" /\ link # "none" /\ LinkTyped'
      /\ replies \in Seq(Reply)
      /\ 1 \in 1 .. Len(replies) /\ replies[1].type = "subscribed" /\ replies[1] \in Reply
      /\ UNCHANGED <<link, session, subs, nextSid, spent>>
      /\ UNCHANGED <<listening, nextId, op, sweep, resub, recovery, called>>
  BY Taken DEF IInv, Indexed
<1>2. Confirms(1) /\ sid \in Sids /\ sid # NoSid
  BY <1>1 DEF Confirms, Reply, Sids
<1>3. /\ id \in DOMAIN pending /\ pending[id] = c /\ c \in DOMAIN channels /\ c \in Channels
      /\ channels[c].sid = NoSid /\ channels[c].seq = NoSeq
      /\ sid \notin DOMAIN sidMap /\ sid < nextSid
      /\ link = "open" => sid \in DOMAIN subs /\ subs[sid].channel = c
  BY <1>1, <1>2 DEF Expected, Confirmed, Streams, Unread, Old, TypeOK
<1>4. /\ DOMAIN sidMap' = DOMAIN sidMap \cup {sid} /\ sidMap'[sid] = c
      /\ \A s \in DOMAIN sidMap : sidMap'[s] = sidMap[s]
  BY <1>3 DEF Put
<1>5. /\ DOMAIN pending' = DOMAIN pending \ {id}
      /\ \A i \in DOMAIN pending' : i \in DOMAIN pending /\ pending'[i] = pending[i]
  BY DEF Drop, Restrict
<1>6. \A i \in 1 .. Len(replies') : /\ i + 1 \in 1 .. Len(replies) /\ i + 1 # 1
                                    /\ replies'[i] = replies[i + 1]
                                    /\ Confirms(i)' <=> Confirms(i + 1)
  BY Taken
<1>7. SidMapInverse'
  <2>1. ASSUME NEW s \in DOMAIN sidMap'
        PROVE  sidMap'[s] \in DOMAIN channels' /\ channels'[sidMap'[s]].sid = s
    <3>1. CASE s = sid
      BY <1>3, <1>4, <3>1
    <3>2. CASE s \in DOMAIN sidMap
      <4>1. sidMap[s] \in DOMAIN channels /\ channels[sidMap[s]].sid = s /\ s # NoSid
        BY <1>1, <3>2 DEF SidMapInverse, TypeOK, Sids
      <4> QED
        BY <1>3, <1>4, <3>2, <4>1
    <3> QED
      BY <1>4, <3>1, <3>2
  <2>2. ASSUME NEW d \in DOMAIN channels', channels'[d].sid # NoSid
        PROVE  channels'[d].sid \in DOMAIN sidMap' /\ sidMap'[channels'[d].sid] = d
    BY <1>1, <1>3, <1>4, <2>2 DEF SidMapInverse
  <2> QED
    BY <2>1, <2>2 DEF SidMapInverse
<1>8. TypeOK'
  <2>1. OthersTyped'
    BY <1>1, TypedParts DEF OthersTyped
  <2>2. ChannelsTyped'
    BY <1>1, <1>2, <1>3, <1>4 DEF ChannelsTyped, TypeOK
  <2>3. WireTyped'
    BY <1>1, <1>5 DEF WireTyped, TypeOK
  <2> QED
    BY <1>1, <2>1, <2>2, <2>3, PartsTyped
<1>9. Turns'
  BY <1>1 DEF IInv, Indexed, Turns
<1>10. Old'
  <2>1. /\ \A s \in DOMAIN sidMap' : s < nextSid'
        /\ \A s \in DOMAIN subs' : s < nextSid'
    BY <1>1, <1>3, <1>4 DEF Old
  <2>2. /\ \A i \in 1 .. Len(replies') : replies'[i].type # "error" => replies'[i].sid < nextSid'
        /\ \A i \in 1 .. Len(replies') : Confirms(i)' => replies'[i].id < nextId'
    BY <1>1, <1>6 DEF Old
  <2>3. ASSUME NEW i \in 1 .. Len(requests')
        PROVE  /\ requests'[i].cmd = "unsubscribe" => requests'[i].sid < nextSid'
               /\ requests'[i].cmd = "subscribe" => requests'[i].id < nextId'
    <3>1. CASE \E j \in 1 .. Len(requests) : requests'[i] = requests[j]
      BY <1>1, <3>1 DEF Old
    <3>2. CASE requests'[i].cmd = "update_subscription"
      BY <3>2
    <3> QED
      BY <3>1, <3>2
  <2>4. \A i \in DOMAIN pending' : i < nextId'
    BY <1>1, <1>5 DEF Old
  <2> QED
    BY <2>1, <2>2, <2>3, <2>4 DEF Old
<1>11. Known'
  BY <1>1, <1>3, <1>4 DEF Known
<1>12. Confirmed'
  <2>1. ASSUME NEW i \in 1 .. Len(requests'), requests'[i].cmd = "subscribe",
               requests'[i].id \in DOMAIN pending'
        PROVE  pending'[requests'[i].id] = requests'[i].channel
    <3>1. PICK j \in 1 .. Len(requests) : requests'[i] = requests[j]
      BY <2>1
    <3>2. requests[j].id \in DOMAIN pending /\ pending'[requests[j].id] = pending[requests[j].id]
      BY <1>5, <2>1, <3>1
    <3>3. pending[requests[j].id] = requests[j].channel
      BY <1>1, <2>1, <3>1, <3>2 DEF Confirmed
    <3> QED
      BY <3>1, <3>2, <3>3
  <2>2. ASSUME NEW i \in 1 .. Len(replies'), Confirms(i)'
        PROVE  /\ replies'[i].sid \notin DOMAIN sidMap'
               /\ link' = "open" =>
                      /\ replies'[i].sid \in DOMAIN subs'
                      /\ replies'[i].id \in DOMAIN pending'
                             => pending'[replies'[i].id] = subs'[replies'[i].sid].channel
               /\ replies'[i].id \in DOMAIN pending' /\ pending'[replies'[i].id] \in DOMAIN channels'
                      => channels'[pending'[replies'[i].id]].sid = NoSid
    <3>1. /\ i + 1 \in 1 .. Len(replies) /\ i + 1 # 1
          /\ Confirms(i + 1) /\ replies'[i] = replies[i + 1]
      BY <1>6, <2>2
    <3>2. /\ replies[i + 1].sid # sid
          /\ replies[i + 1].id \in DOMAIN pending => pending[replies[i + 1].id] # c
      BY <1>1, <1>2, <1>3, <3>1 DEF Confirmed
    <3>3. replies[i + 1].sid \notin DOMAIN sidMap
      BY <1>1, <3>1 DEF Confirmed
    <3>4. link' = "open" =>
              /\ replies[i + 1].sid \in DOMAIN subs'
              /\ replies[i + 1].id \in DOMAIN pending'
                     => pending'[replies[i + 1].id] = subs'[replies[i + 1].sid].channel
      <4>1. link = "open" =>
                /\ replies[i + 1].sid \in DOMAIN subs
                /\ replies[i + 1].id \in DOMAIN pending
                       => pending[replies[i + 1].id] = subs[replies[i + 1].sid].channel
        BY <1>1, <3>1 DEF Confirmed
      <4> QED
        BY <1>1, <1>5, <4>1
    <3>5. ASSUME replies[i + 1].id \in DOMAIN pending',
                 pending'[replies[i + 1].id] \in DOMAIN channels'
          PROVE  channels'[pending'[replies[i + 1].id]].sid = NoSid
      <4>1. /\ replies[i + 1].id \in DOMAIN pending
            /\ pending'[replies[i + 1].id] = pending[replies[i + 1].id]
        BY <1>5, <3>5
      <4>2. pending[replies[i + 1].id] \in DOMAIN channels \ {c}
        BY <3>2, <3>5, <4>1
      <4>3. channels[pending[replies[i + 1].id]].sid = NoSid
        BY <1>1, <3>1, <4>1, <4>2 DEF Confirmed
      <4> QED
        BY <4>1, <4>2, <4>3
    <3> QED
      BY <1>4, <3>1, <3>2, <3>3, <3>4, <3>5
  <2>3. ASSUME NEW i \in 1 .. Len(replies'), NEW j \in 1 .. Len(replies'),
               Confirms(i)', Confirms(j)', i # j
        PROVE  /\ replies'[i].sid # replies'[j].sid
               /\ replies'[i].id \in DOMAIN pending' /\ replies'[j].id \in DOMAIN pending'
                      => pending'[replies'[i].id] # pending'[replies'[j].id]
    <3>1. /\ i + 1 \in 1 .. Len(replies) /\ Confirms(i + 1) /\ replies'[i] = replies[i + 1]
          /\ j + 1 \in 1 .. Len(replies) /\ Confirms(j + 1) /\ replies'[j] = replies[j + 1]
          /\ i + 1 # j + 1
      BY <1>6, <2>3
    <3>2. /\ replies[i + 1].sid # replies[j + 1].sid
          /\ replies[i + 1].id \in DOMAIN pending /\ replies[j + 1].id \in DOMAIN pending
                 => pending[replies[i + 1].id] # pending[replies[j + 1].id]
      BY <1>1, <3>1 DEF Confirmed
    <3>3. ASSUME replies[i + 1].id \in DOMAIN pending', replies[j + 1].id \in DOMAIN pending'
          PROVE  pending'[replies[i + 1].id] # pending'[replies[j + 1].id]
      <4>1. \A l \in {i + 1, j + 1} : /\ replies[l].id \in DOMAIN pending
                                      /\ pending'[replies[l].id] = pending[replies[l].id]
        BY <1>5, <3>3
      <4> QED
        BY <3>2, <4>1
    <3> QED
      BY <3>1, <3>2, <3>3
  <2> QED
    BY <2>1, <2>2, <2>3 DEF Confirmed
<1>13. Dropped'
  <2>1. ASSUME NEW x, Ended(x) PROVE Ended(x)'
    <3>1. x # sid
      BY <1>1, <1>2, <2>1 DEF Ended
    <3>2. x \notin DOMAIN sidMap'
      BY <1>4, <2>1, <3>1 DEF Ended
    <3>3. ASSUME NEW j \in 1 .. Len(replies'), Confirms(j)' PROVE replies'[j].sid # x
      <4>1. j + 1 \in 1 .. Len(replies) /\ Confirms(j + 1) /\ replies'[j] = replies[j + 1]
        BY <1>6, <3>3
      <4> QED
        BY <2>1, <4>1 DEF Ended
    <3> QED
      BY <3>2, <3>3 DEF Ended
  <2>2. ASSUME NEW i \in 1 .. Len(requests'), requests'[i].cmd = "unsubscribe"
        PROVE  Ended(requests[i].sid)'
    <3>1. PICK j \in 1 .. Len(requests) : requests'[i] = requests[j]
      BY <2>2
    <3>2. PICK x : x = requests[j].sid
      OBVIOUS
    <3>3. Ended(x)'
      BY <1>1, <2>1, <2>2, <3>1, <3>2 DEF Dropped
    <3> QED
      BY <3>1, <3>2, <3>3 DEF Ended
  <2>3. ASSUME NEW i \in 1 .. Len(replies'), replies'[i].type = "unsubscribed"
        PROVE  Ended(replies[i].sid)'
    <3>1. i + 1 \in 1 .. Len(replies) /\ replies'[i] = replies[i + 1]
      BY <1>6
    <3>2. PICK x : x = replies[i + 1].sid
      OBVIOUS
    <3>3. Ended(x)'
      BY <1>1, <2>1, <2>3, <3>1, <3>2 DEF Dropped
    <3> QED
      BY <3>1, <3>2, <3>3 DEF Ended
  <2> QED
    BY <2>2, <2>3 DEF Dropped
<1>14. Streams'
  <2>1. Unread'
    BY <1>1, <1>2, <1>3 DEF Streams, Unread
  <2>2. ASSUME NEW s \in DOMAIN sidMap' PROVE Moves(s)
    <3>1. CASE s = sid
      BY <1>2, <1>3, <1>4, <3>1 DEF Moves
    <3>2. CASE s \in DOMAIN sidMap
      <4>1. sidMap[s] \in DOMAIN channels /\ channels[sidMap[s]].sid = s /\ s # NoSid
        BY <1>1, <3>2 DEF SidMapInverse, TypeOK, Sids
      <4>2. ~Carries(1, s)
        BY <1>1 DEF Carries
      <4> QED
        BY <1>3, <1>4, <3>2, <4>1, <4>2 DEF Moves
    <3> QED
      BY <1>4, <3>1, <3>2
  <2> QED
    BY <2>1, <2>2, StreamsRead
<1> QED
  BY <1>7, <1>8, <1>9, <1>10, <1>11, <1>12, <1>13, <1>14 DEF IInv, Indexed

LEMMA HandleSubscribedKeeps ==
    ASSUME IInv, HandleSubscribed
    PROVE  IInv'
<1> DEFINE m == replies[1]
           c == pending[m.id]
           confirmed == [channels EXCEPT ![c].sid = m.sid]
           sids == Put(sidMap, m.sid, c)
           ids == Drop(pending, {m.id})
<1>1. Reading("subscribed")
  BY DEF HandleSubscribed
<1>2. /\ TypeOK /\ SidMapInverse /\ Streams /\ requests \in Seq(Request) /\ nextId \in Nat
      /\ nextId' = nextId /\ link' = link
      /\ Head(replies) = m /\ m.type = "subscribed" /\ m \in Reply /\ 1 \in 1 .. Len(replies)
      /\ listener = "reading" /\ gap \in Channels \cup {NoChannel}
  BY <1>1, Taken DEF IInv, Indexed, TypeOK, ServerTypeOK
<1>3. /\ DOMAIN ids \subseteq DOMAIN pending /\ \A i \in DOMAIN ids : ids[i] = pending[i]
      /\ m.sid \in Sids /\ \A s : ~Carries(1, s)
  BY <1>2 DEF Reply, Carries, Drop, Restrict
<1>4. CASE ~Expected(m)
  <2>1. /\ pending' = ids /\ UNCHANGED <<requests, channels, sidMap, listener, gap>>
    BY <1>2, <1>4 DEF HandleSubscribed, KeepReading
  <2>2. Forgets /\ SidMapInverse' /\ ChannelsTyped' /\ Positions
    BY <2>1, IndexesSame
  <2>3. Sends /\ WireTyped'
    <3> HIDE DEF ids
    <3>1. /\ DOMAIN pending' \subseteq DOMAIN pending
          /\ \A i \in DOMAIN pending' : pending'[i] = pending[i]
          /\ requests' = requests
      BY <1>3, <2>1
    <3>2. Sends
      BY <1>2, <3>1 DEF Sends
    <3>3. WireTyped'
      BY <1>2, <3>1 DEF WireTyped, TypeOK
    <3> QED
      BY <3>2, <3>3
  <2>4. Unread' /\ \A s \in DOMAIN sidMap' : Moves(s)
    BY <1>3, <2>1, <2>2 DEF Moves, Positions, IInv, Streams
  <2> QED
    BY <1>1, <1>2, <2>1, <2>2, <2>3, <2>4, ReadKeeps
<1>5. CASE Expected(m)
  <2>1. /\ c \in DOMAIN channels /\ channels[c] \in ChannelState
        /\ channels[c].pending \in SUBSET Markets
    BY <1>2, <1>5 DEF Expected, TypeOK, ChannelState
  <2> DEFINE next == [channels[c] EXCEPT !.sid = m.sid]
             emptied == [next EXCEPT !.pending = {}]
  <2>2. /\ next \in ChannelState /\ next.sid = m.sid /\ next.seq = channels[c].seq
        /\ emptied \in ChannelState /\ emptied.sid = m.sid /\ emptied.seq = channels[c].seq
    BY <1>3, <2>1 DEF ChannelState, Sids
  <2>3. /\ confirmed = [channels EXCEPT ![c] = next]
        /\ [confirmed EXCEPT ![c].pending = {}] = [channels EXCEPT ![c] = emptied]
    BY <2>1
  <2>4. \/ /\ channels' = confirmed /\ sidMap' = sids /\ pending' = ids
           /\ UNCHANGED <<requests, gap>> /\ listener' \in {"reading", "off"}
        \/ /\ channels' = [confirmed EXCEPT ![c].pending = {}] /\ sidMap' = sids /\ pending' = ids
           /\ Send([cmd |-> "update_subscription", sid |-> m.sid,
                    markets |-> channels[c].pending, action |-> "add_markets"])
           /\ UNCHANGED <<listener, gap>>
        \/ /\ listener' = "sleeping" /\ HandleConnectionLoss(confirmed)
           /\ UNCHANGED <<requests, gap>>
    BY <1>2, <1>5 DEF HandleSubscribed, SidOf, KeepReading, SocketError
  <2> HIDE DEF next, emptied
  <2>5. CASE /\ channels' = confirmed /\ sidMap' = sids /\ pending' = ids
             /\ UNCHANGED <<requests, gap>> /\ listener' \in {"reading", "off"}
    <3>1. channels' = [channels EXCEPT ![c] = next]
      BY <2>3, <2>5
    <3> HIDE DEF confirmed
    <3> QED
      BY <1>1, <1>2, <1>5, <2>1, <2>2, <2>5, <3>1, ConfirmKeeps
  <2>6. CASE /\ channels' = [confirmed EXCEPT ![c].pending = {}] /\ sidMap' = sids /\ pending' = ids
             /\ Send([cmd |-> "update_subscription", sid |-> m.sid,
                      markets |-> channels[c].pending, action |-> "add_markets"])
             /\ UNCHANGED <<listener, gap>>
    <3> DEFINE r == [cmd |-> "update_subscription", sid |-> m.sid,
                     markets |-> channels[c].pending, action |-> "add_markets"]
    <3>1. channels' = [channels EXCEPT ![c] = emptied]
      BY <2>3, <2>6
    <3>2. r \in Request /\ r.cmd = "update_subscription" /\ Send(r)
      BY <1>3, <2>1, <2>6 DEF Request
    <3> HIDE DEF r, confirmed
    <3>3. /\ requests' \in Seq(Request)
          /\ \A i \in 1 .. Len(requests') :
                 \/ \E j \in 1 .. Len(requests) : requests'[i] = requests[j]
                 \/ requests'[i].cmd = "update_subscription"
      BY <1>2, <3>2, SentElements
    <3> QED
      BY <1>1, <1>2, <1>5, <2>1, <2>2, <2>6, <3>1, <3>3, ConfirmKeeps
  <2>7. CASE /\ listener' = "sleeping" /\ HandleConnectionLoss(confirmed)
             /\ UNCHANGED <<requests, gap>>
    <3>1. DOMAIN confirmed = DOMAIN channels /\ \A d \in DOMAIN confirmed : confirmed[d] \in ChannelState
      <4>1. \A d \in DOMAIN channels : channels[d] \in ChannelState
        BY <1>2 DEF TypeOK
      <4> HIDE DEF confirmed
      <4> QED
        BY <2>1, <2>2, <2>3, <4>1
    <3> HIDE DEF confirmed
    <3>2. /\ Forgets /\ SidMapInverse' /\ ChannelsTyped'
          /\ DOMAIN sidMap' = {} /\ DOMAIN pending' = {}
          /\ \A d \in DOMAIN channels' : channels'[d].seq = NoSeq
      BY <1>2, <2>7, <3>1, LossKeeps
    <3>3. Sends /\ WireTyped'
      BY <1>2, <2>7, <3>2 DEF Sends, WireTyped
    <3>4. Unread'
      BY <3>2 DEF Unread
    <3> QED
      BY <1>1, <1>2, <2>7, <3>2, <3>3, <3>4, ReadKeeps
  <2> QED
    BY <2>4, <2>5, <2>6, <2>7
<1> QED
  BY <1>4, <1>5

-----------------------------------------------------------------------------
(* The theorems.                                                           *)

LEMMA InitHolds ==
    ASSUME Init
    PROVE  IInv
<1>1. /\ link = "none" /\ session = 0 /\ requests = <<>> /\ replies = <<>> /\ subs = <<>>
      /\ nextSid = 1 /\ spent = [updates |-> 0, skips |-> 0, losses |-> 0]
      /\ listening = FALSE /\ listener = "off" /\ channels = <<>> /\ sidMap = <<>>
      /\ pending = <<>> /\ nextId = 1 /\ op = NoOp /\ sweep = NoSweep /\ resub = <<>>
      /\ recovery = NoRecovery /\ gap = NoChannel
      /\ called = [ops |-> 0, refusals |-> 0, closed |-> FALSE]
  BY DEF Init, ServerInit
<1>2. /\ DOMAIN subs = {} /\ DOMAIN channels = {} /\ DOMAIN sidMap = {} /\ DOMAIN pending = {}
      /\ DOMAIN resub = {} /\ Len(requests) = 0 /\ Len(replies) = 0
      /\ requests \in Seq(Request) /\ replies \in Seq(Reply)
  BY <1>1, EmptyElements
<1>3. LinkTyped
  BY <1>1, <1>2 DEF LinkTyped, Sids, NoSid
<1>4. WireTyped /\ ChannelsTyped
  BY <1>1, <1>2 DEF WireTyped, ChannelsTyped
<1>5. OthersTyped
  BY <1>1, <1>2, NoOpIsTask DEF OthersTyped, NoSweep, NoRecovery
<1>6. TypeOK
  BY <1>3, <1>4, <1>5, TypedParts
<1>7. Turns
  BY <1>1, <1>2 DEF Turns, NoRecovery
<1>8. Old /\ SidMapInverse /\ Known /\ Confirmed /\ Dropped
  BY <1>2 DEF Old, SidMapInverse, Known, Confirmed, Dropped
<1>9. Streams
  BY <1>2 DEF Streams, Unread
<1> QED
  BY <1>6, <1>7, <1>8, <1>9 DEF IInv, Indexed

LEMMA NothingKeeps ==
    ASSUME IInv, UNCHANGED vars
    PROVE  IInv' /\ Tacit
<1>1. WireOnlySends /\ NoSend
  BY DEF vars, serverVars, clientVars, WireOnlySends, NoSend
<1>2. UNCHANGED <<channels, sidMap>> /\ OthersTyped'
  BY OthersSame DEF vars, clientVars
<1>3. Turns'
  BY DEF vars, serverVars, clientVars, IInv, Indexed, Turns
<1> QED
  BY <1>1, <1>2, <1>3, NothingActs, ClientStep

LEMMA CallKeeps ==
    ASSUME IInv, Call
    PROVE  IInv'
<1>1. CASE \E name \in Operations, markets \in (SUBSET Markets) \ {{}},
               names \in (SUBSET Channels) \ {{}} :
               name \in {"add_market", "add_markets", "remove_market"} /\ Begin(name, markets, names)
  BY <1>1, BeginKeeps
<1>2. CASE \E c \in Channels : \E m \in Markets : RequestSnapshot(c, {m})
  <2>1. PICK c \in Channels, m \in Markets : RequestSnapshot(c, {m})
    BY <1>2
  <2>2. {m} \in SUBSET Markets
    OBVIOUS
  <2> QED
    BY <2>1, <2>2, RequestSnapshotKeeps
<1> QED
  BY <1>1, <1>2, ConnectKeeps, ListenKeeps, CloseKeeps, UnsubscribeAllKeeps, ResubscribeKeeps
     DEF Call

LEMMA ListenerKeeps ==
    ASSUME IInv, ListenerStep
    PROVE  IInv'
BY HandleSubscribedKeeps, HandleOkKeeps, HandleUnsubscribedKeeps, HandleErrorKeeps,
   HandleDataKeeps, ConnectionLostKeeps, ReconnectKeeps, ReconnectFailsKeeps, RecoverKeeps
   DEF ListenerStep, Handle

LEMMA NextKeeps ==
    ASSUME IInv, [Next]_vars
    PROVE  IInv'
<1>1. CASE Call
  BY <1>1, CallKeeps
<1>2. CASE Continue
  BY <1>2, ShareKeeps, AbortKeeps, SweepKeeps, ResubscribeAgainKeeps DEF Continue
<1>3. CASE ListenerStep
  BY <1>3, ListenerKeeps
<1>4. CASE Environment
  BY <1>4, ExchangeKeeps DEF Environment
<1>5. CASE Stays
  BY <1>5, NothingKeeps DEF Stays
<1>6. CASE Share \/ Sweep \/ Recover
  BY <1>6, ShareKeeps, SweepKeeps, RecoverKeeps
<1>7. CASE UNCHANGED vars
  BY <1>7, NothingKeeps
<1> QED
  BY <1>1, <1>2, <1>3, <1>4, <1>5, <1>6, <1>7 DEF Next

LEMMA Invariance == Spec => []IInv
<1>1. Init => IInv
  BY InitHolds
<1>2. IInv /\ [Next]_vars => IInv'
  BY NextKeeps
<1> QED
  BY <1>1, <1>2, PTL DEF Spec

\* Every variable of the client and of its connection has its type, for any
\* channels, markets, rules and bounds (the state of KalshiWebSocketClient).
THEOREM ClientTypeCorrect == Spec => []TypeOK
<1>1. IInv => TypeOK
  BY DEF IInv, Indexed
<1> QED
  BY <1>1, Invariance, PTL

\* The client's two indexes of its subscriptions never disagree, however its
\* operations, the replies, losses, reconnects and pauses interleave (_sid_map and
\* the sid of every channel's state).
THEOREM IndexesAgree == Spec => []SidMapInverse
<1>1. IInv => SidMapInverse
  BY DEF IInv, Indexed
<1> QED
  BY <1>1, Invariance, PTL

\* No message is ever booked on the wrong channel, although sids start again with
\* every connection (_handle_incoming_message looks the sid up in _sid_map).
THEOREM NothingMisrouted == Spec => []Routing
<1>1. IInv => Routing
  BY DEF IInv, Indexed, Known, Routing
<1> QED
  BY <1>1, Invariance, PTL

\* The client never passes over a message that the exchange numbered and did not
\* deliver, through any number of subscriptions, losses and resubscriptions
\* (_check_and_update_seq).
THEOREM NoGapIsMissed == Spec => []NoSilentGap
<1>1. IInv => NoSilentGap
  <2>1. ASSUME IInv, NEW s \in DOMAIN sidMap \cap DOMAIN subs, NEW k \in subs[s].skipped
        PROVE  k < subs[s].first \/ k > channels[sidMap[s]].seq
    <3>1. Sent(s) /\ Stands(s, channels[sidMap[s]].seq) /\ subs[s].skipped \subseteq Nat
      BY <2>1 DEF IInv, Indexed, Streams, TypeOK, ServerTypeOK, Subscription
    <3>2. CASE channels[sidMap[s]].seq = NoSeq
      BY <3>1, <3>2 DEF Sent, NoSeq
    <3>3. CASE channels[sidMap[s]].seq # NoSeq
      BY <3>1, <3>3 DEF Stands
    <3> QED
      BY <3>2, <3>3
  <2> QED
    BY <2>1 DEF NoSilentGap
<1> QED
  BY <1>1, Invariance, PTL
=============================================================================
