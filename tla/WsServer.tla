------------------------------ MODULE WsServer ------------------------------
(***************************************************************************)
(* The exchange's side of the WebSocket connection and the connection      *)
(* itself: the environment of WsClient.  It is external to the repository; *)
(* what it does is taken from how src/pykalshi/ws_client.py uses it, from  *)
(* the generated message models (src/pykalshi/models/ws.py) and from the   *)
(* tests.  Both directions are first-in-first-out while the connection     *)
(* lasts.  A subscription is known by its id, "sid", unique within one     *)
(* connection; ids start again with each connection.                       *)
(***************************************************************************)
EXTENDS Integers, Sequences, FiniteSets, Functions

CONSTANTS
    Channels,         \* the channels one may subscribe to
    Markets,          \* the market tickers
    Sequenced,        \* the channels whose messages carry a sequence number
    OkCarriesTickers, \* whether "ok" has the top-level market_tickers the client reads
    MaxUpdates,       \* bound: data messages the exchange publishes of its own accord
    MaxSkips,         \* bound: messages it numbers but never sends
    MaxLosses         \* bound: times the connection breaks

ASSUME ServerAssumption ==
    /\ IsFiniteSet(Channels)
    /\ Sequenced \subseteq Channels
    /\ OkCarriesTickers \in BOOLEAN
    /\ MaxUpdates \in Nat /\ MaxSkips \in Nat /\ MaxLosses \in Nat

VARIABLES
    link,     \* state of the socket: none before the first connect, open, closed
    session,  \* number of connections made so far
    requests, \* commands on their way to the exchange
    replies,  \* messages on their way to the client
    subs,     \* the exchange's subscriptions, by sid
    nextSid,  \* the next sid of this connection
    spent     \* updates, skips and losses so far

serverVars == <<link, session, requests, replies, subs, nextSid, spent>>

NoSid == 0 \* the source's None: sids start at 1
NoSeq == 0 \* no sequence number, or none seen yet: they start at 1

Sids == Nat \ {NoSid}
Subscription == [channel : Channels, markets : SUBSET Markets, seq : Nat,
                 first : Nat, skipped : SUBSET Nat]

Request ==
    [cmd : {"subscribe"}, id : Nat, channel : Channels, markets : SUBSET Markets]
        \cup [cmd : {"unsubscribe"}, sid : Sids]
        \cup [cmd : {"update_subscription"}, sid : Sids, markets : SUBSET Markets,
              action : {"add_markets", "delete_markets", "get_snapshot"}]

Reply ==
    [type : {"subscribed"}, id : Nat, sid : Sids]
        \cup [type : {"ok"}, sid : Sids, seq : Nat, markets : SUBSET Markets, skips : BOOLEAN]
        \cup [type : {"unsubscribed"}, sid : Sids]
        \cup [type : {"error"}]
        \cup [type : {"data"}, channel : Channels, sid : Sids, seq : Nat, skips : BOOLEAN]

ServerTypeOK ==
    /\ link \in {"none", "open", "closed"}
    /\ session \in Nat
    /\ requests \in Seq(Request)
    /\ replies \in Seq(Reply)
    /\ DOMAIN subs \subseteq Sids /\ \A s \in DOMAIN subs : subs[s] \in Subscription
    /\ nextSid \in Sids
    /\ spent \in [updates : Nat, skips : Nat, losses : Nat]

ServerInit ==
    /\ link = "none"
    /\ session = 0
    /\ requests = <<>>
    /\ replies = <<>>
    /\ subs = <<>>
    /\ nextSid = 1
    /\ spent = [updates |-> 0, skips |-> 0, losses |-> 0]

\* f with key k bound to v, and f without the keys of ks.
Put(f, k, v) == [x \in DOMAIN f \cup {k} |-> IF x = k THEN v ELSE f[x]]
Drop(f, ks) == Restrict(f, DOMAIN f \ ks)

-----------------------------------------------------------------------------
(* What the exchange does with a subscription: every message it sends on a *)
(* sequenced channel takes the next number.  "first" is the number of the  *)
(* first message that was sent and "skipped" the numbers that never were.  *)

Numbered(s) == subs[s].channel \in Sequenced
After(s) ==
    IF ~Numbered(s) THEN subs[s]
    ELSE [subs[s] EXCEPT !.seq = @ + 1, !.first = IF @ = NoSeq THEN subs[s].seq + 1 ELSE @]
AfterSkip(s) ==
    [subs[s] EXCEPT !.seq = @ + 1, !.skipped = @ \cup {subs[s].seq + 1}]
Number(s) == IF Numbered(s) THEN subs[s].seq + 1 ELSE NoSeq

Data(s) == [type |-> "data", channel |-> subs[s].channel, sid |-> s,
            seq |-> Number(s), skips |-> subs[s].skipped # {}]

Answer(reply) == replies' = Append(replies, reply)

SubscribedTo(c) == \E s \in DOMAIN subs : subs[s].channel = c

ServeSubscribe(r) ==
    IF SubscribedTo(r.channel)
    THEN Answer([type |-> "error"]) /\ UNCHANGED <<subs, nextSid>>
    ELSE /\ subs' = Put(subs, nextSid,
                        [channel |-> r.channel, markets |-> r.markets, seq |-> 0,
                         first |-> NoSeq, skipped |-> {}])
         /\ nextSid' = nextSid + 1
         /\ Answer([type |-> "subscribed", id |-> r.id, sid |-> nextSid])

ServeUnsubscribe(r) ==
    /\ subs' = Drop(subs, {r.sid})
    /\ Answer(IF r.sid \in DOMAIN subs THEN [type |-> "unsubscribed", sid |-> r.sid]
                                       ELSE [type |-> "error"])
    /\ UNCHANGED nextSid

ServeUpdate(r) ==
    /\ UNCHANGED nextSid
    /\ IF r.sid \notin DOMAIN subs THEN Answer([type |-> "error"]) /\ UNCHANGED subs
       ELSE IF r.action = "get_snapshot"
       THEN Answer(Data(r.sid)) /\ subs' = [subs EXCEPT ![r.sid] = After(r.sid)]
       ELSE LET markets == IF r.action = "add_markets"
                           THEN subs[r.sid].markets \cup r.markets
                           ELSE subs[r.sid].markets \ r.markets
            IN  /\ subs' = [subs EXCEPT ![r.sid] = [After(r.sid) EXCEPT !.markets = markets]]
                /\ Answer([type |-> "ok", sid |-> r.sid, seq |-> Number(r.sid),
                           markets |-> markets, skips |-> subs[r.sid].skipped # {}])

Serve ==
    /\ link = "open"
    /\ requests # <<>>
    /\ requests' = Tail(requests)
    /\ LET r == Head(requests) IN
       \/ r.cmd = "subscribe" /\ ServeSubscribe(r)
       \/ r.cmd = "unsubscribe" /\ ServeUnsubscribe(r)
       \/ r.cmd = "update_subscription" /\ ServeUpdate(r)
    /\ UNCHANGED <<link, session, spent>>

\* A market moves.
Publish(s) ==
    /\ link = "open"
    /\ spent.updates < MaxUpdates
    /\ Answer(Data(s))
    /\ subs' = [subs EXCEPT ![s] = After(s)]
    /\ spent' = [spent EXCEPT !.updates = @ + 1]
    /\ UNCHANGED <<link, session, requests, nextSid>>

\* A message is numbered but never reaches the client.
Skip(s) ==
    /\ link = "open"
    /\ Numbered(s)
    /\ spent.skips < MaxSkips
    /\ subs' = [subs EXCEPT ![s] = AfterSkip(s)]
    /\ spent' = [spent EXCEPT !.skips = @ + 1]
    /\ UNCHANGED <<link, session, requests, replies, nextSid>>

\* The connection ends: commands in flight are lost, and of the messages in
\* flight those survive that the client's machine had already received.
Hangup ==
    /\ link' = "closed"
    /\ requests' = <<>>
    /\ subs' = <<>>
    /\ \E n \in 0 .. Len(replies) : replies' = SubSeq(replies, 1, n)

Lose ==
    /\ link = "open"
    /\ spent.losses < MaxLosses
    /\ Hangup
    /\ spent' = [spent EXCEPT !.losses = @ + 1]
    /\ UNCHANGED <<session, nextSid>>

\* A new connection: nothing is subscribed, and sids start again.
Accept ==
    /\ link' = "open"
    /\ session' = session + 1
    /\ requests' = <<>>
    /\ replies' = <<>>
    /\ subs' = <<>>
    /\ nextSid' = 1

ServerNext ==
    \/ Serve
    \/ \E s \in DOMAIN subs : Publish(s) \/ Skip(s)
    \/ Lose
=============================================================================
