------------------------------ MODULE WsClient ------------------------------
(***************************************************************************)
(* KalshiWebSocketClient (src/pykalshi/ws_client.py) over the connection   *)
(* of WsServer.                                                            *)
(*                                                                         *)
(* The tasks of one event loop interleave where the source awaits          *)
(* something that can suspend: a send (the transport may be full), a       *)
(* connect, a sleep, the next message, the state lock.  A public operation *)
(* takes the lock and treats its channels one at a time, one send each: a  *)
(* channel's share is one action and the lock stays taken between shares.  *)
(* A received message is handled in one action, under the lock.  The loss  *)
(* handler, the reconnect and the recovery of the subscriptions run        *)
(* without the lock, as they do in the source.                             *)
(*                                                                         *)
(* Left out: delays and their doubling, logging, metrics, undecodable      *)
(* messages (they change nothing), and the ids of commands other than      *)
(* subscribe, which nothing looks up.                                      *)
(***************************************************************************)
EXTENDS WsServer

CONSTANTS
    NoChannel,   \* the name of no channel
    Operations,  \* the public operations that the program calls
    Rules,       \* the rules (below) that it obeys when it calls them
    MaxCalls,    \* bound: calls of public operations
    MaxRefusals  \* bound: failures of a connect

ASSUME ClientAssumption ==
    /\ NoChannel \notin Channels
    /\ Operations \subseteq {"add_market", "add_markets", "remove_market", "unsubscribe_all",
                             "request_snapshot", "resubscribe_channel", "close"}
    /\ Rules \subseteq {"after_connect", "not_reconnecting", "confirmed", "alone", "gap_loop"}
    /\ MaxCalls \in Nat /\ MaxRefusals \in Nat

VARIABLES
    listening, \* _listening
    listener,  \* where listener_loop is
    channels,  \* channels: the state of every channel the client keeps, by name
    sidMap,    \* _sid_map: sid to channel name (the source shares the state object)
    pending,   \* _pending_init_subs: subscribe id to channel name
    nextId,    \* _message_id, counting the subscribes
    op,        \* the operation that holds _state_lock, if any
    sweep,     \* unsubscribe_all: what it has still to remove
    resub,     \* resubscribe_channel: channels in their pause, with saved_markets
    recovery,  \* _recover_subscriptions: channels it has not visited, and its dict's size
    gap,       \* the channel of the last KalshiSequenceGapError, until the loop restarts
    called     \* calls and failures of connect so far; whether close was called last

clientVars == <<listening, listener, channels, sidMap, pending, nextId,
                op, sweep, resub, recovery, gap, called>>
vars == <<serverVars, clientVars>>

NoOp == [name |-> "none", markets |-> {}, left |-> {}, sentIn |-> 0]
NoRecovery == [left |-> {}, size |-> 0, suspended |-> FALSE]
NoSweep == [left |-> {}, sentIn |-> 0]
Fresh == [markets |-> {}, pending |-> {}, sid |-> NoSid, seq |-> NoSeq]

ChannelState == [markets : SUBSET Markets, pending : SUBSET Markets, sid : Nat, seq : Nat]

TypeOK ==
    /\ ServerTypeOK
    /\ listening \in BOOLEAN
    /\ listener \in {"off", "reading", "sleeping", "recovering"}
    /\ DOMAIN channels \subseteq Channels
    /\ \A c \in DOMAIN channels : channels[c] \in ChannelState
    /\ DOMAIN sidMap \subseteq Sids /\ \A s \in DOMAIN sidMap : sidMap[s] \in Channels
    /\ DOMAIN pending \subseteq Nat /\ \A i \in DOMAIN pending : pending[i] \in Channels
    /\ nextId \in Nat
    /\ op \in [name : {"none", "add_market", "add_markets", "remove_market"},
               markets : SUBSET Markets, left : SUBSET Channels, sentIn : Nat]
    /\ sweep \in [left : SUBSET (Channels \X Markets), sentIn : Nat]
    /\ DOMAIN resub \subseteq Channels /\ \A c \in DOMAIN resub : resub[c] \subseteq Markets
    /\ recovery \in [left : SUBSET Channels, size : Nat, suspended : BOOLEAN]
    /\ gap \in Channels \cup {NoChannel}
    /\ called \in [ops : Nat, refusals : Nat, closed : BOOLEAN]

Init ==
    /\ ServerInit
    /\ listening = FALSE
    /\ listener = "off"
    /\ channels = <<>>
    /\ sidMap = <<>>
    /\ pending = <<>>
    /\ nextId = 1
    /\ op = NoOp
    /\ sweep = NoSweep
    /\ resub = <<>>
    /\ recovery = NoRecovery
    /\ gap = NoChannel
    /\ called = [ops |-> 0, refusals |-> 0, closed |-> FALSE]

-----------------------------------------------------------------------------
(* Sending.  Before the first connect a command is dropped in silence      *)
(* ("if self.ws"); on a closed connection the send raises, after the state *)
(* was changed.                                                            *)

Raises == link = "closed"

Send(request) ==
    requests' = IF link = "open" THEN Append(requests, request) ELSE requests

NoSend == UNCHANGED <<requests, pending, nextId>>

SendSubscribe(c, markets) ==
    /\ Send([cmd |-> "subscribe", id |-> nextId, channel |-> c, markets |-> markets])
    /\ pending' = Put(pending, nextId, c)
    /\ nextId' = nextId + 1

SendUnsubscribe(sid) ==
    /\ Send([cmd |-> "unsubscribe", sid |-> sid])
    /\ UNCHANGED <<pending, nextId>>

SendUpdate(sid, markets, action) ==
    /\ Send([cmd |-> "update_subscription", sid |-> sid, markets |-> markets,
             action |-> action])
    /\ UNCHANGED <<pending, nextId>>

\* Faulty variant: nobody looks.
NeverPending(c) == FALSE
IsPending(c) == \E i \in DOMAIN pending : pending[i] = c

StateOf(c) == IF c \in DOMAIN channels THEN channels[c] ELSE Fresh

-----------------------------------------------------------------------------
(* One channel's share of an operation o.  It goes on with the next        *)
(* channel, or ends the operation by raising out of its send.              *)

Rest(o, c) == IF o.left \subseteq {c} THEN NoOp ELSE [o EXCEPT !.left = @ \ {c}]

GoOn(o, c) ==
    /\ NoSend
    /\ op' = IF Rest(o, c) = NoOp THEN NoOp ELSE [Rest(o, c) EXCEPT !.sentIn = 0]

GoOnUnlessRaised(o, c) ==
    op' = IF Raises \/ Rest(o, c) = NoOp THEN NoOp
          ELSE [Rest(o, c) EXCEPT !.sentIn = session]

\* add_market: one market, and a channel that awaits its sid collects it.
AddMarket(o, c, market) ==
    LET state == StateOf(c)
        added == [state EXCEPT !.markets = @ \cup {market}]
    IN  /\ UNCHANGED sidMap
        /\ \/ /\ market \in state.markets
              /\ channels' = Put(channels, c, state)
              /\ GoOn(o, c)
           \/ /\ market \notin state.markets
              /\ state.sid # NoSid
              /\ channels' = Put(channels, c, added)
              /\ SendUpdate(state.sid, {market}, "add_markets") /\ GoOnUnlessRaised(o, c)
           \/ /\ market \notin state.markets
              /\ state.sid = NoSid /\ ~IsPending(c)
              /\ channels' = Put(channels, c, added)
              /\ SendSubscribe(c, {market}) /\ GoOnUnlessRaised(o, c)
           \/ /\ market \notin state.markets
              /\ state.sid = NoSid /\ IsPending(c)
              /\ channels' = Put(channels, c, [added EXCEPT !.pending = @ \cup {market}])
              /\ GoOn(o, c)

\* add_markets: several markets, and no look at what is pending.
AddMarkets(o, c, markets) ==
    LET state == StateOf(c)
        new == markets \ state.markets
        added == [state EXCEPT !.markets = @ \cup new]
    IN  /\ channels' = Put(channels, c, added)
        /\ UNCHANGED sidMap
        /\ \/ new = {} /\ GoOn(o, c)
           \/ /\ new # {} /\ state.sid # NoSid
              /\ SendUpdate(state.sid, new, "add_markets") /\ GoOnUnlessRaised(o, c)
           \/ /\ new # {} /\ state.sid = NoSid
              /\ SendSubscribe(c, added.markets) /\ GoOnUnlessRaised(o, c)

\* remove_market: the last market of a subscribed channel takes the channel along.
RemoveMarket(o, c, market) ==
    LET state == StateOf(c)
        removed == [state EXCEPT !.markets = @ \ {market}]
    IN  \/ /\ market \notin state.markets
           /\ UNCHANGED <<channels, sidMap>>
           /\ GoOn(o, c)
        \/ /\ market \in state.markets /\ state.sid = NoSid
           /\ channels' = Put(channels, c, removed)
           /\ UNCHANGED sidMap
           /\ GoOn(o, c)
        \/ /\ market \in state.markets /\ state.sid # NoSid
           /\ removed.markets = {}
           /\ channels' = Drop(channels, {c})
           /\ sidMap' = Drop(sidMap, {state.sid})
           /\ SendUnsubscribe(state.sid) /\ GoOnUnlessRaised(o, c)
        \/ /\ market \in state.markets /\ state.sid # NoSid
           /\ removed.markets # {}
           /\ channels' = Put(channels, c, removed)
           /\ UNCHANGED sidMap
           /\ SendUpdate(state.sid, {market}, "delete_markets") /\ GoOnUnlessRaised(o, c)

-----------------------------------------------------------------------------
(* The public operations.                                                  *)

\* The wire, and what only the listener changes.
WireOnlySends == UNCHANGED <<link, session, replies, subs, nextSid, spent>>
ListenerWaits == UNCHANGED <<listening, listener, recovery, gap>>

Unlocked == op = NoOp

\* A program that obeys all these rules is always served the markets the client
\* keeps (InSync); one that does not may not be.  No call before connect; none while
\* the client reconnects; only add_market on a kept channel that the exchange has not
\* confirmed; none during unsubscribe_all or in the channel's resubscription pause;
\* and resubscribe_channel only while nobody listens, which nobody does until it
\* returns (the loop of the README).
Obeys(name, c) ==
    /\ "after_connect" \in Rules => link # "none"
    /\ "not_reconnecting" \in Rules => listener \notin {"sleeping", "recovering"}
    /\ "confirmed" \in Rules =>
           ((name # "add_market" /\ c \in DOMAIN channels) => channels[c].sid # NoSid)
    /\ "alone" \in Rules => sweep = NoSweep /\ c \notin DOMAIN resub
    /\ ("gap_loop" \in Rules /\ name = "resubscribe_channel") => listener = "off"

Calls(name, c) ==
    /\ name \in Operations
    /\ called.ops < MaxCalls
    /\ Obeys(name, c)
    /\ called' = [called EXCEPT !.ops = @ + 1]

\* The share of one of the channels that operation o has left.
ShareOf(o) ==
    /\ \E c \in o.left :
           \/ o.name = "add_market" /\ \A m \in o.markets : AddMarket(o, c, m)
           \/ o.name = "add_markets" /\ AddMarkets(o, c, o.markets)
           \/ o.name = "remove_market" /\ \A m \in o.markets : RemoveMarket(o, c, m)
    /\ WireOnlySends /\ ListenerWaits
    /\ UNCHANGED <<sweep, resub>>

\* add_market, add_markets and remove_market take the lock.
Begin(name, markets, names) ==
    /\ Unlocked
    /\ name \in {"add_market", "remove_market"} => Cardinality(markets) = 1
    /\ \A c \in names : Calls(name, c)
    /\ ShareOf([name |-> name, markets |-> markets, left |-> names, sentIn |-> 0])

\* The connection broke, or was replaced, while task o was suspended in a send.  (If
\* that send was just done, the source changes the next channel before it raises: the
\* same state as after that share, the loss and then Abort.)
Interrupted(o) == o.sentIn # 0 /\ (o.sentIn # session \/ Raises)

Share ==
    /\ ~Unlocked /\ ~Interrupted(op)
    /\ ShareOf(op)
    /\ UNCHANGED called

\* Faulty variant: the lock is not released when the send raises.
AbortKeepsLock ==
    /\ Interrupted(op) \/ Interrupted(sweep)
    /\ UNCHANGED vars

\* The send raises in its task, and the operation ends.
Abort ==
    /\ \/ Interrupted(op) /\ op' = NoOp /\ UNCHANGED sweep
       \/ Interrupted(sweep) /\ sweep' = NoSweep /\ UNCHANGED op
    /\ UNCHANGED <<serverVars, listening, listener, channels, sidMap, pending, nextId,
                   resub, recovery, gap, called>>

\* unsubscribe_all reads what there is under the lock, then removes it one by one.
UnsubscribeAll ==
    /\ Unlocked /\ sweep = NoSweep
    /\ \A c \in DOMAIN channels : Obeys("unsubscribe_all", c)
    /\ "unsubscribe_all" \in Operations /\ called.ops < MaxCalls
    /\ called' = [called EXCEPT !.ops = @ + 1]
    /\ sweep' = [left |-> UNION {{c} \X channels[c].markets : c \in DOMAIN channels},
                  sentIn |-> 0]
    /\ UNCHANGED <<serverVars, listening, listener, channels, sidMap, pending, nextId,
                   op, resub, recovery, gap>>

Sweep ==
    /\ Unlocked /\ ~Interrupted(sweep)
    /\ \E pair \in sweep.left :
           LET state == StateOf(pair[1])
               sends == pair[2] \in state.markets /\ state.sid # NoSid
           IN  /\ RemoveMarket(NoOp, pair[1], pair[2])
               /\ sweep' = IF (sends /\ Raises) \/ sweep.left = {pair} THEN NoSweep
                           ELSE [left |-> sweep.left \ {pair},
                                 sentIn |-> IF sends THEN session ELSE 0]
    /\ WireOnlySends /\ ListenerWaits
    /\ UNCHANGED <<resub, called>>

\* request_snapshot (of a channel that is not subscribed it raises ValueError).
RequestSnapshot(c, markets) ==
    /\ Unlocked
    /\ StateOf(c).sid # NoSid
    /\ Calls("request_snapshot", c)
    /\ SendUpdate(StateOf(c).sid, markets, "get_snapshot")
    /\ WireOnlySends /\ ListenerWaits
    /\ UNCHANGED <<channels, sidMap, op, sweep, resub>>

\* resubscribe_channel up to its pause.  (A send that the loss interrupts leaves the
\* state of one that raises after the loss.)
Resubscribe(c) ==
    /\ Unlocked
    /\ c \in DOMAIN channels /\ c \notin DOMAIN resub
    /\ Calls("resubscribe_channel", c)
    /\ channels' = Put(channels, c, [channels[c] EXCEPT !.sid = NoSid, !.seq = NoSeq])
    /\ LET old == channels[c].sid
           saved == Put(resub, c, channels[c].markets)
       IN  \/ old = NoSid /\ NoSend /\ UNCHANGED sidMap /\ resub' = saved
           \/ /\ old # NoSid
              /\ sidMap' = Drop(sidMap, {old})
              /\ SendUnsubscribe(old)
              /\ resub' = IF Raises THEN resub ELSE saved
    /\ WireOnlySends /\ ListenerWaits
    /\ UNCHANGED <<op, sweep>>

\* resubscribe_channel after its pause.
ResubscribeAgain(c) ==
    /\ Unlocked
    /\ c \in DOMAIN resub
    /\ resub' = Drop(resub, {c})
    /\ \/ resub[c] = {} /\ NoSend
       \/ resub[c] # {} /\ SendSubscribe(c, resub[c])
    /\ WireOnlySends /\ ListenerWaits
    /\ UNCHANGED <<channels, sidMap, op, sweep, called>>

\* The program's first connect; a failure raises and changes nothing.
Connect ==
    /\ link = "none"
    /\ Accept
    /\ listening' = TRUE
    /\ called' = [called EXCEPT !.closed = FALSE]
    /\ UNCHANGED <<spent, listener, channels, sidMap, pending, nextId,
                   op, sweep, resub, recovery, gap>>

\* The program runs listener_loop (again); it returns at once after close.
Listen ==
    /\ listener = "off"
    /\ listening
    /\ "gap_loop" \in Rules => resub = <<>>
    /\ listener' = "reading"
    /\ gap' = NoChannel
    /\ UNCHANGED <<serverVars, listening, channels, sidMap, pending, nextId,
                   op, sweep, resub, recovery, called>>

\* close does not take the lock.
Close ==
    /\ "close" \in Operations /\ ~called.closed
    /\ listening' = FALSE
    /\ called' = [called EXCEPT !.closed = TRUE]
    /\ IF link = "open" THEN Hangup ELSE UNCHANGED <<link, requests, replies, subs>>
    /\ UNCHANGED <<session, nextSid, spent, listener, channels, sidMap, pending, nextId,
                   op, sweep, resub, recovery, gap>>

-----------------------------------------------------------------------------
(* The listener.                                                           *)

\* Faulty variants of the two operators below: the sids stay; nothing but what
\* is pending is forgotten; all but what is pending is.
ForgottenSeqs(chs) == [c \in DOMAIN chs |-> [chs[c] EXCEPT !.seq = NoSeq]]
LosePending(chs) == channels' = chs /\ pending' = <<>> /\ UNCHANGED sidMap
LoseSids(chs) == channels' = ForgottenSeqs(chs) /\ sidMap' = <<>> /\ UNCHANGED pending

Forgotten(chs) == [c \in DOMAIN chs |-> [chs[c] EXCEPT !.sid = NoSid, !.seq = NoSeq]]

\* _handle_connection_loss, of the channel states chs.
HandleConnectionLoss(chs) == channels' = Forgotten(chs) /\ sidMap' = <<>> /\ pending' = <<>>

\* listener_loop's answer to an error of the socket: stop, or forget and wait.
SocketError(chs, sids, ids) ==
    /\ UNCHANGED gap
    /\ \/ /\ ~listening
          /\ listener' = "off"
          /\ channels' = chs /\ sidMap' = sids /\ pending' = ids
       \/ /\ listening
          /\ listener' = "sleeping"
          /\ HandleConnectionLoss(chs)

\* The reader has taken every message that had arrived before the end.
ConnectionLost ==
    /\ listener = "reading"
    /\ link = "closed" /\ replies = <<>>
    /\ SocketError(channels, sidMap, pending)
    /\ UNCHANGED <<serverVars, listening, nextId, op, sweep, resub, recovery, called>>

\* After the pause: connect succeeds and the recovery starts, or it fails.
\* connect sets _listening, whatever happened during the pause.
Reconnect ==
    /\ listener = "sleeping"
    /\ Accept
    /\ listening' = TRUE
    /\ listener' = IF channels = <<>> THEN "reading" ELSE "recovering"
    /\ recovery' = IF channels = <<>> THEN NoRecovery
                   ELSE [left |-> DOMAIN channels, size |-> Cardinality(DOMAIN channels),
                         suspended |-> FALSE]
    /\ UNCHANGED <<spent, channels, sidMap, pending, nextId, op, sweep, resub, gap, called>>

ReconnectFails ==
    /\ listener = "sleeping"
    /\ called.refusals < MaxRefusals
    /\ listener' = "reading"
    /\ called' = [called EXCEPT !.refusals = @ + 1]
    /\ UNCHANGED <<serverVars, listening, channels, sidMap, pending, nextId,
                   op, sweep, resub, recovery, gap>>

\* One turn of the loop of _recover_subscriptions.  The loop iterates over the
\* dict of channels: when that has grown, the next turn raises RuntimeError.  A
\* send that is suspended when the connection breaks raises too.  (So does the next
\* one, with its id registered: the same state as after that turn and the loss.)
RecoverTurn(c) ==
    \/ /\ channels[c].markets = {}
       /\ NoSend
       /\ recovery' = [recovery EXCEPT !.left = @ \ {c}, !.suspended = FALSE]
    \/ /\ channels[c].markets # {}
       /\ SendSubscribe(c, channels[c].markets)
       /\ recovery' = [recovery EXCEPT !.left = @ \ {c}, !.suspended = TRUE]

\* Faulty variant: the last channel is left out.
RecoverEndsEarly == Raises \/ Cardinality(recovery.left) <= 1

RecoverEnds ==
    \/ Raises
    \/ Cardinality(DOMAIN channels) # recovery.size
    \/ recovery.left = {}

Recover ==
    /\ listener = "recovering"
    /\ \/ /\ ~RecoverEnds
          /\ \E c \in recovery.left : RecoverTurn(c)
          /\ UNCHANGED listener
       \/ /\ RecoverEnds
          /\ NoSend
          /\ listener' = "reading" /\ recovery' = NoRecovery
    /\ WireOnlySends
    /\ UNCHANGED <<listening, channels, sidMap, op, sweep, resub, gap, called>>

-----------------------------------------------------------------------------
(* _handle_incoming_message, one action per type of message.               *)

Reading(type) ==
    /\ listener = "reading"
    /\ Unlocked
    /\ replies # <<>> /\ Head(replies).type = type
    /\ replies' = Tail(replies)
    /\ UNCHANGED <<link, session, subs, nextSid, spent>>
    /\ UNCHANGED <<listening, nextId, op, sweep, resub, recovery, called>>

KeepReading == UNCHANGED <<listener, gap>>

\* Faulty variants: only a number that goes back is a gap; the next one is one.
IsGapBackwards(last, seq) == last # NoSeq /\ seq <= last
IsGapNext(last, seq) == last # NoSeq /\ last # seq

IsGap(last, seq) == last # NoSeq /\ last + 1 # seq

\* The states chs, with the sequence number of channel c checked and updated:
\* a gap raises out of the listener's loop and leaves the number as it was.
CheckAndUpdateSeq(chs, c, seq) ==
    \/ /\ seq = NoSeq
       /\ channels' = chs /\ KeepReading
    \/ /\ seq # NoSeq /\ IsGap(chs[c].seq, seq)
       /\ channels' = chs /\ listener' = "off" /\ gap' = c
    \/ /\ seq # NoSeq /\ ~IsGap(chs[c].seq, seq)
       /\ channels' = [chs EXCEPT ![c].seq = seq] /\ KeepReading

\* The sid is in the body of the reply.  Faulty variant: it is looked for beside it.
SidBeside(m) == NoSid
SidOf(m) == m.sid

\* The reply to a subscribe of a channel that is still kept.
Expected(m) == m.id \in DOMAIN pending /\ pending[m.id] \in DOMAIN channels

HandleSubscribed ==
    LET m == Head(replies) IN
    /\ Reading("subscribed")
    /\ \/ /\ ~Expected(m)
          /\ pending' = Drop(pending, {m.id})
          /\ UNCHANGED <<requests, channels, sidMap>> /\ KeepReading
       \/ /\ Expected(m)
          /\ LET c == pending[m.id]
                 confirmed == [channels EXCEPT ![c].sid = SidOf(m)]
                 sids == Put(sidMap, SidOf(m), c)
                 ids == Drop(pending, {m.id})
             IN  \/ /\ channels[c].pending = {}
                    /\ channels' = confirmed /\ sidMap' = sids /\ pending' = ids
                    /\ UNCHANGED requests /\ KeepReading
                 \/ /\ channels[c].pending # {} /\ ~Raises
                    /\ channels' = [confirmed EXCEPT ![c].pending = {}]
                    /\ sidMap' = sids /\ pending' = ids
                    /\ Send([cmd |-> "update_subscription", sid |-> SidOf(m),
                             markets |-> channels[c].pending, action |-> "add_markets"])
                    /\ KeepReading
                 \/ /\ channels[c].pending # {} /\ Raises
                    /\ SocketError(confirmed, sids, ids)
                    /\ UNCHANGED requests

HandleOk ==
    LET m == Head(replies) IN
    /\ Reading("ok")
    /\ UNCHANGED <<requests, sidMap, pending>>
    /\ \/ m.sid \notin DOMAIN sidMap /\ UNCHANGED channels /\ KeepReading
       \/ /\ m.sid \in DOMAIN sidMap
          /\ LET c == sidMap[m.sid]
                 told == IF OkCarriesTickers THEN [channels EXCEPT ![c].markets = m.markets]
                                             ELSE channels
             IN  CheckAndUpdateSeq(told, c, m.seq)

HandleUnsubscribed ==
    /\ Reading("unsubscribed")
    /\ sidMap' = Drop(sidMap, {Head(replies).sid})
    /\ UNCHANGED <<requests, channels, pending>> /\ KeepReading

\* An error reply is passed to the callback and changes nothing.
HandleError ==
    /\ Reading("error")
    /\ UNCHANGED <<requests, channels, sidMap, pending>> /\ KeepReading

\* A message on a subscription of the channel that its type belongs to.
Routed(m) == m.sid \in DOMAIN sidMap /\ sidMap[m.sid] = m.channel

HandleData ==
    LET m == Head(replies) IN
    /\ Reading("data")
    /\ UNCHANGED <<requests, sidMap, pending>>
    /\ \/ ~Routed(m) /\ UNCHANGED channels /\ KeepReading
       \/ Routed(m) /\ CheckAndUpdateSeq(channels, m.channel, m.seq)

Handle == HandleSubscribed \/ HandleOk \/ HandleUnsubscribed \/ HandleError \/ HandleData

-----------------------------------------------------------------------------

\* Nothing is on its way, nobody is in the middle of anything.
Quiet ==
    /\ link = "open" /\ listener = "reading"
    /\ requests = <<>> /\ replies = <<>>
    /\ Unlocked /\ sweep = NoSweep /\ resub = <<>>

\* Where the program may stay for ever: all quiet, or nobody listens.
Stays ==
    /\ Quiet \/ (listener = "off" /\ Unlocked /\ sweep = NoSweep /\ resub = <<>>)
    /\ UNCHANGED vars

Call ==
    \/ Connect \/ Listen \/ Close \/ UnsubscribeAll
    \/ \E name \in Operations, markets \in (SUBSET Markets) \ {{}}, names \in (SUBSET Channels) \ {{}} :
           name \in {"add_market", "add_markets", "remove_market"} /\ Begin(name, markets, names)
    \/ \E c \in Channels : Resubscribe(c) \/ \E m \in Markets : RequestSnapshot(c, {m})

Continue == Share \/ Abort \/ Sweep \/ \E c \in Channels : ResubscribeAgain(c)

ListenerStep == Handle \/ ConnectionLost \/ Reconnect \/ ReconnectFails \/ Recover

Environment == ServerNext /\ UNCHANGED clientVars

\* A task that has not suspended since it got hold of the event loop: nothing
\* but its own next step can happen.
OpRuns == op # NoOp /\ op.sentIn = 0
SweepRuns == sweep # NoSweep /\ sweep.sentIn = 0
RecoveryRuns == recovery # NoRecovery /\ ~recovery.suspended

Next ==
    \/ OpRuns /\ Share
    \/ SweepRuns /\ Sweep
    \/ RecoveryRuns /\ Recover
    \/ /\ ~OpRuns /\ ~SweepRuns /\ ~RecoveryRuns
       /\ (Call \/ Continue \/ ListenerStep \/ Environment \/ Stays)

Spec == Init /\ [][Next]_vars

\* What is due runs: the tasks of the event loop, and the exchange's answers.
Fairness ==
    /\ WF_vars(Handle \/ ConnectionLost \/ Reconnect \/ Recover)
    /\ WF_vars(Continue)
    /\ WF_vars(Serve /\ UNCHANGED clientVars)

FairSpec == Spec /\ Fairness

-----------------------------------------------------------------------------
(* Correctness.                                                            *)

\* The two indexes of the subscriptions agree: _sid_map leads from a sid to
\* the one kept channel whose state holds that sid, and every state that holds
\* a sid is found through it (add, remove, resubscribe, loss, "subscribed").
SidMapInverse ==
    /\ \A s \in DOMAIN sidMap :
           sidMap[s] \in DOMAIN channels /\ channels[sidMap[s]].sid = s
    /\ \A c \in DOMAIN channels :
           channels[c].sid # NoSid =>
               channels[c].sid \in DOMAIN sidMap /\ sidMap[channels[c].sid] = c

\* A message is never booked on the wrong channel: a sid the client knows
\* means for the exchange what it means for the client, although sids start
\* again with each connection (_handle_connection_loss forgets them in time).
Routing ==
    \A s \in DOMAIN sidMap \cap DOMAIN subs : sidMap[s] = subs[s].channel

\* No silent gap: the client's position in a subscription never passes a
\* message that the exchange numbered but did not deliver, the ones before the
\* first message it sent excepted (_check_and_update_seq).
NoSilentGap ==
    \A s \in DOMAIN sidMap \cap DOMAIN subs :
        LET seq == channels[sidMap[s]].seq IN
        \A k \in subs[s].skipped : k < subs[s].first \/ k > seq

\* No false alarm: listener_loop raises KalshiSequenceGapError only on a
\* message of a subscription in which the exchange did skip one.
GapIsReal ==
    [][gap' # NoChannel /\ gap = NoChannel => Head(replies).skips]_vars

\* Once all is quiet, the exchange serves exactly the markets the client
\* keeps, channel by channel: nothing it was asked for is missing, and
\* nothing it was told to stop still runs.
Served(c) == UNION {subs[s].markets : s \in {s \in DOMAIN subs : subs[s].channel = c}}
InSync == Quiet => \A c \in Channels : Served(c) = StateOf(c).markets

\* The client never waits for an answer that cannot come: an id it keeps
\* belongs to a subscribe that is still to be answered.
PendingAnswerable ==
    Quiet => pending = <<>>

\* close is final: no connection is open once it was called, unless the program
\* itself connects after it.
CloseIsFinal == called.closed => link # "open"

\* However often the connection breaks, the client ends up quiet, connected
\* and listening again (or stopped by a sequence gap, or by close).
Recovers == link = "closed" /\ listening ~> Quiet \/ listener = "off"
=============================================================================
