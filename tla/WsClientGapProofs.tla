-------------------------- MODULE WsClientGapProofs --------------------------
(***************************************************************************)
(* No false alarm: the theorem that a sequence gap is reported only where  *)
(* the exchange skipped a number, for any channels, operations and losses. *)
(* The invariant of WsClientProofs is about the exchange's subscriptions;  *)
(* this one must survive them, since the client goes on reading after the  *)
(* connection broke.  It says of each sid that from where the client       *)
(* stands to a message that was sent before any skip, every number is on   *)
(* its way (Numbering), and that the channel of a message is the one the   *)
(* client will book it on (Labelled).                                      *)
(***************************************************************************)
EXTENDS WsClientProofs

\* Where the client stands in the stream of sid s, and the numbers that are coming.
Place(s) == IF s \in DOMAIN sidMap THEN channels[sidMap[s]].seq ELSE NoSeq
Coming(s, k) == \E i \in 1 .. Len(replies) : Carries(i, s) /\ replies[i].seq = k
Passed(s, k) == k = Place(s) \/ Coming(s, k)

\* From every place that is passed up to n no number is missing.
Gapless(s, n) ==
    \A a \in 1 .. n : Passed(s, a) => \A k \in a + 1 .. n : Coming(s, k)

\* Numbers come in their order, and a skip is never forgotten.
Rising(s) ==
    \A i, j \in 1 .. Len(replies) : Carries(i, s) /\ Carries(j, s) /\ i < j =>
        replies[i].seq < replies[j].seq /\ (replies[i].skips => replies[j].skips)

Numbering(s) ==
    /\ Rising(s)
    /\ \A i \in 1 .. Len(replies) : Carries(i, s) =>
           Place(s) < replies[i].seq /\ (~replies[i].skips => Gapless(s, replies[i].seq))
    /\ s \in DOMAIN subs /\ subs[s].skipped = {} =>
           /\ Gapless(s, subs[s].seq)
           /\ \A i \in 1 .. Len(replies) : Carries(i, s) => ~replies[i].skips

\* The data of a sid are labelled with its channel.
Labelled ==
    \A i \in 1 .. Len(replies) : replies[i].type = "data" =>
        /\ replies[i].sid \in DOMAIN sidMap => sidMap[replies[i].sid] = replies[i].channel
        /\ \A j \in 1 .. Len(replies) :
               Confirms(j) /\ replies[j].sid = replies[i].sid /\ replies[j].id \in DOMAIN pending
                   => pending[replies[j].id] = replies[i].channel

GInv == (\A s \in Sids : Numbering(s)) /\ Labelled

-----------------------------------------------------------------------------
(* The numbers of one stream.                                              *)

\* A message with a number has one from 1 on, and says whether there was a skip.
LEMMA NumbersTyped ==
    ASSUME TypeOK
    PROVE  /\ Len(replies) \in Nat
           /\ \A i, s : Carries(i, s) => /\ i \in 1 .. Len(replies) /\ s \in Sids
                                         /\ replies[i].seq \in Nat /\ replies[i].seq > 0
                                         /\ replies[i].skips \in BOOLEAN
<1>1. Len(replies) \in Nat /\ \A i \in 1 .. Len(replies) : replies[i] \in Reply
  BY Elements DEF TypeOK, ServerTypeOK
<1>2. ASSUME NEW i, NEW s, Carries(i, s)
      PROVE  /\ i \in 1 .. Len(replies) /\ s \in Sids
             /\ replies[i].seq \in Nat /\ replies[i].seq > 0
             /\ replies[i].skips \in BOOLEAN
  <2>1. /\ i \in 1 .. Len(replies) /\ replies[i].type \in {"ok", "data"}
        /\ replies[i].sid = s /\ replies[i].seq # 0
    BY <1>2 DEF Carries, NoSeq
  <2>2. replies[i] \in Reply
    BY <1>1, <2>1
  <2> QED
    BY <2>1, <2>2 DEF Reply
<1> QED
  BY <1>1, <1>2

LEMMA PlaceTyped ==
    ASSUME TypeOK, SidMapInverse, NEW s
    PROVE  Place(s) \in Nat
BY DEF TypeOK, SidMapInverse, Place, ChannelState, NoSeq

\* A step that leaves the stream of s alone, where the client may forget its place.
LEMMA NumberingSame ==
    ASSUME TypeOK, TypeOK', SidMapInverse, NEW s, Numbering(s),
           \A i : Carries(i, s)' <=> Carries(i, s),
           \A i : Carries(i, s) => replies'[i] = replies[i],
           Place(s)' \in {Place(s), NoSeq},
           s \in DOMAIN subs' /\ subs'[s].skipped = {} =>
               s \in DOMAIN subs /\ subs'[s].seq = subs[s].seq /\ subs[s].skipped = {}
    PROVE  Numbering(s)'
<1>1. /\ \A i : Carries(i, s) => /\ i \in 1 .. Len(replies) /\ i \in 1 .. Len(replies')
                                 /\ replies[i].seq \in Nat /\ replies[i].seq > 0
      /\ Place(s) \in Nat /\ Place(s)' <= Place(s)
      /\ Place(s)' # 0 => Place(s)' = Place(s)
  BY NumbersTyped, PlaceTyped DEF NoSeq, Carries
<1>2. \A k : Coming(s, k)' <=> Coming(s, k)
  BY <1>1 DEF Coming
<1>3. \A n : Gapless(s, n) => Gapless(s, n)'
  <2>1. ASSUME NEW n, Gapless(s, n), NEW a \in 1 .. n, Passed(s, a)', NEW k \in a + 1 .. n
        PROVE  Coming(s, k)'
    <3>1. Passed(s, a)
      BY <1>1, <1>2, <2>1 DEF Passed
    <3> QED
      BY <1>2, <2>1, <3>1 DEF Gapless
  <2> QED
    BY <2>1 DEF Gapless
<1>4. Rising(s)'
  BY <1>1 DEF Numbering, Rising
<1>5. ASSUME NEW i \in 1 .. Len(replies'), Carries(i, s)'
      PROVE  Place(s)' < replies'[i].seq /\ (~replies'[i].skips => Gapless(s, replies[i].seq)')
  <2>1. /\ Carries(i, s) /\ replies'[i] = replies[i] /\ i \in 1 .. Len(replies)
        /\ replies[i].seq \in Nat
    BY <1>1, <1>5
  <2>2. Place(s) < replies[i].seq /\ (~replies[i].skips => Gapless(s, replies[i].seq))
    BY <2>1 DEF Numbering
  <2>3. PICK n : n = replies[i].seq
    OBVIOUS
  <2>4. ~replies[i].skips => Gapless(s, n)'
    BY <1>3, <2>2, <2>3
  <2> QED
    BY <1>1, <2>1, <2>2, <2>3, <2>4 DEF Gapless
<1>6. ASSUME s \in DOMAIN subs', subs'[s].skipped = {}
      PROVE  /\ Gapless(s, subs[s].seq)'
             /\ \A i \in 1 .. Len(replies') : Carries(i, s)' => ~replies'[i].skips
  <2>1. s \in DOMAIN subs /\ subs[s].skipped = {} /\ subs'[s].seq = subs[s].seq
    BY <1>6
  <2>2. PICK n : n = subs[s].seq
    OBVIOUS
  <2>3. Gapless(s, n)'
    BY <1>3, <2>1, <2>2 DEF Numbering
  <2> QED
    BY <1>1, <2>1, <2>2, <2>3 DEF Gapless, Numbering
<1> QED
  BY <1>4, <1>5, <1>6 DEF Numbering

\* The last messages of a broken connection are lost.
LEMMA NumberingPrefix ==
    ASSUME TypeOK, TypeOK', SidMapInverse, NEW s, Numbering(s),
           NEW n \in 0 .. Len(replies), Len(replies') = n,
           \A i \in 1 .. n : replies'[i] = replies[i],
           Place(s)' = Place(s), s \notin DOMAIN subs'
    PROVE  Numbering(s)'
<1>1. /\ Len(replies) \in Nat
      /\ \A i : Carries(i, s) => /\ i \in 1 .. Len(replies)
                                 /\ replies[i].seq \in Nat /\ replies[i].seq > 0
  BY NumbersTyped
<1>2. \A i : Carries(i, s)' => i \in 1 .. n /\ Carries(i, s) /\ replies'[i] = replies[i]
  BY <1>1 DEF Carries
<1>3. \A i \in 1 .. n : Carries(i, s) => Carries(i, s)'
  BY DEF Carries
<1>4. Rising(s)'
  BY <1>1, <1>2 DEF Numbering, Rising
<1>5. ASSUME NEW i \in 1 .. Len(replies'), Carries(i, s)', ~replies'[i].skips
      PROVE  Gapless(s, replies[i].seq)'
  <2>0. PICK m : m = replies[i].seq
    OBVIOUS
  <2>1. i \in 1 .. n /\ Carries(i, s) /\ replies'[i] = replies[i] /\ m \in Nat /\ Gapless(s, m)
    BY <1>1, <1>2, <1>5, <2>0 DEF Numbering
  <2>2. ASSUME NEW a \in 1 .. m, Passed(s, a)', NEW k \in a + 1 .. m PROVE Coming(s, k)'
    <3>1. Passed(s, a)
      BY <1>1, <1>2, <2>2 DEF Passed, Coming
    <3>2. PICK j \in 1 .. Len(replies) : Carries(j, s) /\ replies[j].seq = k
      BY <2>1, <2>2, <3>1 DEF Gapless, Coming
    <3>3. j <= i
      <4>1. j > i => m < k
        BY <1>1, <2>0, <2>1, <3>2 DEF Numbering, Rising
      <4>2. k <= m /\ k \in Int
        BY <2>1, <2>2
      <4> QED
        BY <1>1, <2>1, <4>1, <4>2
    <3>4. j \in 1 .. n
      BY <1>1, <2>1, <3>3
    <3> QED
      BY <1>3, <3>2, <3>4 DEF Coming
  <2>3. Gapless(s, m)'
    BY <2>2 DEF Gapless
  <2> QED
    BY <2>0, <2>1, <2>3 DEF Gapless
<1>6. \A i \in 1 .. Len(replies') : Carries(i, s)' => Place(s)' < replies'[i].seq
  BY <1>1, <1>2 DEF Numbering
<1> QED
  BY <1>4, <1>5, <1>6 DEF Numbering

\* The first message is read: the client takes its place there, or does not count the
\* stream, or was told of a skip.
LEMMA NumberingRead ==
    ASSUME TypeOK, TypeOK', SidMapInverse, NEW s, Numbering(s),
           Len(replies') = Len(replies) - 1, 1 \in 1 .. Len(replies),
           \A i \in 1 .. Len(replies') : replies'[i] = replies[i + 1],
           subs' = subs,
           \/ Place(s)' = NoSeq
           \/ ~Carries(1, s) /\ Place(s)' = Place(s)
           \/ Carries(1, s) /\ Place(s)' = replies[1].seq
           \/ Carries(1, s) /\ Place(s)' = Place(s) /\ replies[1].skips
    PROVE  Numbering(s)'
<1>1. /\ Len(replies) \in Nat
      /\ \A i : Carries(i, s) => /\ i \in 1 .. Len(replies)
                                 /\ replies[i].seq \in Nat /\ replies[i].seq > 0
  BY NumbersTyped
<1>2. \A i : Carries(i, s)' => /\ i \in 1 .. Len(replies') /\ i + 1 \in 1 .. Len(replies)
                              /\ Carries(i + 1, s) /\ replies'[i] = replies[i + 1]
  BY <1>1 DEF Carries
<1>3. ASSUME NEW k, Coming(s, k), Carries(1, s) => k # replies[1].seq
      PROVE  Coming(s, k)'
  <2>1. PICK j \in 1 .. Len(replies) : Carries(j, s) /\ replies[j].seq = k
    BY <1>3 DEF Coming
  <2>2. PICK i : i = j - 1
    OBVIOUS
  <2>3. i \in 1 .. Len(replies') /\ i + 1 = j
    BY <1>1, <1>3, <2>1, <2>2
  <2>4. Carries(i, s)' /\ replies'[i].seq = k
    BY <2>1, <2>3 DEF Carries
  <2> QED
    BY <2>3, <2>4 DEF Coming
<1>4. \A k : Coming(s, k)' => Coming(s, k) /\ (Carries(1, s) => replies[1].seq < k)
  <2>1. ASSUME NEW i \in 1 .. Len(replies'), Carries(i, s)'
        PROVE  Coming(s, replies'[i].seq) /\ (Carries(1, s) => replies[1].seq < replies'[i].seq)
    <3>1. i + 1 \in 1 .. Len(replies) /\ Carries(i + 1, s) /\ replies'[i] = replies[i + 1] /\ 1 < i + 1
      BY <1>1, <1>2, <2>1
    <3> QED
      BY <3>1 DEF Coming, Numbering, Rising
  <2> QED
    BY <2>1 DEF Coming
<1>5. Rising(s)'
  BY <1>1, <1>2 DEF Numbering, Rising
\* Where it does not follow from the lost message, nothing claims to be without gaps.
<1>6. ASSUME NEW n \in Nat, Gapless(s, n), Carries(1, s) => ~replies[1].skips
      PROVE  Gapless(s, n)'
  <2>1. ASSUME NEW a \in 1 .. n, Passed(s, a)', NEW k \in a + 1 .. n PROVE Coming(s, k)'
    <3>1. Passed(s, a) /\ (Carries(1, s) => replies[1].seq <= a)
      <4>1. CASE Coming(s, a)'
        BY <1>1, <1>4, <4>1 DEF Passed
      <4>2. CASE a = Place(s)' /\ ~Coming(s, a)'
        <5>1. Place(s)' # NoSeq
          BY <2>1, <4>2 DEF NoSeq
        <5> QED
          BY <1>1, <1>6, <4>2, <5>1 DEF Passed, Coming
      <4> QED
        BY <2>1, <4>1, <4>2 DEF Passed
    <3>2. Coming(s, k)
      BY <1>6, <2>1, <3>1 DEF Gapless
    <3> QED
      BY <1>1, <1>3, <2>1, <3>1, <3>2
  <2> QED
    BY <2>1 DEF Gapless
<1>7. ASSUME NEW i \in 1 .. Len(replies'), Carries(i, s)'
      PROVE  Place(s)' < replies'[i].seq /\ (~replies'[i].skips => Gapless(s, replies[i].seq)')
  <2>0. PICK m : m = replies'[i].seq
    OBVIOUS
  <2>1. /\ i + 1 \in 1 .. Len(replies) /\ Carries(i + 1, s) /\ replies'[i] = replies[i + 1]
        /\ m \in Nat /\ m > 0 /\ 1 < i + 1
    BY <1>1, <1>2, <1>7, <2>0
  <2>2. /\ Place(s) < m /\ (~replies'[i].skips => Gapless(s, m))
        /\ Carries(1, s) => replies[1].seq < m /\ (replies[1].skips => replies'[i].skips)
    BY <2>0, <2>1 DEF Numbering, Rising
  <2>3. ~replies'[i].skips => Gapless(s, m)'
    BY <1>6, <2>1, <2>2
  <2>4. Place(s)' < m
    BY <2>1, <2>2 DEF NoSeq
  <2> QED
    BY <2>0, <2>3, <2>4 DEF Gapless
<1>8. ASSUME s \in DOMAIN subs', subs'[s].skipped = {}
      PROVE  /\ Gapless(s, subs[s].seq)'
             /\ \A i \in 1 .. Len(replies') : Carries(i, s)' => ~replies'[i].skips
  <2>0. PICK m : m = subs[s].seq
    OBVIOUS
  <2>1. /\ s \in DOMAIN subs /\ subs[s].skipped = {} /\ m \in Nat /\ Gapless(s, m)
        /\ \A i : Carries(i, s) => ~replies[i].skips
    BY <1>1, <1>8, <2>0 DEF Numbering, TypeOK, ServerTypeOK, Subscription
  <2>2. Gapless(s, m)'
    BY <1>6, <2>1
  <2>3. m = subs'[s].seq
    BY <2>0
  <2> QED
    BY <1>2, <2>1, <2>2, <2>3 DEF Gapless
<1> QED
  BY <1>5, <1>7, <1>8 DEF Numbering

\* The exchange sends the next number of subscription s.
LEMMA NumberingGrows ==
    ASSUME TypeOK, TypeOK', SidMapInverse, NEW s, Numbering(s), s \in DOMAIN subs, s \in DOMAIN subs', Sent(s),
           s \in DOMAIN sidMap => Stands(s, channels[sidMap[s]].seq),
           NEW m \in Reply, replies' = Append(replies, m), Numbers(m, s),
           m.seq = subs[s].seq + 1, m.skips <=> subs[s].skipped # {},
           subs'[s].seq = subs[s].seq + 1, subs'[s].skipped = subs[s].skipped,
           Place(s)' = Place(s)
    PROVE  Numbering(s)'
<1>0. PICK top : top = Len(replies) + 1
  OBVIOUS
<1>1. /\ Len(replies) \in Nat /\ replies \in Seq(Reply)
      /\ \A i : Carries(i, s) => /\ i \in 1 .. Len(replies)
                                 /\ replies[i].seq \in Nat /\ replies[i].seq > 0
                                 /\ replies[i].seq <= subs[s].seq
      /\ subs[s].seq \in Nat /\ Place(s) \in Nat /\ Place(s) <= subs[s].seq
  <2>1. subs[s].seq \in Nat /\ replies \in Seq(Reply)
    BY DEF TypeOK, ServerTypeOK, Subscription
  <2>2. Place(s) \in Nat /\ Place(s) <= subs[s].seq
    BY <2>1, PlaceTyped DEF Place, Stands, NoSeq
  <2> QED
    BY <2>1, <2>2, NumbersTyped DEF Sent
<1>2. /\ Len(replies') = top /\ top \in Nat /\ replies'[top] = m
      /\ \A i \in 1 .. Len(replies) : replies'[i] = replies[i] /\ i < top
      /\ \A i : Carries(i, s)' <=> Carries(i, s) \/ i = top
  BY <1>0, <1>1, Appended
<1>3. \A k : Coming(s, k)' <=> Coming(s, k) \/ k = m.seq
  BY <1>1, <1>2 DEF Coming, Carries
<1>4. \A k : Coming(s, k) => k <= subs[s].seq
  BY <1>1 DEF Coming
<1>5. ASSUME NEW n \in Nat, n <= subs[s].seq, Gapless(s, n) PROVE Gapless(s, n)'
  <2>1. ASSUME NEW a \in 1 .. n, Passed(s, a)', NEW k \in a + 1 .. n PROVE Coming(s, k)'
    <3>1. Passed(s, a)
      BY <1>1, <1>3, <1>5, <2>1 DEF Passed
    <3> QED
      BY <1>3, <1>5, <2>1, <3>1 DEF Gapless
  <2> QED
    BY <2>1 DEF Gapless
<1>6. PICK n \in Nat : n = m.seq /\ n = subs[s].seq + 1
  BY <1>1
<1>7. ASSUME subs[s].skipped = {} PROVE Gapless(s, n)'
  <2>1. ASSUME NEW a \in 1 .. n, Passed(s, a)', NEW k \in a + 1 .. n PROVE Coming(s, k)'
    <3>1. CASE k = n
      BY <1>3, <1>6, <3>1
    <3>2. CASE k # n
      <4>1. PICK l \in Nat : l = subs[s].seq
        BY <1>1
      <4>2. a \in 1 .. l /\ k \in a + 1 .. l
        BY <1>6, <2>1, <3>2, <4>1
      <4>3. Passed(s, a)
        BY <1>3, <1>6, <2>1, <4>1, <4>2 DEF Passed
      <4>4. Gapless(s, l)
        BY <1>7, <4>1 DEF Numbering
      <4>5. Coming(s, k)
        BY <4>2, <4>3, <4>4 DEF Gapless
      <4> QED
        BY <1>3, <4>5
    <3> QED
      BY <3>1, <3>2
  <2> QED
    BY <2>1 DEF Gapless
<1>8. Rising(s)'
  <2>1. ASSUME NEW i \in 1 .. Len(replies'), NEW j \in 1 .. Len(replies'),
               Carries(i, s)', Carries(j, s)', i < j
        PROVE  replies'[i].seq < replies'[j].seq /\ (replies'[i].skips => replies'[j].skips)
    <3>1. Carries(i, s) /\ replies'[i] = replies[i]
      BY <1>0, <1>1, <1>2, <2>1
    <3>2. CASE j = top
      <4>1. replies'[j] = m /\ replies[i].seq <= subs[s].seq /\ replies[i].seq \in Nat
        BY <1>1, <1>2, <3>1, <3>2
      <4>2. replies[i].skips => subs[s].skipped # {}
        BY <1>1, <3>1 DEF Numbering
      <4> QED
        BY <1>1, <3>1, <4>1, <4>2
    <3>3. CASE j # top
      BY <1>1, <1>2, <2>1, <3>1, <3>3 DEF Numbering, Rising
    <3> QED
      BY <3>2, <3>3
  <2> QED
    BY <2>1 DEF Rising
<1>9. ASSUME NEW i \in 1 .. Len(replies'), Carries(i, s)'
      PROVE  Place(s)' < replies'[i].seq /\ (~replies'[i].skips => Gapless(s, replies[i].seq)')
  <2>1. CASE Carries(i, s)
    <3>1. PICK l : l = replies[i].seq
      OBVIOUS
    <3>2. replies'[i] = replies[i] /\ l \in Nat /\ l <= subs[s].seq /\ Place(s) < l
          /\ (~replies[i].skips => Gapless(s, l))
      BY <1>1, <1>2, <2>1, <3>1 DEF Numbering
    <3>3. ~replies'[i].skips => Gapless(s, l)'
      BY <1>5, <3>2
    <3> QED
      BY <3>1, <3>2, <3>3 DEF Gapless
  <2>2. CASE i = top
    <3>1. replies'[i].seq = n /\ Place(s) < n
      BY <1>1, <1>2, <1>6, <2>2
    <3>2. ~replies'[i].skips => Gapless(s, n)'
      BY <1>2, <1>7, <2>2
    <3> QED
      BY <3>1, <3>2 DEF Gapless
  <2> QED
    BY <1>2, <1>9, <2>1, <2>2
<1>10. ASSUME subs'[s].skipped = {}
       PROVE  /\ Gapless(s, subs[s].seq)'
              /\ \A i \in 1 .. Len(replies') : Carries(i, s)' => ~replies'[i].skips
  <2>1. Gapless(s, n)' /\ subs'[s].seq = n
    BY <1>6, <1>7, <1>10
  <2>2. \A i \in 1 .. Len(replies') : Carries(i, s)' => ~replies'[i].skips
    BY <1>1, <1>2, <1>10 DEF Numbering
  <2> QED
    BY <2>1, <2>2 DEF Gapless
<1> QED
  BY <1>8, <1>9, <1>10 DEF Numbering

-----------------------------------------------------------------------------
(* The steps of the client and of the connection.                          *)

\* On an open connection the exchange's own subscriptions give the labels.
LEMMA OpenLabels == IInv /\ link = "open" => Labelled
<1> SUFFICES ASSUME IInv, link = "open" PROVE Labelled
  OBVIOUS
<1>1. Known /\ Confirmed /\ \A s \in DOMAIN subs : Sent(s)
  BY DEF IInv, Indexed, Streams
<1>2. ASSUME NEW i \in 1 .. Len(replies), replies[i].type = "data"
      PROVE  /\ replies[i].sid \in DOMAIN sidMap => sidMap[replies[i].sid] = replies[i].channel
             /\ \A j \in 1 .. Len(replies) :
                    Confirms(j) /\ replies[j].sid = replies[i].sid /\ replies[j].id \in DOMAIN pending
                        => pending[replies[j].id] = replies[i].channel
  <2>1. replies[i].sid \in DOMAIN subs => replies[i].channel = subs[replies[i].sid].channel
    BY <1>1, <1>2 DEF Sent
  <2>2. replies[i].sid \in DOMAIN sidMap => sidMap[replies[i].sid] = replies[i].channel
    BY <1>1, <2>1 DEF Known
  <2> QED
    BY <1>1, <2>1, <2>2 DEF Confirmed
<1> QED
  BY <1>2 DEF Labelled

\* Replies go, or stay, and the client may forget what it knew.
LEMMA LabelsKept ==
    ASSUME TypeOK, Old, Labelled, Forgets,
           \A id \in DOMAIN pending' :
               \/ id \in DOMAIN pending /\ pending'[id] = pending[id]
               \/ id = nextId,
           NEW k \in Nat,
           \A i \in 1 .. Len(replies') : i + k \in 1 .. Len(replies) /\ replies'[i] = replies[i + k]
    PROVE  Labelled'
<1>1. \A i : Confirms(i)' => i \in 1 .. Len(replies') /\ Confirms(i + k)
  BY DEF Confirms
<1>2. \A i : Confirms(i) => replies[i].id # nextId
  <2>1. ASSUME NEW i, Confirms(i) PROVE replies[i].id # nextId
    <3>1. replies[i] \in Reply /\ replies[i].type = "subscribed" /\ i \in 1 .. Len(replies)
      BY <2>1, Elements DEF Confirms, TypeOK, ServerTypeOK
    <3>2. replies[i].id \in Nat /\ replies[i].id < nextId /\ nextId \in Nat
      BY <2>1, <3>1 DEF Reply, Old, TypeOK
    <3> QED
      BY <3>2
  <2> QED
    BY <2>1
<1>3. ASSUME NEW i \in 1 .. Len(replies'), replies'[i].type = "data"
      PROVE  /\ replies'[i].sid \in DOMAIN sidMap' => sidMap'[replies'[i].sid] = replies'[i].channel
             /\ \A j \in 1 .. Len(replies') :
                    Confirms(j)' /\ replies'[j].sid = replies'[i].sid /\ replies'[j].id \in DOMAIN pending'
                        => pending'[replies'[j].id] = replies'[i].channel
  <2>1. i + k \in 1 .. Len(replies) /\ replies'[i] = replies[i + k]
    OBVIOUS
  <2>2. replies'[i].sid \in DOMAIN sidMap' => sidMap'[replies'[i].sid] = replies'[i].channel
    BY <1>3, <2>1 DEF Labelled, Forgets
  <2>3. ASSUME NEW j \in 1 .. Len(replies'), Confirms(j)', replies'[j].sid = replies'[i].sid,
               replies'[j].id \in DOMAIN pending'
        PROVE  pending'[replies'[j].id] = replies'[i].channel
    <3>1. /\ j + k \in 1 .. Len(replies) /\ replies'[j] = replies[j + k] /\ Confirms(j + k)
          /\ replies[j + k].id # nextId
      BY <1>1, <1>2, <2>3
    <3>2. /\ replies[j + k].id \in DOMAIN pending
          /\ pending'[replies[j + k].id] = pending[replies[j + k].id]
      BY <2>3, <3>1
    <3>3. /\ replies[i + k].type = "data"
          /\ replies[j + k].sid = replies[i + k].sid
      BY <1>3, <2>1, <2>3, <3>1
    <3>4. PICK x, y : x = i + k /\ y = j + k
      OBVIOUS
    <3>5. pending[replies[y].id] = replies[x].channel
      BY <2>1, <3>1, <3>2, <3>3, <3>4 DEF Labelled
    <3> QED
      BY <2>1, <3>1, <3>2, <3>4, <3>5
  <2> QED
    BY <2>2, <2>3
<1> QED
  BY <1>3 DEF Labelled

LEMMA TacitGap ==
    ASSUME IInv, IInv', GInv, Tacit
    PROVE  GInv'
<1>1. /\ TypeOK /\ TypeOK' /\ SidMapInverse /\ Old /\ Labelled /\ Forgets /\ Positions /\ Sends
      /\ replies' = replies /\ subs' = subs
  BY DEF IInv, Indexed, GInv, Tacit, Acts, WireOnlySends
<1>2. ASSUME NEW s \in Sids PROVE Numbering(s)'
  <2>1. Place(s)' \in {Place(s), NoSeq}
    BY <1>1 DEF Place, Forgets, Positions
  <2>2. \A i : Carries(i, s)' <=> Carries(i, s)
    BY <1>1 DEF Carries
  <2>3. Numbering(s)
    BY DEF GInv
  <2> QED
    BY <1>1, <2>1, <2>2, <2>3, NumberingSame
<1>3. Labelled'
  <2>1. 0 \in Nat /\ Len(replies) \in Nat
    BY <1>1, NumbersTyped
  <2>2. \A i \in 1 .. Len(replies') : i + 0 \in 1 .. Len(replies) /\ replies'[i] = replies[i + 0]
    BY <1>1, <2>1
  <2>3. \A id \in DOMAIN pending' :
            (id \in DOMAIN pending /\ pending'[id] = pending[id]) \/ id = nextId
    BY <1>1 DEF Sends
  <2> QED
    BY <1>1, <2>1, <2>2, <2>3, LabelsKept
<1> QED
  BY <1>2, <1>3 DEF GInv

LEMMA HangupGap ==
    ASSUME IInv, IInv', GInv, Hangup, UNCHANGED <<channels, sidMap, pending>>
    PROVE  GInv'
<1>1. PICK n \in 0 .. Len(replies) : replies' = SubSeq(replies, 1, n)
  BY DEF Hangup
<1>2. /\ TypeOK /\ TypeOK' /\ SidMapInverse /\ Old /\ Labelled
      /\ Len(replies') = n /\ n \in Nat /\ Len(replies) \in Nat /\ DOMAIN subs' = {}
      /\ \A i \in 1 .. n : replies'[i] = replies[i]
  <2>1. TypeOK /\ TypeOK' /\ SidMapInverse /\ Old /\ Labelled /\ replies \in Seq(Reply)
    BY DEF IInv, Indexed, GInv, TypeOK, ServerTypeOK
  <2>2. Len(replies) \in Nat
    BY <2>1, Elements
  <2>3. n \in Nat
    BY <2>2
  <2> QED
    BY <1>1, <2>1, <2>2, <2>3, PrefixElements, EmptyElements DEF Hangup
<1>3. ASSUME NEW s \in Sids PROVE Numbering(s)'
  <2>1. Numbering(s) /\ Place(s)' = Place(s)
    BY DEF GInv, Place
  <2> QED
    BY <1>1, <1>2, <2>1, NumberingPrefix
<1>4. Labelled'
  <2>1. Forgets
    BY DEF Forgets
  <2>2. \A i \in 1 .. Len(replies') : i + 0 \in 1 .. Len(replies) /\ replies'[i] = replies[i + 0]
    BY <1>2
  <2>3. 0 \in Nat
    OBVIOUS
  <2> QED
    BY <1>2, <2>1, <2>2, <2>3, LabelsKept
<1> QED
  BY <1>3, <1>4 DEF GInv

LEMMA AcceptGap ==
    ASSUME IInv, IInv', Accept, DOMAIN sidMap = {}, UNCHANGED sidMap
    PROVE  GInv'
<1>1. Len(replies') = 0 /\ DOMAIN subs' = {}
  BY EmptyElements DEF Accept
<1> QED
  BY <1>1 DEF GInv, Numbering, Rising, Labelled

-----------------------------------------------------------------------------
(* The steps of the exchange.                                              *)

LEMMA OpenLabelsNext == (IInv /\ link = "open" => Labelled)'
BY OpenLabels, PTL

\* The exchange answers with m, which does not count in the stream of s.
LEMMA NumberingElsewhere ==
    ASSUME TypeOK, TypeOK', SidMapInverse, NEW s, Numbering(s), UNCHANGED <<channels, sidMap>>,
           NEW m \in Reply, replies' = Append(replies, m), ~Numbers(m, s),
           s \in DOMAIN subs' /\ subs'[s].skipped = {} =>
               s \in DOMAIN subs /\ subs'[s].seq = subs[s].seq /\ subs[s].skipped = {}
    PROVE  Numbering(s)'
<1>1. replies \in Seq(Reply) /\ Len(replies) \in Nat
  BY Elements DEF TypeOK, ServerTypeOK
<1>2. /\ \A i \in 1 .. Len(replies) : replies'[i] = replies[i]
      /\ \A i : Carries(i, s)' <=> Carries(i, s) \/ (i = Len(replies) + 1 /\ Numbers(m, s))
  BY <1>1, Appended
<1>3. \A i : Carries(i, s)' <=> Carries(i, s)
  BY <1>2
<1>4. \A i : Carries(i, s) => replies'[i] = replies[i]
  BY <1>2 DEF Carries
<1>5. Place(s)' = Place(s)
  BY DEF Place
<1> QED
  BY <1>3, <1>4, <1>5, NumberingSame

\* The exchange answers with m on subscription t, and numbers it.
LEMMA AnswerGap ==
    ASSUME IInv, IInv', GInv, link' = "open", UNCHANGED <<channels, sidMap>>,
           NEW m \in Reply, replies' = Append(replies, m), NEW t \in DOMAIN subs,
           m.type \in {"ok", "data"}, m.sid = t, m.seq = Number(t),
           m.skips <=> subs[t].skipped # {},
           DOMAIN subs' = DOMAIN subs, \A s \in DOMAIN subs \ {t} : subs'[s] = subs[s],
           subs'[t].seq = After(t).seq, subs'[t].skipped = After(t).skipped
    PROVE  GInv'
<1>1. TypeOK /\ TypeOK' /\ SidMapInverse /\ Streams
  BY DEF IInv, Indexed
<1>2. ASSUME NEW s \in Sids PROVE Numbering(s)'
  <2>1. Numbering(s)
    BY DEF GInv
  <2>2. CASE ~Numbers(m, s)
    <3>1. s \in DOMAIN subs' /\ subs'[s].skipped = {} =>
              s \in DOMAIN subs /\ subs'[s].seq = subs[s].seq /\ subs[s].skipped = {}
      <4>1. CASE s = t
        <5>1. ~Numbered(s)
          BY <1>1, <2>2, <4>1, DataOf DEF Numbers
        <5> QED
          BY <1>1, <4>1, <5>1, DataOf
      <4>2. CASE s # t
        BY <4>2
      <4> QED
        BY <4>1, <4>2
    <3> QED
      BY <1>1, <2>1, <2>2, <3>1, NumberingElsewhere
  <2>3. CASE Numbers(m, s)
    <3>1. /\ s = t /\ Numbered(s)
      BY <1>1, <2>3, DataOf DEF Numbers
    <3>2. /\ m.seq = subs[s].seq + 1 /\ subs'[s].seq = subs[s].seq + 1
          /\ subs'[s].skipped = subs[s].skipped
      BY <1>1, <3>1, DataOf
    <3>3. Sent(s) /\ (s \in DOMAIN sidMap => Stands(s, channels[sidMap[s]].seq))
      BY <1>1, <3>1 DEF Streams
    <3>4. Place(s)' = Place(s)
      BY DEF Place
    <3> QED
      BY <1>1, <2>1, <2>3, <3>1, <3>2, <3>3, <3>4, NumberingGrows
  <2> QED
    BY <2>2, <2>3
<1> QED
  BY <1>2, OpenLabelsNext DEF GInv

LEMMA PublishGap ==
    ASSUME IInv, IInv', GInv, NEW s \in DOMAIN subs, Publish(s), UNCHANGED clientVars
    PROVE  GInv'
<1>1. /\ link' = "open" /\ replies' = Append(replies, Data(s))
      /\ subs' = [subs EXCEPT ![s] = After(s)] /\ UNCHANGED <<channels, sidMap>>
  BY DEF Publish, Answer, clientVars
<1>2. /\ DOMAIN subs' = DOMAIN subs /\ \A t \in DOMAIN subs \ {s} : subs'[t] = subs[t]
      /\ subs'[s] = After(s)
  BY <1>1
<1>3. /\ Data(s) \in Reply /\ Data(s).type = "data" /\ Data(s).sid = s /\ Data(s).seq = Number(s)
      /\ Data(s).skips <=> subs[s].skipped # {}
  BY DataOf DEF IInv, Indexed, Data
<1> QED
  BY <1>1, <1>2, <1>3, AnswerGap

LEMMA SkipGap ==
    ASSUME IInv, IInv', GInv, NEW t \in DOMAIN subs, Skip(t), UNCHANGED clientVars
    PROVE  GInv'
<1>1. /\ link' = "open" /\ replies' = replies /\ UNCHANGED <<channels, sidMap>>
      /\ DOMAIN subs' = DOMAIN subs /\ \A s \in DOMAIN subs \ {t} : subs'[s] = subs[s]
      /\ subs'[t] = AfterSkip(t)
      /\ TypeOK /\ TypeOK' /\ SidMapInverse
  BY DEF Skip, clientVars, IInv, Indexed
<1>2. subs'[t].skipped # {}
  <2>1. subs[t] \in Subscription
    BY <1>1 DEF TypeOK, ServerTypeOK
  <2>2. AfterSkip(t).skipped = subs[t].skipped \cup {subs[t].seq + 1}
    BY <2>1 DEF AfterSkip, Subscription
  <2> QED
    BY <1>1, <2>2
<1>3. ASSUME NEW s \in Sids PROVE Numbering(s)'
  <2>1. Numbering(s) /\ Place(s)' = Place(s)
    BY <1>1 DEF GInv, Place
  <2>2. \A i : Carries(i, s)' <=> Carries(i, s)
    BY <1>1 DEF Carries
  <2>3. CASE s # t
    BY <1>1, <2>1, <2>2, <2>3, NumberingSame
  <2>4. CASE s = t
    BY <1>1, <1>2, <2>1, <2>2, <2>4, NumberingSame
  <2> QED
    BY <2>3, <2>4
<1> QED
  BY <1>1, <1>3, OpenLabelsNext DEF GInv

\* The exchange answers with something that has no number; a subscription may be new.
LEMMA QuietAnswerGap ==
    ASSUME IInv, IInv', GInv, link' = "open", UNCHANGED <<channels, sidMap>>,
           NEW m \in Reply, replies' = Append(replies, m),
           m.type \in {"error", "subscribed", "unsubscribed"},
           \A s \in DOMAIN subs' : \/ s \in DOMAIN subs /\ subs'[s] = subs[s]
                                   \/ s = nextSid /\ subs'[s].seq = 0
    PROVE  GInv'
<1>1. TypeOK /\ TypeOK' /\ SidMapInverse /\ Old /\ nextSid \in Nat
  BY DEF IInv, Indexed, TypeOK, ServerTypeOK, Sids
<1>2. ASSUME NEW s \in Sids PROVE Numbering(s)'
  <2>1. Numbering(s) /\ ~Numbers(m, s)
    BY DEF GInv, Numbers
  <2>2. CASE s \in DOMAIN subs' => s \in DOMAIN subs /\ subs'[s] = subs[s]
    BY <1>1, <2>1, <2>2, NumberingElsewhere
  <2>3. CASE s = nextSid /\ subs'[s].seq = 0
    <3>1. \A i : ~Carries(i, s)'
      <4>1. \A i : ~Carries(i, s)
        BY <1>1, <2>3 DEF Old, Carries
      <4> QED
        BY <1>1, <2>1, <4>1, Appended DEF TypeOK, ServerTypeOK
    <3>2. Gapless(s, 0)'
      BY DEF Gapless
    <3> QED
      BY <2>3, <3>1, <3>2 DEF Numbering, Rising, Gapless
  <2> QED
    BY <2>2, <2>3
<1> QED
  BY <1>2, OpenLabelsNext DEF GInv

LEMMA ServeGap ==
    ASSUME IInv, IInv', GInv, Serve, UNCHANGED clientVars
    PROVE  GInv'
<1> DEFINE r == Head(requests)
           refusal == [type |-> "error"]
<1>1. /\ link' = "open" /\ UNCHANGED <<channels, sidMap>>
      /\ r \in Request /\ TypeOK
      /\ refusal \in Reply /\ refusal.type = "error"
  BY ServingSends DEF Serve, Serving, clientVars, Reply, IInv, Indexed
<1>2. \/ r.cmd = "subscribe" /\ ServeSubscribe(r)
      \/ r.cmd = "unsubscribe" /\ ServeUnsubscribe(r)
      \/ r.cmd = "update_subscription" /\ ServeUpdate(r)
  BY DEF Serve
<1> HIDE DEF r
<1>3. CASE Answer(refusal) /\ \A s \in DOMAIN subs' : s \in DOMAIN subs /\ subs'[s] = subs[s]
  BY <1>1, <1>3, QuietAnswerGap DEF Answer
<1>4. CASE r.cmd = "subscribe" /\ ServeSubscribe(r)
  <2>1. CASE SubscribedTo(r.channel)
    BY <1>3, <1>4, <2>1 DEF ServeSubscribe
  <2>2. CASE ~SubscribedTo(r.channel)
    <3> DEFINE m == [type |-> "subscribed", id |-> r.id, sid |-> nextSid]
    <3>1. m \in Reply /\ m.type = "subscribed"
      BY <1>1, <1>4 DEF Reply, Request, TypeOK, ServerTypeOK
    <3>2. replies' = Append(replies, m)
      BY <1>4, <2>2 DEF ServeSubscribe, Answer
    <3>3. \A s \in DOMAIN subs' : \/ s \in DOMAIN subs /\ subs'[s] = subs[s]
                                  \/ s = nextSid /\ subs'[s].seq = 0
      BY <1>4, <2>2 DEF ServeSubscribe, Put
    <3> HIDE DEF m
    <3> QED
      BY <1>1, <3>1, <3>2, <3>3, QuietAnswerGap
  <2> QED
    BY <2>1, <2>2
<1>5. CASE r.cmd = "unsubscribe" /\ ServeUnsubscribe(r)
  <2>0. subs' = Drop(subs, {r.sid})
    BY <1>5 DEF ServeUnsubscribe
  <2>1. \A s \in DOMAIN subs' : s \in DOMAIN subs /\ subs'[s] = subs[s]
    BY <2>0 DEF Drop, Restrict
  <2>2. CASE r.sid \notin DOMAIN subs
    BY <1>3, <1>5, <2>1, <2>2 DEF ServeUnsubscribe
  <2>3. CASE r.sid \in DOMAIN subs
    <3> DEFINE m == [type |-> "unsubscribed", sid |-> r.sid]
    <3>1. m \in Reply /\ m.type = "unsubscribed"
      BY <1>1, <1>5 DEF Reply, Request
    <3>2. replies' = Append(replies, m)
      BY <1>5, <2>3 DEF ServeUnsubscribe, Answer
    <3> HIDE DEF m
    <3> QED
      BY <1>1, <2>1, <3>1, <3>2, QuietAnswerGap
  <2> QED
    BY <2>2, <2>3
<1>6. CASE r.cmd = "update_subscription" /\ ServeUpdate(r)
  <2>1. CASE r.sid \notin DOMAIN subs
    BY <1>3, <1>6, <2>1 DEF ServeUpdate
  <2>2. CASE r.sid \in DOMAIN subs /\ r.action = "get_snapshot"
    <3>1. PICK t \in DOMAIN subs : t = r.sid
      BY <2>2
    <3>2. /\ Data(t) \in Reply /\ Data(t).type = "data" /\ Data(t).sid = t /\ Data(t).seq = Number(t)
          /\ Data(t).skips <=> subs[t].skipped # {}
      BY <1>1, DataOf DEF Data
    <3>3. /\ replies' = Append(replies, Data(t)) /\ subs' = [subs EXCEPT ![t] = After(t)]
      BY <1>6, <2>2, <3>1 DEF ServeUpdate, Answer
    <3>4. /\ DOMAIN subs' = DOMAIN subs /\ \A s \in DOMAIN subs \ {t} : subs'[s] = subs[s]
          /\ subs'[t] = After(t)
      BY <3>3
    <3> QED
      BY <1>1, <3>2, <3>3, <3>4, AnswerGap
  <2>3. CASE r.sid \in DOMAIN subs /\ r.action # "get_snapshot"
    <3>1. PICK t \in DOMAIN subs : t = r.sid
      BY <2>3
    <3> DEFINE markets == IF r.action = "add_markets" THEN subs[t].markets \cup r.markets
                                                      ELSE subs[t].markets \ r.markets
               m == [type |-> "ok", sid |-> t, seq |-> Number(t), markets |-> markets,
                     skips |-> subs[t].skipped # {}]
               sub == [After(t) EXCEPT !.markets = markets]
    <3>2. /\ replies' = Append(replies, m) /\ subs' = [subs EXCEPT ![t] = sub]
      BY <1>6, <2>3, <3>1 DEF ServeUpdate, Answer
    <3>3. /\ t \in Sids /\ Number(t) \in Nat /\ After(t) \in Subscription
          /\ subs[t] \in Subscription /\ r.markets \subseteq Markets
      BY <1>1, <1>6, DataOf DEF Request
    <3>4. markets \subseteq Markets
      BY <3>3 DEF Subscription
    <3> HIDE DEF markets
    <3>5. /\ m \in Reply /\ m.type = "ok" /\ m.sid = t /\ m.seq = Number(t)
          /\ m.skips <=> subs[t].skipped # {}
      BY <3>3, <3>4 DEF Reply
    <3>6. sub.seq = After(t).seq /\ sub.skipped = After(t).skipped
      BY <3>3 DEF Subscription
    <3> HIDE DEF m, sub
    <3>7. /\ DOMAIN subs' = DOMAIN subs /\ \A s \in DOMAIN subs \ {t} : subs'[s] = subs[s]
          /\ subs'[t] = sub
      BY <3>2
    <3> QED
      BY <1>1, <3>2, <3>5, <3>6, <3>7, AnswerGap
  <2> QED
    BY <2>1, <2>2, <2>3
<1> QED
  BY <1>2, <1>4, <1>5, <1>6

-----------------------------------------------------------------------------
(* A message is read.                                                      *)

LEMMA ReadGap ==
    ASSUME IInv, IInv', GInv, NEW type, Reading(type),
           \A s \in Sids :
               \/ Place(s)' = NoSeq
               \/ ~Carries(1, s) /\ Place(s)' = Place(s)
               \/ Carries(1, s) /\ Place(s)' = replies[1].seq
               \/ Carries(1, s) /\ Place(s)' = Place(s) /\ replies[1].skips,
           \A id \in DOMAIN pending' : id \in DOMAIN pending /\ pending'[id] = pending[id],
           \A s \in DOMAIN sidMap' :
               \/ s \in DOMAIN sidMap /\ sidMap'[s] = sidMap[s]
               \/ /\ Confirms(1) /\ replies[1].sid = s /\ replies[1].id \in DOMAIN pending
                  /\ sidMap'[s] = pending[replies[1].id]
    PROVE  GInv'
<1>1. /\ TypeOK /\ TypeOK' /\ SidMapInverse /\ Labelled
      /\ Len(replies') = Len(replies) - 1 /\ 1 \in 1 .. Len(replies) /\ subs' = subs
      /\ \A i \in 1 .. Len(replies') : i + 1 \in 1 .. Len(replies) /\ replies'[i] = replies[i + 1]
      /\ \A i \in 1 .. Len(replies') : Confirms(i)' <=> Confirms(i + 1)
  BY Taken DEF IInv, Indexed, GInv
<1>2. \A s \in Sids : Numbering(s)'
  BY <1>1, NumberingRead DEF GInv
<1>3. ASSUME NEW i \in 1 .. Len(replies'), replies'[i].type = "data",
             NEW k, k = i + 1
      PROVE  /\ replies'[i].sid \in DOMAIN sidMap' => sidMap'[replies'[i].sid] = replies'[i].channel
             /\ \A j \in 1 .. Len(replies') :
                    Confirms(j)' /\ replies'[j].sid = replies'[i].sid /\ replies'[j].id \in DOMAIN pending'
                        => pending'[replies'[j].id] = replies'[i].channel
  <2>1. k \in 1 .. Len(replies) /\ replies'[i] = replies[k] /\ replies[k].type = "data"
    BY <1>1, <1>3
  <2>2. replies[k].sid \in DOMAIN sidMap' => sidMap'[replies[k].sid] = replies[k].channel
    BY <1>1, <2>1 DEF Labelled
  <2>3. ASSUME NEW j \in 1 .. Len(replies'), Confirms(j)', replies'[j].sid = replies'[i].sid,
               replies'[j].id \in DOMAIN pending', NEW l, l = j + 1
        PROVE  pending'[replies'[j].id] = replies'[i].channel
    <3>1. l \in 1 .. Len(replies) /\ replies'[j] = replies[l] /\ Confirms(l)
      BY <1>1, <2>3
    <3>2. replies[l].id \in DOMAIN pending /\ pending'[replies[l].id] = pending[replies[l].id]
      BY <2>3, <3>1
    <3>3. replies[l].sid = replies[k].sid
      BY <2>1, <2>3, <3>1
    <3>4. pending[replies[l].id] = replies[k].channel
      BY <1>1, <2>1, <3>1, <3>2, <3>3 DEF Labelled
    <3> QED
      BY <2>1, <3>1, <3>2, <3>4
  <2> QED
    BY <2>1, <2>2, <2>3
<1> QED
  BY <1>2, <1>3 DEF GInv, Labelled

\* A number that is not the next one tells of a skip.
LEMMA GapTellsOfSkip ==
    ASSUME IInv, GInv, NEW s, Carries(1, s), IsGap(Place(s), replies[1].seq)
    PROVE  replies[1].skips
<1>1. /\ TypeOK /\ SidMapInverse
      /\ \A i : Carries(i, s) => /\ i \in 1 .. Len(replies) /\ s \in Sids
                                 /\ replies[i].seq \in Nat /\ replies[i].seq > 0
      /\ Len(replies) \in Nat
  BY NumbersTyped DEF IInv, Indexed
<1>2. /\ Place(s) \in Nat /\ Place(s) # NoSeq /\ Place(s) + 1 # replies[1].seq
      /\ Numbering(s)
  BY <1>1, PlaceTyped DEF IsGap, GInv
<1>3. SUFFICES ASSUME ~replies[1].skips PROVE FALSE
  OBVIOUS
<1>4. PICK a, n : a = Place(s) /\ n = replies[1].seq
  OBVIOUS
<1>5. a < n /\ Gapless(s, n) /\ a \in Nat /\ n \in Nat /\ a # 0
  BY <1>1, <1>2, <1>3, <1>4 DEF Numbering, NoSeq
<1>6. a \in 1 .. n /\ a + 1 \in a + 1 .. n /\ a + 1 < n
  BY <1>2, <1>4, <1>5
<1>7. Coming(s, a + 1)
  BY <1>4, <1>5, <1>6 DEF Gapless, Passed
<1>8. PICK j \in 1 .. Len(replies) : Carries(j, s) /\ replies[j].seq = a + 1
  BY <1>7 DEF Coming
<1>9. j # 1 => n < a + 1
  BY <1>1, <1>2, <1>4, <1>8 DEF Numbering, Rising
<1> QED
  BY <1>4, <1>5, <1>6, <1>8, <1>9

\* A step reports a gap only where the message that is read tells of a skip.
NoFalseAlarm == gap' \in {gap, NoChannel} \/ Head(replies).skips

LEMMA CheckGap ==
    ASSUME IInv, IInv', GInv, NEW type \in {"ok", "data"}, Reading(type),
           UNCHANGED <<sidMap, pending>>,
           replies[1].sid \in DOMAIN sidMap, NEW c, c = sidMap[replies[1].sid],
           NEW chs, DOMAIN chs = DOMAIN channels,
           \A d \in DOMAIN chs : chs[d] \in ChannelState /\ chs[d].seq = channels[d].seq,
           CheckAndUpdateSeq(chs, c, replies[1].seq)
    PROVE  GInv' /\ NoFalseAlarm
<1> DEFINE sid == replies[1].sid
           seq == replies[1].seq
<1>1. /\ SidMapInverse /\ 1 \in 1 .. Len(replies) /\ replies[1].type = type
      /\ Head(replies) = replies[1]
  BY Taken DEF IInv, Indexed
<1>2. /\ c \in DOMAIN channels /\ channels[c].sid = sid /\ chs[c].seq = channels[c].seq
      /\ Place(sid) = channels[c].seq
      /\ \A s : Carries(1, s) <=> s = sid /\ seq # NoSeq
  BY <1>1 DEF SidMapInverse, Place, Carries
<1>3. ASSUME NEW s, s # sid, s \in DOMAIN sidMap
      PROVE  sidMap[s] \in DOMAIN channels /\ sidMap[s] # c
  BY <1>1, <1>2, <1>3 DEF SidMapInverse
<1>4. CASE seq = NoSeq /\ channels' = chs /\ KeepReading
  <2>1. \A s : ~Carries(1, s) /\ Place(s)' = Place(s)
    BY <1>1, <1>2, <1>4 DEF Place, SidMapInverse
  <2>2. GInv'
    BY <2>1, ReadGap
  <2> QED
    BY <1>4, <2>2 DEF KeepReading, NoFalseAlarm
<1>5. CASE seq # NoSeq /\ IsGap(chs[c].seq, seq) /\ channels' = chs
  <2>1. Carries(1, sid) /\ replies[1].skips
    BY <1>2, <1>5, GapTellsOfSkip
  <2>2. \A s : Place(s)' = Place(s)
    BY <1>1, <1>5 DEF Place, SidMapInverse
  <2>3. \A s : ~Carries(1, s) \/ replies[1].skips
    BY <2>1
  <2>4. GInv'
    BY <2>2, <2>3, ReadGap
  <2> QED
    BY <1>1, <2>1, <2>4 DEF NoFalseAlarm
<1>6. CASE seq # NoSeq /\ channels' = [chs EXCEPT ![c].seq = seq] /\ KeepReading
  <2>1. /\ DOMAIN channels' = DOMAIN channels
        /\ \A d \in DOMAIN channels \ {c} : channels'[d].seq = channels[d].seq
    BY <1>6
  <2>2. channels'[c].seq = seq
    <3>1. channels' = [chs EXCEPT ![c] = [chs[c] EXCEPT !.seq = seq]] /\ c \in DOMAIN chs
      BY <1>2, <1>6
    <3>2. channels'[c] = [chs[c] EXCEPT !.seq = seq]
      BY <3>1
    <3> QED
      BY <3>1, <3>2 DEF ChannelState
  <2>3. ASSUME NEW s PROVE \/ ~Carries(1, s) /\ Place(s)' = Place(s)
                           \/ Carries(1, s) /\ Place(s)' = seq
    <3>1. CASE s = sid
      BY <1>2, <1>6, <2>2, <3>1 DEF Place
    <3>2. CASE s # sid
      BY <1>2, <1>3, <2>1, <3>2 DEF Place
    <3> QED
      BY <3>1, <3>2
  <2>4. GInv'
    BY <2>3, ReadGap
  <2> QED
    BY <1>6, <2>4 DEF KeepReading, NoFalseAlarm
<1> QED
  BY <1>4, <1>5, <1>6 DEF CheckAndUpdateSeq

\* A message is read that counts in no stream that the client knows.
LEMMA PassGap ==
    ASSUME IInv, IInv', GInv, NEW type, Reading(type),
           UNCHANGED <<sidMap, pending, channels, gap>>,
           \A s \in DOMAIN sidMap : ~Carries(1, s)
    PROVE  GInv' /\ NoFalseAlarm
<1>1. \A s : Place(s)' = Place(s) /\ (Carries(1, s) => Place(s) = NoSeq)
  BY DEF Place
<1>2. GInv'
  BY <1>1, ReadGap
<1> QED
  BY <1>2 DEF NoFalseAlarm

LEMMA HandleErrorGap ==
    ASSUME IInv, IInv', GInv, HandleError
    PROVE  GInv' /\ NoFalseAlarm
<1>1. Reading("error") /\ UNCHANGED <<sidMap, pending, channels, gap>>
  BY DEF HandleError, KeepReading
<1>2. \A s : ~Carries(1, s)
  BY <1>1, Taken DEF Carries
<1> QED
  BY <1>1, <1>2, PassGap

LEMMA HandleUnsubscribedGap ==
    ASSUME IInv, IInv', GInv, HandleUnsubscribed
    PROVE  GInv' /\ NoFalseAlarm
<1>1. /\ Reading("unsubscribed") /\ UNCHANGED <<pending, channels, gap>>
      /\ sidMap' = Drop(sidMap, {Head(replies).sid})
  BY DEF HandleUnsubscribed, KeepReading
<1>2. \A s : ~Carries(1, s)
  BY <1>1, Taken DEF Carries
<1>3. \A s \in DOMAIN sidMap' : s \in DOMAIN sidMap /\ sidMap'[s] = sidMap[s]
  BY <1>1 DEF Drop, Restrict
<1>4. \A s : Place(s)' \in {Place(s), NoSeq}
  BY <1>1, <1>3 DEF Place
<1>5. GInv'
  BY <1>1, <1>2, <1>3, <1>4, ReadGap
<1> QED
  BY <1>1, <1>5 DEF NoFalseAlarm

LEMMA HandleOkGap ==
    ASSUME IInv, IInv', GInv, HandleOk
    PROVE  GInv' /\ NoFalseAlarm
<1> DEFINE m == Head(replies)
<1>1. Reading("ok") /\ UNCHANGED <<sidMap, pending>>
  BY DEF HandleOk
<1>2. /\ m = replies[1] /\ replies[1] \in Reply /\ replies[1].type = "ok"
      /\ SidMapInverse /\ TypeOK
  BY <1>1, Taken DEF IInv, Indexed
<1>3. CASE m.sid \notin DOMAIN sidMap /\ UNCHANGED channels /\ KeepReading
  <2>1. \A s \in DOMAIN sidMap : ~Carries(1, s)
    BY <1>2, <1>3 DEF Carries
  <2> QED
    BY <1>1, <1>3, <2>1, PassGap DEF KeepReading
<1>4. CASE m.sid \in DOMAIN sidMap
  <2> DEFINE c == sidMap[m.sid]
             told == IF OkCarriesTickers THEN [channels EXCEPT ![c].markets = m.markets] ELSE channels
  <2>1. CheckAndUpdateSeq(told, c, m.seq)
    BY <1>4 DEF HandleOk
  <2>2. c \in DOMAIN channels /\ channels[c] \in ChannelState
    BY <1>2, <1>4 DEF SidMapInverse, TypeOK
  <2>3. /\ DOMAIN told = DOMAIN channels
        /\ \A d \in DOMAIN told : told[d] \in ChannelState /\ told[d].seq = channels[d].seq
    <3> DEFINE next == [channels[c] EXCEPT !.markets = m.markets]
    <3>1. next \in ChannelState /\ next.seq = channels[c].seq
      BY <1>2, <2>2 DEF ChannelState, Reply
    <3>2. told = IF OkCarriesTickers THEN [channels EXCEPT ![c] = next] ELSE channels
      OBVIOUS
    <3> HIDE DEF next, told, c
    <3> QED
      BY <1>2, <2>2, <3>1, <3>2 DEF TypeOK
  <2> HIDE DEF told, c, m
  <2>4. replies[1].sid \in DOMAIN sidMap /\ c = sidMap[replies[1].sid]
    BY <1>2, <1>4 DEF c
  <2>5. CheckAndUpdateSeq(told, c, replies[1].seq)
    BY <1>2, <2>1
  <2> QED
    BY <1>1, <2>3, <2>4, <2>5, CheckGap
<1> QED
  BY <1>3, <1>4 DEF HandleOk

LEMMA HandleDataGap ==
    ASSUME IInv, IInv', GInv, HandleData
    PROVE  GInv' /\ NoFalseAlarm
<1> DEFINE m == Head(replies)
<1>1. Reading("data") /\ UNCHANGED <<sidMap, pending>>
  BY DEF HandleData
<1>2. /\ m = replies[1] /\ replies[1].type = "data" /\ 1 \in 1 .. Len(replies)
      /\ Labelled /\ TypeOK
  BY <1>1, Taken DEF GInv
<1>3. CASE ~Routed(m) /\ UNCHANGED channels /\ KeepReading
  <2>1. \A s \in DOMAIN sidMap : ~Carries(1, s)
    BY <1>2, <1>3 DEF Routed, Labelled, Carries
  <2> QED
    BY <1>1, <1>3, <2>1, PassGap DEF KeepReading
<1>4. CASE Routed(m) /\ CheckAndUpdateSeq(channels, m.channel, m.seq)
  <2>1. /\ replies[1].sid \in DOMAIN sidMap /\ m.channel = sidMap[replies[1].sid]
        /\ \A d \in DOMAIN channels : channels[d] \in ChannelState
        /\ CheckAndUpdateSeq(channels, m.channel, replies[1].seq)
    BY <1>2, <1>4 DEF Routed, TypeOK
  <2> QED
    BY <1>1, <2>1, CheckGap
<1> QED
  BY <1>3, <1>4 DEF HandleData

LEMMA HandleSubscribedGap ==
    ASSUME IInv, IInv', GInv, HandleSubscribed
    PROVE  GInv' /\ NoFalseAlarm
<1> DEFINE m == replies[1]
           c == pending[m.id]
           ids == Drop(pending, {m.id})
<1>1. Reading("subscribed") /\ gap' = gap
  BY DEF HandleSubscribed, KeepReading, SocketError
<1>2. /\ TypeOK /\ SidMapInverse /\ Confirmed /\ Unread
      /\ Head(replies) = m /\ Confirms(1) /\ 1 \in 1 .. Len(replies) /\ \A s : ~Carries(1, s)
  BY <1>1, Taken DEF IInv, Indexed, Streams, Confirms, Carries
<1>3. /\ DOMAIN ids \subseteq DOMAIN pending /\ \A i \in DOMAIN ids : ids[i] = pending[i]
  BY DEF Drop, Restrict
<1>4. CASE ~Expected(m)
  <2>1. pending' = ids /\ UNCHANGED <<channels, sidMap>>
    BY <1>2, <1>4 DEF HandleSubscribed
  <2>2. \A s : Place(s)' = Place(s)
    BY <2>1 DEF Place
  <2> HIDE DEF ids
  <2>3. GInv'
    BY <1>1, <1>2, <1>3, <2>1, <2>2, ReadGap
  <2> QED
    BY <1>1, <2>3 DEF NoFalseAlarm
<1>5. CASE Expected(m)
  <2> DEFINE confirmed == [channels EXCEPT ![c].sid = m.sid]
  <2>1. /\ c \in DOMAIN channels /\ channels[c].sid = NoSid /\ channels[c].seq = NoSeq
        /\ channels[c] \in ChannelState /\ m.id \in DOMAIN pending
    BY <1>2, <1>5 DEF Expected, Confirmed, Unread, TypeOK
  <2>2. \/ /\ channels' \in {confirmed, [confirmed EXCEPT ![c].pending = {}]}
           /\ sidMap' = Put(sidMap, m.sid, c) /\ pending' = ids
        \/ sidMap' = <<>> /\ pending' = <<>>
    BY <1>2, <1>5 DEF HandleSubscribed, SidOf, SocketError, HandleConnectionLoss
  <2>3. CASE sidMap' = <<>> /\ pending' = <<>>
    <3>1. DOMAIN sidMap' = {} /\ DOMAIN pending' = {}
      BY <2>3, EmptyElements
    <3>2. \A s : Place(s)' = NoSeq
      BY <3>1 DEF Place
    <3>3. GInv'
      BY <1>1, <3>1, <3>2, ReadGap
    <3> QED
      BY <1>1, <3>3 DEF NoFalseAlarm
  <2>4. CASE /\ channels' \in {confirmed, [confirmed EXCEPT ![c].pending = {}]}
             /\ sidMap' = Put(sidMap, m.sid, c) /\ pending' = ids
    <3> DEFINE next == [channels[c] EXCEPT !.sid = m.sid]
               emptied == [next EXCEPT !.pending = {}]
    <3>1. next.seq = NoSeq /\ emptied.seq = NoSeq
      BY <2>1 DEF ChannelState
    <3>2. channels' \in {[channels EXCEPT ![c] = next], [channels EXCEPT ![c] = emptied]}
      BY <2>1, <2>4
    <3> HIDE DEF next, emptied
    <3>3. channels'[c].seq = NoSeq /\ \A d \in DOMAIN channels \ {c} : channels'[d] = channels[d]
      BY <2>1, <3>1, <3>2
    <3>4. /\ DOMAIN sidMap' = DOMAIN sidMap \cup {m.sid} /\ sidMap'[m.sid] = c
          /\ \A s \in DOMAIN sidMap \ {m.sid} : sidMap'[s] = sidMap[s]
      BY <2>4 DEF Put
    <3> HIDE DEF ids
    <3>5. ASSUME NEW s \in Sids PROVE Place(s)' \in {Place(s), NoSeq}
      <4>1. CASE s = m.sid
        BY <3>3, <3>4, <4>1 DEF Place
      <4>2. CASE s # m.sid /\ s \in DOMAIN sidMap
        <5>1. sidMap[s] \in DOMAIN channels \ {c}
          BY <1>2, <2>1, <4>2 DEF SidMapInverse, Sids
        <5> QED
          BY <3>3, <3>4, <4>2, <5>1 DEF Place
      <4>3. CASE s # m.sid /\ s \notin DOMAIN sidMap
        BY <3>4, <4>3 DEF Place
      <4> QED
        BY <4>1, <4>2, <4>3
    <3>6. \A s \in DOMAIN sidMap' :
              \/ s \in DOMAIN sidMap /\ sidMap'[s] = sidMap[s]
              \/ Confirms(1) /\ m.sid = s /\ m.id \in DOMAIN pending /\ sidMap'[s] = pending[m.id]
      BY <1>2, <2>1, <3>4
    <3>7. GInv'
      BY <1>1, <1>2, <1>3, <2>4, <3>5, <3>6, ReadGap
    <3> QED
      BY <1>1, <3>7 DEF NoFalseAlarm
  <2> QED
    BY <2>2, <2>3, <2>4
<1> QED
  BY <1>4, <1>5

-----------------------------------------------------------------------------
(* The theorem.                                                            *)

LEMMA InitGap == Init => GInv
<1>1. Init => Len(replies) = 0 /\ DOMAIN subs = {}
  BY EmptyElements DEF Init, ServerInit
<1> QED
  BY <1>1 DEF GInv, Numbering, Rising, Labelled

LEMMA CloseGap ==
    ASSUME IInv, IInv', GInv, Close
    PROVE  GInv'
<1>1. CASE link = "open"
  BY <1>1, HangupGap DEF Close
<1>2. CASE link # "open"
  <2>1. NoSend /\ UNCHANGED <<channels, sidMap>> /\ WireOnlySends
    BY <1>2 DEF Close, NoSend, WireOnlySends
  <2> QED
    BY <2>1, NothingActs, TacitGap DEF Tacit
<1> QED
  BY <1>1, <1>2

LEMMA CallGap ==
    ASSUME IInv, IInv', GInv, Call
    PROVE  GInv' /\ NoFalseAlarm
<1>1. CASE Connect
  <2>1. DOMAIN sidMap = {} /\ UNCHANGED <<sidMap, gap>> /\ Accept
    BY <1>1 DEF Connect, IInv, Indexed, Turns
  <2> QED
    BY <2>1, AcceptGap DEF NoFalseAlarm
<1>2. CASE Close
  BY <1>2, CloseGap DEF Close, NoFalseAlarm
<1>3. CASE Listen
  BY <1>3, ListenKeeps, TacitGap DEF Listen, NoFalseAlarm
<1>4. CASE UnsubscribeAll
  BY <1>4, UnsubscribeAllKeeps, TacitGap DEF UnsubscribeAll, NoFalseAlarm
<1>5. CASE \E c \in Channels : Resubscribe(c)
  BY <1>5, ResubscribeKeeps, TacitGap DEF Resubscribe, ListenerWaits, NoFalseAlarm
<1>6. CASE \E name \in Operations, markets \in (SUBSET Markets) \ {{}},
               names \in (SUBSET Channels) \ {{}} :
               name \in {"add_market", "add_markets", "remove_market"} /\ Begin(name, markets, names)
  BY <1>6, BeginKeeps, TacitGap DEF Begin, ShareOf, ListenerWaits, NoFalseAlarm
<1>7. CASE \E c \in Channels : \E m \in Markets : RequestSnapshot(c, {m})
  <2>1. PICK c \in Channels, m \in Markets : RequestSnapshot(c, {m})
    BY <1>7
  <2>2. {m} \in SUBSET Markets
    OBVIOUS
  <2> QED
    BY <2>1, <2>2, RequestSnapshotKeeps, TacitGap DEF RequestSnapshot, ListenerWaits, NoFalseAlarm
<1> QED
  BY <1>1, <1>2, <1>3, <1>4, <1>5, <1>6, <1>7 DEF Call

LEMMA ContinueGap ==
    ASSUME IInv, IInv', GInv, Continue
    PROVE  GInv' /\ NoFalseAlarm
<1>1. Tacit
  BY ShareKeeps, AbortKeeps, SweepKeeps, ResubscribeAgainKeeps DEF Continue
<1>2. gap' = gap
  BY DEF Continue, Share, ShareOf, Abort, Sweep, ResubscribeAgain, ListenerWaits
<1> QED
  BY <1>1, <1>2, TacitGap DEF NoFalseAlarm

LEMMA ListenerGap ==
    ASSUME IInv, IInv', GInv, ListenerStep
    PROVE  GInv' /\ NoFalseAlarm
<1>1. CASE Handle
  BY <1>1, HandleSubscribedGap, HandleOkGap, HandleUnsubscribedGap, HandleErrorGap, HandleDataGap
     DEF Handle
<1>2. CASE ConnectionLost
  BY <1>2, ConnectionLostKeeps, TacitGap DEF ConnectionLost, SocketError, NoFalseAlarm
<1>3. CASE Reconnect
  <2>1. DOMAIN sidMap = {} /\ UNCHANGED <<sidMap, gap>> /\ Accept
    BY <1>3 DEF Reconnect, IInv, Indexed, Turns
  <2> QED
    BY <2>1, AcceptGap DEF NoFalseAlarm
<1>4. CASE ReconnectFails
  BY <1>4, ReconnectFailsKeeps, TacitGap DEF ReconnectFails, NoFalseAlarm
<1>5. CASE Recover
  BY <1>5, RecoverKeeps, TacitGap DEF Recover, NoFalseAlarm
<1> QED
  BY <1>1, <1>2, <1>3, <1>4, <1>5 DEF ListenerStep

LEMMA ExchangeGap ==
    ASSUME IInv, IInv', GInv, ServerNext, UNCHANGED clientVars
    PROVE  GInv' /\ NoFalseAlarm
<1>1. CASE Lose
  <2>1. Hangup /\ UNCHANGED <<channels, sidMap, pending>>
    BY <1>1 DEF Lose, clientVars
  <2> QED
    BY <2>1, HangupGap DEF NoFalseAlarm, clientVars
<1> QED
  BY <1>1, ServeGap, PublishGap, SkipGap DEF ServerNext, NoFalseAlarm, clientVars

LEMMA NextGap ==
    ASSUME IInv, IInv', GInv, [Next]_vars
    PROVE  GInv' /\ NoFalseAlarm
<1>1. CASE UNCHANGED vars
  BY <1>1, NothingKeeps, TacitGap DEF vars, clientVars, NoFalseAlarm
<1>2. CASE Call
  BY <1>2, CallGap
<1>3. CASE Continue \/ Share \/ Sweep
  BY <1>3, ContinueGap DEF Continue
<1>4. CASE ListenerStep \/ Recover
  BY <1>4, ListenerGap DEF ListenerStep
<1>5. CASE Environment
  BY <1>5, ExchangeGap DEF Environment
<1>6. CASE Stays
  BY <1>1, <1>6 DEF Stays
<1> QED
  BY <1>1, <1>2, <1>3, <1>4, <1>5, <1>6 DEF Next

\* No false alarm: listener_loop raises KalshiSequenceGapError only on a message of a
\* subscription in which the exchange did skip a number, even where the client still
\* reads what a broken connection left behind (_check_and_update_seq).
THEOREM GapsAreReal == Spec => GapIsReal
<1>1. Init => GInv
  BY InitGap
<1>2. IInv /\ IInv' /\ GInv /\ [Next]_vars => GInv'
  BY NextGap
<1>3. IInv /\ IInv' /\ GInv /\ [Next]_vars => NoFalseAlarm
  BY NextGap
<1>4. NoFalseAlarm => [gap' # NoChannel /\ gap = NoChannel => Head(replies).skips]_vars
  BY DEF NoFalseAlarm
<1> QED
  BY <1>1, <1>2, <1>3, <1>4, Invariance, PTL DEF Spec, GapIsReal
=============================================================================
