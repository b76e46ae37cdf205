--------------------------- MODULE TokenBucketProofs ---------------------------
(***************************************************************************)
(* Theorems about ReadWriteTokenBucket, for any callers, requests,         *)
(* settings and timing.                                                    *)
(*                                                                         *)
(* First the budget: the inductive invariant keeps its books.  A budget's  *)
(* history is a chain of running totals that ends in the total granted so  *)
(* far, tokens and history add up to the capacity, and the history is the  *)
(* part of the grants of this configuration that has not expired.          *)
(*                                                                         *)
(* Then the sleeps: none is longer than a window and its padding, and each *)
(* is long enough.  The argument adds the order of time to the books:      *)
(* entries are in the order of their stamps, so when the entry that a      *)
(* sleep waits for has expired, all before it have.                        *)
(*                                                                         *)
(* Then the sliding window that the bucket implements.  The books and the  *)
(* order of time show that the tokens that a refill leaves are what the    *)
(* grants of the last window leave of the capacity (LoadIsHistory); every  *)
(* step then maps to a step of the window.                                 *)
(***************************************************************************)
EXTENDS TokenBucketWindow, SequenceTheorems, WellFoundedInduction, TLAPS

-----------------------------------------------------------------------------
(* Chains of running totals.                                               *)

\* Each total is the previous one plus the cost of its entry.
Chained(h) == \A i \in 1 .. Len(h) - 1 : h[i + 1].upto = h[i].upto + h[i + 1].cost

\* Totals only grow.
Ordered(h) == \A i, j \in 1 .. Len(h) : i < j => h[i].upto + h[j].cost <= h[j].upto

EndsAt(h, total) == h # <<>> => h[Len(h)].upto = total

Chain(h, total) == Chained(h) /\ Ordered(h) /\ EndsAt(h, total)

LEMMA EntryFields ==
    ASSUME NEW e \in Entry
    PROVE  e.ts \in Nat /\ e.cost \in Nat /\ e.upto \in Nat
BY DEF Entry

\* What is recovered from the first n entries of a chain is a number of tokens.
LEMMA RecoveredNat ==
    ASSUME NEW h \in Seq(Entry), Ordered(h), NEW n \in 0 .. Len(h)
    PROVE  Recovered(h, n) \in Nat
<1>1. CASE n = 0
  BY <1>1 DEF Recovered
<1>2. CASE n # 0
  <2>1. 1 \in 1 .. Len(h) /\ n \in 1 .. Len(h)
    BY <1>2
  <2>2. h[1] \in Entry /\ h[n] \in Entry
    BY <2>1, ElementOfSeq
  <2>3. CASE n = 1
    BY <2>2, <2>3 DEF Recovered, Entry
  <2>4. CASE n > 1
    <3>1. h[1].upto + h[n].cost <= h[n].upto
      BY <2>1, <2>4 DEF Ordered
    <3> QED
      BY <1>2, <2>2, <3>1, SMTT(40) DEF Recovered, Entry
  <2> QED
    BY <1>2, <2>3, <2>4
<1> QED
  BY <1>1, <1>2

\* No entry of a chain begins before the first one does.
LEMMA ChainStart ==
    ASSUME NEW h \in Seq(Entry), Ordered(h), NEW k \in 1 .. Len(h)
    PROVE  h[1].upto - h[1].cost <= h[k].upto - h[k].cost
<1>1. Len(h) \in Nat /\ 1 \in 1 .. Len(h)
  BY LenProperties
<1>2. h[1].upto \in Nat /\ h[1].cost \in Nat /\ h[k].upto \in Nat /\ h[k].cost \in Nat
  BY <1>1, ElementOfSeq, EntryFields
<1>3. CASE k = 1
  BY <1>2, <1>3
<1>4. CASE k > 1
  <2>1. h[1].upto + h[k].cost <= h[k].upto
    BY <1>1, <1>4 DEF Ordered
  <2> QED
    BY <1>2, <2>1
<1> QED
  BY <1>3, <1>4

\* What the refill loop leaves of a history.
LEMMA SuffixElements ==
    ASSUME NEW h \in Seq(Entry), NEW n \in 0 .. Len(h)
    PROVE  LET s == SubSeq(h, n + 1, Len(h)) IN
           /\ s \in Seq(Entry)
           /\ Len(s) = Len(h) - n
           /\ \A i \in 1 .. Len(s) : i + n \in 1 .. Len(h) /\ s[i] = h[i + n]
<1> DEFINE s == SubSeq(h, n + 1, Len(h))
<1>1. Len(h) \in Nat
  BY LenProperties
<1>2. \A i \in n + 1 .. Len(h) : h[i] \in Entry
  BY <1>1, ElementOfSeq
<1>3. /\ s \in Seq(Entry)
      /\ Len(s) = IF n + 1 <= Len(h) THEN Len(h) - (n + 1) + 1 ELSE 0
      /\ \A i \in 1 .. Len(h) - (n + 1) + 1 : s[i] = h[n + 1 + i - 1]
  <2> HIDE DEF s
  <2> QED
    BY <1>1, <1>2, SubSeqProperties DEF s
<1>4. Len(s) = Len(h) - n
  BY <1>1, <1>3
<1>5. ASSUME NEW i \in 1 .. Len(s)
      PROVE  i + n \in 1 .. Len(h) /\ s[i] = h[i + n]
  <2> HIDE DEF s
  <2>1. i \in 1 .. Len(h) - (n + 1) + 1
    BY <1>1, <1>4
  <2>2. s[i] = h[n + 1 + i - 1]
    BY <1>3, <2>1
  <2>3. n + 1 + i - 1 = i + n
    BY <1>1, <1>4
  <2> QED
    BY <1>1, <1>4, <2>2, <2>3
<1> QED
  BY <1>3, <1>4, <1>5

\* A suffix of a chain is a chain to the same total.
LEMMA SuffixChain ==
    ASSUME NEW h \in Seq(Entry), NEW n \in 0 .. Len(h), NEW total, Chain(h, total)
    PROVE  Chain(SubSeq(h, n + 1, Len(h)), total)
<1> DEFINE s == SubSeq(h, n + 1, Len(h))
<1>0. Len(h) \in Nat
  BY LenProperties
<1>1. /\ s \in Seq(Entry)
      /\ Len(s) = Len(h) - n
      /\ \A i \in 1 .. Len(s) : i + n \in 1 .. Len(h) /\ s[i] = h[i + n]
  BY SuffixElements
<1> HIDE DEF s
<1>2. Chained(s)
  <2> SUFFICES ASSUME NEW i \in 1 .. Len(s) - 1
               PROVE  s[i + 1].upto = s[i].upto + s[i + 1].cost
    BY DEF Chained
  <2>1. i \in 1 .. Len(s) /\ i + 1 \in 1 .. Len(s) /\ i + n \in 1 .. Len(h) - 1
    BY <1>0, <1>1
  <2>2. s[i] = h[i + n] /\ s[i + 1] = h[(i + n) + 1]
    <3>1. (i + 1) + n = (i + n) + 1
      BY <1>0, <1>1
    <3> QED
      BY <1>1, <2>1, <3>1
  <2> QED
    BY <2>1, <2>2 DEF Chain, Chained
<1>3. Ordered(s)
  <2> SUFFICES ASSUME NEW i \in 1 .. Len(s), NEW j \in 1 .. Len(s), i < j
               PROVE  s[i].upto + s[j].cost <= s[j].upto
    BY DEF Ordered
  <2>1. i + n \in 1 .. Len(h) /\ j + n \in 1 .. Len(h) /\ i + n < j + n
    BY <1>0, <1>1
  <2> QED
    BY <1>1, <2>1 DEF Chain, Ordered
<1>4. EndsAt(s, total)
  <2> SUFFICES ASSUME s # <<>>
               PROVE  s[Len(s)].upto = total
    BY DEF EndsAt
  <2>1. Len(s) \in 1 .. Len(s)
    BY <1>1, EmptySeq
  <2>2. s[Len(s)] = h[Len(h)] /\ h # <<>>
    <3>1. Len(s) + n = Len(h) /\ Len(h) # 0
      BY <1>0, <1>1, <2>1
    <3> QED
      BY <1>1, <2>1, <3>1, EmptySeq
  <2> QED
    BY <2>2 DEF Chain, EndsAt
<1> QED
  BY <1>2, <1>3, <1>4 DEF Chain, s

\* The first k entries recover what the first n and the k - n after them do.
LEMMA RecoveredPart ==
    ASSUME NEW h \in Seq(Entry), Chained(h), NEW n \in 0 .. Len(h), NEW k \in n .. Len(h)
    PROVE  Recovered(h, k) = Recovered(h, n) + Recovered(SubSeq(h, n + 1, Len(h)), k - n)
<1> DEFINE s == SubSeq(h, n + 1, Len(h))
<1>1. /\ Len(h) \in Nat /\ Len(s) = Len(h) - n
      /\ \A i \in 1 .. Len(s) : i + n \in 1 .. Len(h) /\ s[i] = h[i + n]
      /\ \A i \in 1 .. Len(h) : h[i].cost \in Nat /\ h[i].upto \in Nat
  BY SuffixElements, LenProperties, ElementOfSeq, EntryFields
<1> HIDE DEF s
<1>2. CASE k = n
  <2>1. Recovered(s, k - n) = 0
    BY <1>1, <1>2 DEF Recovered
  <2>2. Recovered(h, n) \in Int
    BY <1>1 DEF Recovered
  <2> QED
    BY <1>2, <2>1, <2>2 DEF s
<1>3. CASE k > n
  <2>1. 1 \in 1 .. Len(s) /\ k - n \in 1 .. Len(s) /\ (k - n) + n = k /\ 1 + n = n + 1
    BY <1>1, <1>3
  <2>2. s[1] = h[n + 1] /\ s[k - n] = h[k] /\ n + 1 \in 1 .. Len(h) /\ k \in 1 .. Len(h)
    BY <1>1, <2>1
  <2>3. Recovered(s, k - n) = h[k].upto - h[n + 1].upto + h[n + 1].cost
    BY <1>1, <2>1, <2>2 DEF Recovered
  <2>4. CASE n = 0
    BY <1>1, <1>3, <2>2, <2>3, <2>4 DEF Recovered, s
  <2>5. CASE n > 0
    <3>1. n \in 1 .. Len(h) - 1 /\ n \in 1 .. Len(h) /\ 1 \in 1 .. Len(h)
      BY <1>1, <2>2, <2>5
    <3>2. h[n + 1].upto = h[n].upto + h[n + 1].cost
      BY <3>1 DEF Chained
    <3>3. /\ Recovered(h, n) = h[n].upto - h[1].upto + h[1].cost
          /\ Recovered(h, k) = h[k].upto - h[1].upto + h[1].cost
      BY <1>1, <1>3, <2>5 DEF Recovered
    <3>4. /\ h[1].upto \in Nat /\ h[1].cost \in Nat /\ h[n].upto \in Nat
          /\ h[k].upto \in Nat /\ h[n + 1].upto \in Nat /\ h[n + 1].cost \in Nat
      BY <1>1, <2>2, <3>1
    <3> DEFINE u == h[1].upto
               c == h[1].cost
               v == h[n].upto
               w == h[k].upto
               x == h[n + 1].upto
               y == h[n + 1].cost
    <3> HIDE DEF u, c, v, w, x, y
    <3>5. Recovered(h, k) = Recovered(h, n) + Recovered(s, k - n)
      <4>1. u \in Nat /\ c \in Nat /\ v \in Nat /\ w \in Nat /\ x \in Nat /\ y \in Nat
        BY <3>4 DEF u, c, v, w, x, y
      <4>2. x = v + y
        BY <3>2 DEF v, x, y
      <4>3. /\ Recovered(h, n) = v - u + c /\ Recovered(h, k) = w - u + c
            /\ Recovered(s, k - n) = w - x + y
        BY <2>3, <3>3 DEF u, c, v, w, x, y
      <4>4. w - u + c = (v - u + c) + (w - x + y)
        BY <4>1, <4>2
      <4> QED
        BY <4>3, <4>4
    <3> QED
      BY <3>5 DEF s
  <2> QED
    BY <1>1, <2>4, <2>5
<1> QED
  BY <1>1, <1>2, <1>3

\* What a whole chain recovers is what its first n entries and the rest do.
LEMMA RecoveredSplit ==
    ASSUME NEW h \in Seq(Entry), NEW n \in 0 .. Len(h), Chained(h)
    PROVE  LET s == SubSeq(h, n + 1, Len(h)) IN
           Recovered(h, Len(h)) = Recovered(h, n) + Recovered(s, Len(s))
<1>1. Len(h) \in n .. Len(h)
  BY LenProperties
<1>2. Len(SubSeq(h, n + 1, Len(h))) = Len(h) - n
  BY SuffixElements
<1> QED
  BY <1>1, <1>2, RecoveredPart

\* A grant appended to a chain extends it and its total.
LEMMA AppendChain ==
    ASSUME NEW h \in Seq(Entry), NEW total \in Nat, Chain(h, total),
           NEW e \in Entry, e.upto = total + e.cost
    PROVE  /\ Chain(Append(h, e), e.upto)
           /\ Recovered(Append(h, e), Len(Append(h, e))) = Recovered(h, Len(h)) + e.cost
<1> DEFINE s == Append(h, e)
<1>0. Len(h) \in Nat /\ \A i \in 1 .. Len(h) : h[i] \in Entry
  BY LenProperties, ElementOfSeq
<1>1. /\ s \in Seq(Entry)
      /\ Len(s) = Len(h) + 1
      /\ \A i \in 1 .. Len(h) : s[i] = h[i]
      /\ s[Len(h) + 1] = e
  BY AppendProperties
<1> SUFFICES Chain(s, e.upto) /\ Recovered(s, Len(s)) = Recovered(h, Len(h)) + e.cost
  OBVIOUS
<1> HIDE DEF s
<1>2. Len(h) # 0 => h[Len(h)].upto = total
  BY EmptySeq DEF Chain, EndsAt
<1>3. Chained(s)
  <2> SUFFICES ASSUME NEW i \in 1 .. Len(s) - 1
               PROVE  s[i + 1].upto = s[i].upto + s[i + 1].cost
    BY DEF Chained
  <2>1. CASE i = Len(h)
    <3>1. s[i] = h[Len(h)] /\ s[i + 1] = e /\ Len(h) # 0
      BY <1>0, <1>1, <2>1
    <3> QED
      BY <1>2, <3>1
  <2>2. CASE i # Len(h)
    <3>1. i \in 1 .. Len(h) - 1
      BY <1>0, <1>1, <2>2
    <3>2. s[i] = h[i] /\ s[i + 1] = h[i + 1]
      BY <1>0, <1>1, <3>1
    <3> QED
      BY <3>1, <3>2 DEF Chain, Chained
  <2> QED
    BY <2>1, <2>2
<1>4. Ordered(s)
  <2> SUFFICES ASSUME NEW i \in 1 .. Len(s), NEW j \in 1 .. Len(s), i < j
               PROVE  s[i].upto + s[j].cost <= s[j].upto
    BY DEF Ordered
  <2>1. i \in 1 .. Len(h) /\ s[i] = h[i] /\ h[i] \in Entry
    BY <1>0, <1>1
  <2>2. CASE j = Len(h) + 1
    <3>1. h[i].upto <= total
      <4>1. CASE i = Len(h)
        BY <1>0, <1>2, <2>1, <4>1 DEF Entry
      <4>2. CASE i # Len(h)
        <5>1. Len(h) \in 1 .. Len(h) /\ i < Len(h) /\ h[Len(h)] \in Entry
          BY <1>0, <2>1, <4>2
        <5>2. h[i].upto + h[Len(h)].cost <= h[Len(h)].upto
          BY <2>1, <5>1 DEF Chain, Ordered
        <5>3. h[Len(h)].upto = total
          BY <1>0, <1>2, <5>1
        <5>4. h[i].upto \in Nat /\ h[Len(h)].cost \in Nat
          BY <2>1, <5>1, EntryFields
        <5> QED
          BY <5>2, <5>3, <5>4
      <4> QED
        BY <4>1, <4>2
    <3>2. s[i].upto + e.cost <= total + e.cost
      BY <2>1, <3>1, EntryFields
    <3> QED
      BY <1>1, <2>2, <3>2
  <2>3. CASE j # Len(h) + 1
    <3>1. j \in 1 .. Len(h) /\ s[j] = h[j]
      BY <1>0, <1>1, <2>3
    <3> QED
      BY <2>1, <3>1 DEF Chain, Ordered
  <2> QED
    BY <2>2, <2>3
<1>5. EndsAt(s, e.upto)
  BY <1>1 DEF EndsAt
<1>6. Recovered(s, Len(s)) = Recovered(h, Len(h)) + e.cost
  <2>1. Recovered(s, Len(s)) = e.upto - s[1].upto + s[1].cost
    BY <1>0, <1>1 DEF Recovered
  <2>2. CASE Len(h) = 0
    <3>1. s[1] = e /\ Recovered(h, Len(h)) = 0
      BY <1>1, <2>2 DEF Recovered
    <3> QED
      BY <2>1, <3>1 DEF Entry
  <2>3. CASE Len(h) # 0
    <3>1. s[1] = h[1] /\ h[1] \in Entry /\ h[Len(h)] \in Entry
      BY <1>0, <1>1, <2>3
    <3>2. Recovered(h, Len(h)) = total - h[1].upto + h[1].cost
      BY <1>2, <2>3 DEF Recovered
    <3> QED
      BY <2>1, <3>1, <3>2 DEF Entry
  <2> QED
    BY <2>2, <2>3
<1> QED
  BY <1>3, <1>4, <1>5, <1>6 DEF Chain

-----------------------------------------------------------------------------
(* A history and the log of all grants: the history is the end of the log, *)
(* and what the log holds of this generation before it has expired.        *)

Matches(entry, grant, gen) ==
    /\ grant.ts = entry.ts /\ grant.cost = entry.cost /\ grant.upto = entry.upto
    /\ grant.generation = gen

Log(h, log, gen, at) ==
    /\ Len(h) <= Len(log)
    /\ \A i \in 1 .. Len(h) : Matches(h[i], log[i + (Len(log) - Len(h))], gen)
    /\ \A i \in 1 .. Len(log) - Len(h) : log[i].generation = gen => log[i].ts + Window <= at
    /\ \A i \in 1 .. Len(log) : log[i].generation <= gen

\* The bound that WindowBound states of one budget.
Within(log, gen, capacity) ==
    \A i, j \in 1 .. Len(log) :
        (i <= j /\ log[i].generation = gen /\ log[j].ts < log[i].ts + Window)
            => log[j].upto - log[i].upto + log[i].cost <= capacity

LEMMA GrantFields ==
    ASSUME NEW g \in Grant
    PROVE  g.ts \in Nat /\ g.cost \in Nat /\ g.upto \in Nat /\ g.generation \in Nat
BY DEF Grant

LEMMA LogLater ==
    ASSUME NEW h \in Seq(Entry), NEW log \in Seq(Grant), NEW gen,
           NEW at \in Nat, NEW later \in Nat, at <= later, Log(h, log, gen, at)
    PROVE  Log(h, log, gen, later)
<1>1. Len(h) \in Nat /\ Len(log) \in Nat
  BY LenProperties
<1>2. ASSUME NEW i \in 1 .. Len(log) - Len(h), log[i].generation = gen
      PROVE  log[i].ts + Window <= later
  <2>1. log[i] \in Grant /\ log[i].ts + Window <= at
    BY <1>1, <1>2, ElementOfSeq DEF Log
  <2> QED
    BY <2>1, GrantFields, TimingAssumption
<1> QED
  BY <1>2 DEF Log

\* The refill loop pops entries that have expired.
LEMMA LogSuffix ==
    ASSUME NEW h \in Seq(Entry), NEW log \in Seq(Grant), NEW gen, NEW at \in Nat,
           Log(h, log, gen, at), NEW n \in 0 .. Len(h),
           \A i \in 1 .. n : h[i].ts <= at - Window
    PROVE  Log(SubSeq(h, n + 1, Len(h)), log, gen, at)
<1> DEFINE s == SubSeq(h, n + 1, Len(h))
<1>0. Len(h) \in Nat /\ Len(log) \in Nat /\ \A i \in 1 .. Len(h) : h[i] \in Entry
  BY LenProperties, ElementOfSeq
<1>1. /\ Len(s) = Len(h) - n
      /\ \A i \in 1 .. Len(s) : i + n \in 1 .. Len(h) /\ s[i] = h[i + n]
  BY SuffixElements
<1> SUFFICES Log(s, log, gen, at)
  OBVIOUS
<1> HIDE DEF s
<1>2. Len(s) <= Len(log)
  BY <1>0, <1>1 DEF Log
<1>3. ASSUME NEW i \in 1 .. Len(s)
      PROVE  Matches(s[i], log[i + (Len(log) - Len(s))], gen)
  <2>1. i + (Len(log) - Len(s)) = (i + n) + (Len(log) - Len(h))
    BY <1>0, <1>1
  <2>2. i + n \in 1 .. Len(h) /\ s[i] = h[i + n]
    BY <1>1
  <2> QED
    BY <2>1, <2>2 DEF Log
<1>4. ASSUME NEW i \in 1 .. Len(log) - Len(s), log[i].generation = gen
      PROVE  log[i].ts + Window <= at
  <2>1. CASE i <= Len(log) - Len(h)
    BY <1>0, <1>4, <2>1 DEF Log
  <2>2. CASE i > Len(log) - Len(h)
    <3> DEFINE k == i - (Len(log) - Len(h))
    <3>1. k \in 1 .. n /\ k \in 1 .. Len(h) /\ k + (Len(log) - Len(h)) = i
      BY <1>0, <1>1, <2>2
    <3> HIDE DEF k
    <3>2. log[i].ts = h[k].ts
      BY <3>1 DEF Log, Matches
    <3>3. h[k].ts <= at - Window /\ h[k].ts \in Nat
      BY <1>0, <3>1, EntryFields
    <3> QED
      BY <3>2, <3>3, TimingAssumption
  <2> QED
    BY <1>0, <2>1, <2>2
<1> QED
  BY <1>2, <1>3, <1>4 DEF Log

\* A grant is stamped no earlier than the clock that expired the others.
LEMMA LogAppend ==
    ASSUME NEW h \in Seq(Entry), NEW log \in Seq(Grant), NEW gen \in Nat, NEW at \in Nat,
           Log(h, log, gen, at), NEW e \in Entry, NEW g \in Grant, Matches(e, g, gen)
    PROVE  Log(Append(h, e), Append(log, g), gen, at)
<1> DEFINE s == Append(h, e)
           t == Append(log, g)
<1>0. Len(h) \in Nat /\ Len(log) \in Nat
  BY LenProperties
<1>1. /\ Len(s) = Len(h) + 1
      /\ \A i \in 1 .. Len(h) : s[i] = h[i]
      /\ s[Len(h) + 1] = e
  BY AppendProperties
<1>2. /\ Len(t) = Len(log) + 1
      /\ \A i \in 1 .. Len(log) : t[i] = log[i]
      /\ t[Len(log) + 1] = g
  BY AppendProperties
<1> SUFFICES Log(s, t, gen, at)
  OBVIOUS
<1> HIDE DEF s, t
<1>3. Len(s) <= Len(t)
  BY <1>0, <1>1, <1>2 DEF Log
<1>4. ASSUME NEW i \in 1 .. Len(s)
      PROVE  Matches(s[i], t[i + (Len(t) - Len(s))], gen)
  <2>1. i + (Len(t) - Len(s)) = i + (Len(log) - Len(h))
    BY <1>0, <1>1, <1>2
  <2>2. CASE i = Len(h) + 1
    <3>1. i + (Len(log) - Len(h)) = Len(log) + 1
      BY <1>0, <2>2
    <3> QED
      BY <1>1, <1>2, <2>1, <2>2, <3>1
  <2>3. CASE i # Len(h) + 1
    <3>1. i \in 1 .. Len(h) /\ i + (Len(log) - Len(h)) \in 1 .. Len(log)
      BY <1>0, <1>1, <2>3 DEF Log
    <3> QED
      BY <1>1, <1>2, <2>1, <3>1 DEF Log
  <2> QED
    BY <2>2, <2>3
<1>5. ASSUME NEW i \in 1 .. Len(t) - Len(s), t[i].generation = gen
      PROVE  t[i].ts + Window <= at
  <2>1. i \in 1 .. Len(log) - Len(h) /\ i \in 1 .. Len(log)
    BY <1>0, <1>1, <1>2
  <2> QED
    BY <1>2, <1>5, <2>1 DEF Log
<1>6. ASSUME NEW i \in 1 .. Len(t)
      PROVE  t[i].generation <= gen
  <2>1. CASE i = Len(log) + 1
    BY <1>2, <2>1 DEF Matches
  <2>2. CASE i # Len(log) + 1
    <3>1. i \in 1 .. Len(log)
      BY <1>0, <1>2, <2>2
    <3> QED
      BY <1>2, <3>1 DEF Log
  <2> QED
    BY <2>1, <2>2
<1> QED
  BY <1>3, <1>4, <1>5, <1>6 DEF Log

\* A cost that fits beside a whole chain fits beside the end of it.
LEMMA LateFits ==
    ASSUME NEW h \in Seq(Entry), NEW total \in Nat, Chain(h, total),
           NEW cost \in Nat, NEW capacity \in Nat,
           Recovered(h, Len(h)) + cost <= capacity, NEW k \in 1 .. Len(h)
    PROVE  (total + cost) - h[k].upto + h[k].cost <= capacity
<1>1. Len(h) \in Nat /\ 1 \in 1 .. Len(h) /\ Len(h) # 0
  BY LenProperties
<1>2. h[1].upto \in Nat /\ h[1].cost \in Nat /\ h[k].upto \in Nat /\ h[k].cost \in Nat
  BY <1>1, ElementOfSeq, EntryFields
<1>3. Recovered(h, Len(h)) = total - h[1].upto + h[1].cost
  BY <1>1, EmptySeq DEF Recovered, Chain, EndsAt
<1>4. h[1].upto - h[1].cost <= h[k].upto - h[k].cost
  BY ChainStart DEF Chain
<1>5. (total + cost) - capacity <= h[1].upto - h[1].cost
  BY <1>2, <1>3, SMTT(40)
<1>6. (total + cost) - capacity <= h[k].upto - h[k].cost
  BY <1>2, <1>4, <1>5, SMTT(40)
<1> QED
  BY <1>2, <1>6

\* A grant that fits beside what has not expired keeps the bound: against a
\* grant still in the history by the balance, against an expired one by time.
LEMMA WithinAppend ==
    ASSUME NEW h \in Seq(Entry), NEW log \in Seq(Grant), NEW gen \in Nat, NEW at \in Nat,
           NEW total \in Nat, NEW capacity \in Nat,
           Chain(h, total), Log(h, log, gen, at), Within(log, gen, capacity),
           NEW e \in Entry, NEW g \in Grant, Matches(e, g, gen),
           e.upto = total + e.cost, at <= e.ts,
           Recovered(h, Len(h)) + e.cost <= capacity
    PROVE  Within(Append(log, g), gen, capacity)
<1> DEFINE t == Append(log, g)
<1>0. /\ Len(h) \in Nat /\ Len(log) \in Nat
      /\ \A i \in 1 .. Len(h) : h[i] \in Entry
      /\ \A i \in 1 .. Len(log) : log[i] \in Grant
  BY LenProperties, ElementOfSeq
<1>1. /\ Len(t) = Len(log) + 1
      /\ \A i \in 1 .. Len(log) : t[i] = log[i]
      /\ t[Len(log) + 1] = g
  BY AppendProperties
<1> HIDE DEF t
<1>2. Recovered(h, Len(h)) \in Nat
  BY <1>0, RecoveredNat DEF Chain
<1> SUFFICES ASSUME NEW i \in 1 .. Len(t), NEW j \in 1 .. Len(t),
                    i <= j, t[i].generation = gen, t[j].ts < t[i].ts + Window
             PROVE  t[j].upto - t[i].upto + t[i].cost <= capacity
  BY DEF Within, t
<1>3. CASE j <= Len(log)
  <2>1. i \in 1 .. Len(log) /\ j \in 1 .. Len(log)
    BY <1>0, <1>3
  <2> QED
    BY <1>1, <2>1 DEF Within
<1>4. CASE j = Len(log) + 1
  <2>0. t[j] = g /\ g.upto = total + e.cost /\ g.ts = e.ts /\ g.cost = e.cost
    BY <1>1, <1>4 DEF Matches
  <2>1. e.cost \in Nat /\ e.ts \in Nat
    BY EntryFields
  <2>2. CASE i = Len(log) + 1
    <3>1. t[i] = g
      BY <1>1, <2>2
    <3> QED
      BY <1>2, <2>0, <2>1, <3>1
  <2>3. CASE i <= Len(log) - Len(h)
    <3>1. i \in 1 .. Len(log) - Len(h) /\ i \in 1 .. Len(log)
      BY <1>0, <1>1, <2>3
    <3>2. t[i] = log[i] /\ log[i].ts \in Nat
      BY <1>0, <1>1, <3>1, GrantFields
    <3>3. log[i].ts + Window <= at
      BY <3>1, <3>2 DEF Log
    <3> QED
      BY <2>0, <2>1, <3>2, <3>3, TimingAssumption, SMTT(40)
  <2>4. CASE i > Len(log) - Len(h) /\ i # Len(log) + 1
    <3> DEFINE k == i - (Len(log) - Len(h))
    <3>1. k \in 1 .. Len(h) /\ k + (Len(log) - Len(h)) = i /\ i \in 1 .. Len(log)
      BY <1>0, <1>1, <2>4
    <3> HIDE DEF k
    <3>2. t[i].upto = h[k].upto /\ t[i].cost = h[k].cost
      BY <1>1, <3>1 DEF Log, Matches
    <3>3. (total + e.cost) - h[k].upto + h[k].cost <= capacity
      BY <2>1, <3>1, LateFits
    <3> QED
      BY <2>0, <3>2, <3>3
  <2> QED
    BY <1>0, <1>1, <2>2, <2>3, <2>4
<1> QED
  BY <1>0, <1>1, <1>3, <1>4

-----------------------------------------------------------------------------
(* The inductive invariant.                                                *)

Balanced(b) == tokens[b] + Recovered(history[b], Len(history[b])) = Capacity(b)

BudgetInv(b) ==
    /\ Chain(history[b], granted[b])
    /\ Balanced(b)
    /\ Log(history[b], issued[b], generation, now)
    /\ Within(issued[b], generation, Capacity(b))

Clock == now \in Nat /\ setting \in SettingType /\ generation \in Nat

Stores ==
    /\ tokens \in [Budgets -> Nat]
    /\ history \in [Budgets -> Seq(Entry)]
    /\ granted \in [Budgets -> Nat]
    /\ issued \in [Budgets -> Seq(Grant)]

Books == Clock /\ Stores /\ \A b \in Budgets : BudgetInv(b)

Tasks == task \in [Callers -> {Idle} \cup Asleep] /\ calls \in [Callers -> Nat]

IInv == Books /\ Tasks

LEMMA CapacityNat ==
    ASSUME Clock, NEW b \in Budgets
    PROVE  Capacity(b) \in Nat
BY DEF Clock, SettingType, Capacity

LEMMA RequestFields ==
    ASSUME NEW request \in RequestType
    PROVE  BudgetOf(request) \in Budgets /\ CostOf(request) \in Nat
BY DEF RequestType, BudgetOf, CostOf, Budgets

\* Refilling never reaches the cap of the min: it returns what was taken.
LEMMA RefilledExact ==
    ASSUME Books, NEW b \in Budgets, NEW n \in 0 .. Len(history[b])
    PROVE  /\ Refilled(b, n) \in Nat
           /\ Remaining(b, n) \in Seq(Entry)
           /\ Chain(Remaining(b, n), granted[b])
           /\ Refilled(b, n) + Recovered(Remaining(b, n), Len(Remaining(b, n))) = Capacity(b)
<1> DEFINE h == history[b]
           s == SubSeq(h, n + 1, Len(h))
<1>1. h \in Seq(Entry) /\ tokens[b] \in Nat /\ Capacity(b) \in Nat
  BY CapacityNat DEF Books, Stores
<1>2. Chain(h, granted[b]) /\ tokens[b] + Recovered(h, Len(h)) = Capacity(b)
  BY DEF Books, BudgetInv, Balanced
<1>3. s \in Seq(Entry) /\ Len(s) \in 0 .. Len(s)
  <2>1. s \in Seq(Entry)
    BY <1>1, SuffixElements
  <2> QED
    BY <2>1, LenProperties
<1>4. Chain(s, granted[b])
  BY <1>1, <1>2, SuffixChain
<1>5. Recovered(h, n) \in Nat /\ Recovered(s, Len(s)) \in Nat
  BY <1>1, <1>2, <1>3, <1>4, RecoveredNat DEF Chain
<1>6. Recovered(h, Len(h)) = Recovered(h, n) + Recovered(s, Len(s))
  BY <1>1, <1>2, RecoveredSplit DEF Chain
<1>7. Remaining(b, n) = s
  BY DEF Remaining
<1> HIDE DEF s
<1>8. Refilled(b, n) = tokens[b] + Recovered(h, n)
  BY <1>1, <1>2, <1>5, <1>6 DEF Refilled, AtMost
<1> HIDE DEF h
<1> QED
  BY <1>1, <1>2, <1>3, <1>4, <1>5, <1>6, <1>7, <1>8

\* A budget that a step leaves alone.
LEMMA SameBudget ==
    ASSUME Books, now' \in Nat, now <= now', UNCHANGED <<setting, generation>>,
           NEW b \in Budgets, tokens'[b] = tokens[b], history'[b] = history[b],
           granted'[b] = granted[b], issued'[b] = issued[b]
    PROVE  BudgetInv(b)'
<1>1. BudgetInv(b) /\ history[b] \in Seq(Entry) /\ issued[b] \in Seq(Grant) /\ now \in Nat
  BY DEF Books, Stores, Clock
<1>2. Log(history[b], issued[b], generation, now')
  BY <1>1, LogLater DEF BudgetInv
<1> QED
  BY <1>1, <1>2 DEF BudgetInv, Balanced, Capacity

LEMMA TimeStep ==
    ASSUME Books, now' \in Nat, now <= now',
           UNCHANGED <<setting, generation, tokens, history, granted, issued>>
    PROVE  Books'
<1>1. Clock' /\ Stores'
  BY DEF Books, Clock, Stores
<1>2. ASSUME NEW b \in Budgets PROVE BudgetInv(b)'
  BY SameBudget
<1> QED
  BY <1>1, <1>2 DEF Books

\* A refill moves tokens from the history of its budget to its hand.
LEMMA RefillStep ==
    ASSUME Books, now' \in Nat, now <= now', UNCHANGED <<setting, generation>>,
           NEW b \in Budgets, NEW n \in 0 .. Len(history[b]), Refill(b, n)
    PROVE  Books'
<1>1. /\ Refilled(b, n) \in Nat
      /\ Remaining(b, n) \in Seq(Entry)
      /\ Chain(Remaining(b, n), granted[b])
      /\ Refilled(b, n) + Recovered(Remaining(b, n), Len(Remaining(b, n))) = Capacity(b)
  BY RefilledExact
<1>2. Clock' /\ Stores'
  BY <1>1 DEF Books, Clock, Stores, Refill
<1>3. ASSUME NEW x \in Budgets PROVE BudgetInv(x)'
  <2>1. CASE x # b
    BY <2>1, SameBudget DEF Refill, Books, Stores
  <2>2. CASE x = b
    <3>1. tokens'[b] = Refilled(b, n) /\ history'[b] = Remaining(b, n)
      BY DEF Refill, Books, Stores
    <3>2. Log(Remaining(b, n), issued[b], generation, now)
      <4>1. /\ history[b] \in Seq(Entry) /\ issued[b] \in Seq(Grant) /\ now \in Nat
            /\ Log(history[b], issued[b], generation, now)
        BY DEF Books, Stores, Clock, BudgetInv
      <4>2. \A i \in 1 .. n : history[b][i].ts <= now - Window
        BY DEF Refill, Pops
      <4> QED
        BY <4>1, <4>2, LogSuffix DEF Remaining
    <3>3. Log(Remaining(b, n), issued[b], generation, now')
      BY <1>1, <3>2, LogLater DEF Books, Stores, Clock
    <3>4. Within(issued[b], generation, Capacity(b))
      BY DEF Books, BudgetInv
    <3>5. /\ granted'[b] = granted[b] /\ issued'[b] = issued[b]
          /\ generation' = generation /\ Capacity(b)' = Capacity(b)
      BY DEF Refill, Capacity
    <3> QED
      BY <1>1, <2>2, <3>1, <3>3, <3>4, <3>5 DEF BudgetInv, Balanced
  <2> QED
    BY <2>1, <2>2
<1> QED
  BY <1>2, <1>3 DEF Books

\* A grant moves tokens from the hand of its budget to the end of its history.
LEMMA ConsumeStep ==
    ASSUME Books, NEW at \in Nat, now' = at, now <= at, UNCHANGED <<setting, generation>>,
           NEW b \in Budgets, NEW n \in 0 .. Len(history[b]), NEW cost \in Nat,
           Consume(b, n, cost, at)
    PROVE  Books'
<1> DEFINE r == Remaining(b, n)
           e == [ts |-> at, cost |-> cost, upto |-> granted[b] + cost]
           g == [ts |-> at, cost |-> cost, upto |-> granted[b] + cost,
                 generation |-> generation]
<1>1. /\ Refilled(b, n) \in Nat
      /\ r \in Seq(Entry)
      /\ Chain(r, granted[b])
      /\ Refilled(b, n) + Recovered(r, Len(r)) = Capacity(b)
  BY RefilledExact
<1>2. /\ Refilled(b, n) >= cost
      /\ tokens' = [tokens EXCEPT ![b] = Refilled(b, n) - cost]
      /\ granted' = [granted EXCEPT ![b] = @ + cost]
      /\ history' = [history EXCEPT ![b] = Append(r, e)]
      /\ issued' = [issued EXCEPT ![b] = Append(@, g)]
  BY DEF Consume
<1>3. /\ granted[b] \in Nat /\ issued[b] \in Seq(Grant) /\ history[b] \in Seq(Entry)
      /\ now \in Nat /\ generation \in Nat
  BY DEF Books, Stores, Clock
<1>4. e \in Entry /\ g \in Grant /\ Matches(e, g, generation)
  BY <1>3 DEF Entry, Grant, Matches
<1>5. e.upto = granted[b] + e.cost /\ e.ts = at /\ e.cost = cost /\ e.upto = granted[b] + cost
  OBVIOUS
<1> HIDE DEF r, e, g
<1>6. Append(r, e) \in Seq(Entry) /\ Append(issued[b], g) \in Seq(Grant)
  BY <1>1, <1>3, <1>4, AppendProperties
<1>7. Clock' /\ Stores'
  <2>1. Clock'
    BY DEF Books, Clock
  <2>2. Refilled(b, n) - cost \in Nat
    BY <1>1, <1>2
  <2>3. tokens' \in [Budgets -> Nat] /\ granted' \in [Budgets -> Nat]
    BY <1>2, <1>3, <2>2 DEF Books, Stores
  <2>4. history' \in [Budgets -> Seq(Entry)] /\ issued' \in [Budgets -> Seq(Grant)]
    BY <1>2, <1>6 DEF Books, Stores
  <2> QED
    BY <2>1, <2>3, <2>4 DEF Stores
<1>8. ASSUME NEW x \in Budgets PROVE BudgetInv(x)'
  <2>1. CASE x # b
    BY <1>2, <2>1, SameBudget DEF Books, Stores
  <2>2. CASE x = b
    <3>1. /\ tokens'[b] = Refilled(b, n) - cost /\ granted'[b] = granted[b] + cost
          /\ history'[b] = Append(r, e) /\ issued'[b] = Append(issued[b], g)
          /\ generation' = generation /\ Capacity(b)' = Capacity(b)
      BY <1>2 DEF Books, Stores, Capacity
    <3>2. /\ Chain(Append(r, e), granted[b] + cost)
          /\ Recovered(Append(r, e), Len(Append(r, e))) = Recovered(r, Len(r)) + cost
      BY <1>1, <1>3, <1>4, <1>5, AppendChain
    <3>3. Recovered(r, Len(r)) \in Nat /\ Capacity(b) \in Nat
      <4>1. Len(r) \in 0 .. Len(r)
        BY <1>1, LenProperties
      <4> QED
        BY <1>1, <4>1, RecoveredNat, CapacityNat DEF Chain, Books
    <3>4. Log(r, issued[b], generation, at)
      <4>1. Log(history[b], issued[b], generation, now)
        BY DEF Books, BudgetInv
      <4>2. \A i \in 1 .. n : history[b][i].ts <= now - Window
        BY DEF Consume, Pops
      <4>3. Log(r, issued[b], generation, now)
        BY <1>3, <4>1, <4>2, LogSuffix DEF Remaining, r
      <4> QED
        BY <1>1, <1>3, <4>3, LogLater
    <3>5. Log(Append(r, e), Append(issued[b], g), generation, at)
      BY <1>1, <1>3, <1>4, <3>4, LogAppend
    <3>6. Within(Append(issued[b], g), generation, Capacity(b))
      <4>1. Within(issued[b], generation, Capacity(b))
        BY DEF Books, BudgetInv
      <4>2. Recovered(r, Len(r)) + e.cost <= Capacity(b) /\ at <= e.ts
        BY <1>1, <1>2, <1>5, <3>3
      <4> QED
        BY <1>1, <1>3, <1>4, <1>5, <3>3, <3>4, <4>1, <4>2, WithinAppend
    <3>7. (Refilled(b, n) - cost) + (Recovered(r, Len(r)) + cost) = Capacity(b)
      BY <1>1, <3>3
    <3> QED
      BY <2>2, <3>1, <3>2, <3>5, <3>6, <3>7 DEF BudgetInv, Balanced
  <2> QED
    BY <2>1, <2>2
<1> QED
  BY <1>7, <1>8 DEF Books

\* A reconfiguration opens new books.
LEMMA ReconfigureStep ==
    ASSUME Books, NEW new \in Settings, Reconfigure(new)
    PROVE  Books'
<1>1. new \in SettingType /\ \A b \in Budgets : new[b].capacity \in Nat
  BY SettingsAssumption DEF SettingType
<1>2. /\ setting' = new /\ tokens' = [b \in Budgets |-> new[b].capacity]
      /\ history' = [b \in Budgets |-> <<>>] /\ generation' = generation + 1
      /\ now' = now /\ granted' = granted /\ issued' = issued
  BY DEF Reconfigure
<1>3. Clock' /\ Stores'
  <2>1. Clock'
    BY <1>1, <1>2 DEF Books, Clock
  <2>2. <<>> \in Seq(Entry)
    BY EmptySeq
  <2> QED
    BY <1>1, <1>2, <2>1, <2>2 DEF Books, Stores
<1>4. ASSUME NEW b \in Budgets PROVE BudgetInv(b)'
  <2>1. /\ history'[b] = <<>> /\ tokens'[b] = Capacity(b)' /\ Capacity(b)' \in Nat
        /\ issued'[b] = issued[b] /\ issued[b] \in Seq(Grant) /\ generation \in Nat
    BY <1>1, <1>2 DEF Books, Stores, Clock, Capacity
  <2>2. Len(issued[b]) \in Nat /\ Len(<<>>) = 0
    BY <2>1, LenProperties, EmptySeq
  <2>3. \A i \in 1 .. Len(issued[b]) :
            issued[b][i].generation \in Nat /\ issued[b][i].generation <= generation
    BY <2>1, ElementOfSeq, GrantFields DEF Books, BudgetInv, Log
  <2>4. \A i \in 1 .. Len(issued[b]) :
            issued[b][i].generation <= generation' /\ issued[b][i].generation # generation'
    BY <1>2, <2>1, <2>3
  <2>5. Chain(<<>>, granted'[b])
    BY <2>2 DEF Chain, Chained, Ordered, EndsAt
  <2>6. Balanced(b)'
    BY <2>1, <2>2 DEF Balanced, Recovered
  <2>7. Log(<<>>, issued[b], generation', now')
    <3> DEFINE h == <<>>
    <3>1. Len(h) = 0
      BY <2>2
    <3> HIDE DEF h
    <3>2. Log(h, issued[b], generation', now')
      BY <2>2, <2>4, <3>1 DEF Log
    <3> QED
      BY <3>2 DEF h
  <2>8. Within(issued[b], generation', Capacity(b)')
    BY <2>4 DEF Within
  <2> QED
    BY <2>1, <2>5, <2>6, <2>7, <2>8 DEF BudgetInv
<1> QED
  BY <1>3, <1>4 DEF Books

-----------------------------------------------------------------------------
(* The tasks: the time a caller sleeps until.                              *)

LEMMA LeastNatural ==
    ASSUME NEW S \in SUBSET Nat, S # {}
    PROVE  \E i \in S : \A j \in S : i <= j
<1>1. PICK i \in S : \A j \in S : ~ (<<j, i>> \in OpToRel(<, Nat))
  BY WFMin, NatLessThanWellFounded, Zenon
<1>2. \A j \in S : ~ (j < i)
  BY <1>1, Zenon DEF OpToRel
<1> QED
  BY <1>2

\* The wait is a time, whichever entry ends it.
LEMMA WaitTimeNat ==
    ASSUME NEW h \in Seq(Entry), NEW needed, NEW at \in Nat
    PROVE  WaitTime(h, needed, at) \in Nat
<1> DEFINE enough == {i \in 1 .. Len(h) : Recovered(h, i) >= needed}
           first == CHOOSE i \in enough : \A j \in enough : i <= j
<1>1. enough \in SUBSET Nat /\ \A i \in enough : i \in 1 .. Len(h)
  BY LenProperties
<1>2. CASE enough = {}
  BY <1>2, TimingAssumption DEF WaitTime
<1>3. CASE enough # {}
  <2>1. WaitTime(h, needed, at) = AtLeast(0, h[first].ts + Window + Padding - at)
    BY <1>3 DEF WaitTime
  <2> HIDE DEF enough
  <2>2. first \in enough
    BY <1>1, <1>3, LeastNatural
  <2> HIDE DEF first
  <2>3. h[first].ts \in Nat
    BY <1>1, <2>2, ElementOfSeq, EntryFields
  <2> QED
    BY <2>1, <2>3, TimingAssumption DEF AtLeast
<1> QED
  BY <1>2, <1>3

LEMMA SleepType ==
    ASSUME Books, NEW request \in RequestType, NEW at \in Nat,
           NEW n \in 0 .. Len(history[BudgetOf(request)])
    PROVE  Sleep(request, n, at) \in Asleep
<1> DEFINE b == BudgetOf(request)
           wait == WaitTime(Remaining(b, n), CostOf(request) - Refilled(b, n), at)
<1>1. b \in Budgets
  BY RequestFields
<1>2. history[b] \in Seq(Entry) /\ granted[b] \in Nat /\ generation \in Nat
  BY <1>1 DEF Books, Stores, Clock
<1>3. wait \in Nat
  BY <1>2, SuffixElements, WaitTimeNat DEF Remaining
<1>4. Sleep(request, n, at) =
          [state |-> "asleep", request |-> request, wake |-> at + AtLeast(MinSleep, wait),
           seen |-> granted[b], generation |-> generation]
  BY DEF Sleep
<1> HIDE DEF b, wait
<1>5. at + AtLeast(MinSleep, wait) \in Nat
  BY <1>3, TimingAssumption DEF AtLeast
<1> QED
  BY <1>2, <1>4, <1>5 DEF Asleep

\* A critical section keeps the books.
LEMMA SectionStep ==
    ASSUME Books, NEW request \in RequestType,
           NEW n \in 0 .. Len(history[BudgetOf(request)]), NEW at \in now .. now + MaxLag,
           now' = at, UNCHANGED <<setting, generation>>,
           \/ Consume(BudgetOf(request), n, CostOf(request), at)
           \/ Refill(BudgetOf(request), n)
    PROVE  Books'
<1>1. at \in Nat /\ now <= at
  BY TimingAssumption DEF Books, Clock
<1>2. BudgetOf(request) \in Budgets /\ CostOf(request) \in Nat
  BY RequestFields
<1>3. CASE Consume(BudgetOf(request), n, CostOf(request), at)
  BY <1>1, <1>2, <1>3, ConsumeStep
<1>4. CASE Refill(BudgetOf(request), n)
  BY <1>1, <1>2, <1>4, RefillStep
<1> QED
  BY <1>3, <1>4

LEMMA AttemptStep ==
    ASSUME IInv, NEW c \in Callers, NEW request \in RequestType, Attempt(c, request),
           calls' \in [Callers -> Nat]
    PROVE  IInv'
<1>1. PICK n \in 0 .. Len(history[BudgetOf(request)]), at \in now .. now + MaxLag :
          /\ now' = at
          /\ \/ /\ Consume(BudgetOf(request), n, CostOf(request), at)
                /\ task' = [task EXCEPT ![c] = Idle]
             \/ /\ Refill(BudgetOf(request), n)
                /\ Refilled(BudgetOf(request), n) < CostOf(request)
                /\ task' = [task EXCEPT ![c] = Sleep(request, n, at)]
          /\ UNCHANGED <<setting, generation>>
  BY Zenon DEF Attempt
<1>2. Books'
  BY <1>1, SectionStep DEF IInv
<1>3. at \in Nat
  BY TimingAssumption DEF IInv, Books, Clock
<1>4. Sleep(request, n, at) \in Asleep
  BY <1>3, SleepType DEF IInv
<1>5. task' \in [Callers -> {Idle} \cup Asleep]
  BY <1>1, <1>4 DEF IInv, Tasks
<1> QED
  BY <1>2, <1>5 DEF IInv, Tasks

-----------------------------------------------------------------------------
(* The theorems.                                                           *)

LEMMA InitEstablishes == Init => IInv
<1> SUFFICES ASSUME Init
             PROVE  IInv
  OBVIOUS
<1>1. <<>> \in Seq(Entry) /\ <<>> \in Seq(Grant) /\ Len(<<>>) = 0
  BY EmptySeq
<1>2. \A b \in Budgets : Initial[b].capacity \in Nat
  BY SettingsAssumption DEF SettingType
<1>3. Clock /\ Stores /\ Tasks
  BY <1>1, <1>2, SettingsAssumption DEF Init, Clock, Stores, Tasks
<1>4. ASSUME NEW b \in Budgets PROVE BudgetInv(b)
  <2> DEFINE h == <<>>
  <2>1. history[b] = h /\ issued[b] = h /\ Len(h) = 0
    BY <1>1 DEF Init
  <2>2. tokens[b] = Capacity(b) /\ Capacity(b) \in Nat
    BY <1>2 DEF Init, Capacity
  <2>3. EndsAt(h, granted[b])
    BY DEF EndsAt
  <2> HIDE DEF h
  <2>4. Chain(h, granted[b])
    BY <2>1, <2>3 DEF Chain, Chained, Ordered
  <2>5. Balanced(b)
    BY <2>1, <2>2 DEF Balanced, Recovered
  <2>6. Log(h, h, generation, now) /\ Within(h, generation, Capacity(b))
    BY <2>1 DEF Log, Within
  <2> QED
    BY <2>1, <2>4, <2>5, <2>6 DEF BudgetInv
<1> QED
  BY <1>3, <1>4 DEF IInv, Books

LEMMA NextPreserves == IInv /\ [Next]_vars => IInv'
<1> SUFFICES ASSUME IInv, [Next]_vars
             PROVE  IInv'
  OBVIOUS
<1>0. now \in Nat /\ now <= now /\ calls \in [Callers -> Nat]
  BY DEF IInv, Books, Clock, Tasks
<1>1. ASSUME NEW c \in Callers, NEW request \in Requests, Acquire(c, request)
      PROVE  IInv'
  <2>1. calls' \in [Callers -> Nat] /\ request \in RequestType
    BY <1>0, <1>1, RequestsAssumption DEF Acquire, Call
  <2>2. CASE Attempt(c, request)
    BY <2>1, <2>2, AttemptStep
  <2>3. CASE UNCHANGED <<now, setting, tokens, history, granted, task, generation, issued>>
    <3>1. Books'
      BY <1>0, <2>3, TimeStep DEF IInv
    <3> QED
      BY <2>1, <2>3, <3>1 DEF IInv, Tasks
  <2> QED
    BY <1>1, <2>2, <2>3 DEF Acquire
<1>2. ASSUME NEW c \in Callers, NEW request \in Requests, TryAcquire(c, request)
      PROVE  IInv'
  <2>1. calls' \in [Callers -> Nat] /\ request \in RequestType
    BY <1>0, <1>2, RequestsAssumption DEF TryAcquire, Call
  <2>2. UNCHANGED <<setting, task, generation>>
    BY <1>2 DEF TryAcquire
  <2>3. Books'
    <3>1. CASE Fits(request)
      <4>1. PICK n \in 0 .. Len(history[BudgetOf(request)]), at \in now .. now + MaxLag :
                /\ now' = at
                /\ \/ Consume(BudgetOf(request), n, CostOf(request), at)
                   \/ Refill(BudgetOf(request), n)
        BY <1>2, <3>1, Zenon DEF TryAcquire
      <4> QED
        BY <2>1, <2>2, <4>1, SectionStep DEF IInv
    <3>2. CASE ~Fits(request)
      <4>1. UNCHANGED <<now, tokens, history, granted, issued>>
        BY <1>2, <3>2 DEF TryAcquire
      <4> QED
        BY <1>0, <2>2, <4>1, TimeStep DEF IInv
    <3> QED
      BY <3>1, <3>2
  <2> QED
    BY <2>1, <2>2, <2>3 DEF IInv, Tasks
<1>3. ASSUME NEW c \in Callers, NEW request \in Requests, GetWaitTime(c, request)
      PROVE  IInv'
  <2>1. calls' \in [Callers -> Nat] /\ request \in RequestType
    BY <1>0, <1>3, RequestsAssumption DEF GetWaitTime, Call
  <2>2. PICK n \in 0 .. Len(history[BudgetOf(request)]) : Refill(BudgetOf(request), n)
    BY <1>3 DEF GetWaitTime
  <2>3. UNCHANGED <<now, setting, task, generation>>
    BY <1>3 DEF GetWaitTime
  <2>4. Books'
    BY <1>0, <2>1, <2>2, <2>3, RequestFields, RefillStep DEF IInv
  <2> QED
    BY <2>1, <2>3, <2>4 DEF IInv, Tasks
<1>4. ASSUME NEW c \in Callers, Wake(c)
      PROVE  IInv'
  <2>1. task[c].request \in RequestType
    BY <1>4 DEF Wake, IInv, Tasks, Asleep
  <2> QED
    BY <1>0, <1>4, <2>1, AttemptStep DEF Wake
<1>5. ASSUME NEW c \in Callers, Cancel(c)
      PROVE  IInv'
  <2>1. Books'
    BY <1>0, <1>5, TimeStep DEF Cancel, IInv
  <2> QED
    BY <1>5, <2>1 DEF Cancel, IInv, Tasks
<1>6. ASSUME NEW new \in Settings, Reconfigure(new)
      PROVE  IInv'
  <2>1. Books'
    BY <1>6, ReconfigureStep DEF IInv
  <2> QED
    BY <1>6, <2>1 DEF Reconfigure, IInv, Tasks
<1>7. CASE Tick
  <2>1. Books'
    BY <1>0, <1>7, TimeStep DEF Tick, IInv
  <2> QED
    BY <1>7, <2>1 DEF Tick, IInv, Tasks
<1>8. CASE UNCHANGED vars
  <2>1. Books'
    BY <1>0, <1>8, TimeStep DEF vars, IInv
  <2> QED
    BY <1>8, <2>1 DEF vars, IInv, Tasks
<1>9. CASE Finished
  BY <1>8, <1>9 DEF Finished
<1> QED
  BY <1>1, <1>2, <1>3, <1>4, <1>5, <1>6, <1>7, <1>8, <1>9 DEF Next, Operation

LEMMA Invariance == Spec => []IInv
BY InitEstablishes, NextPreserves, PTL DEF Spec

\* The state of the limiter is well typed; in particular no budget is ever
\* overdrawn (_consume runs only after _can_proceed, and a refill never adds
\* more than was taken).
THEOREM TypeCorrectness == Spec => []TypeOK
<1>1. IInv => TypeOK
  BY DEF IInv, Books, Clock, Stores, Tasks, TypeOK
<1> QED
  BY <1>1, Invariance, PTL

\* Tokens and unexpired grants add up to the capacity of their budget, in any
\* interleaving of the operations and with any reconfigurations.
THEOREM TokensConserved == Spec => []Conservation
<1>1. IInv => Conservation
  BY DEF IInv, Books, BudgetInv, Balanced, Conservation
<1> QED
  BY <1>1, Invariance, PTL

\* Grants of one configuration made less than a window apart never exceed the
\* capacity together, however the clock moves within a critical section.
THEOREM WindowBounded == Spec => []WindowBound
<1>1. IInv => WindowBound
  BY Zenon DEF IInv, Books, BudgetInv, Within, WindowBound
<1> QED
  BY <1>1, Invariance, PTL

-----------------------------------------------------------------------------
(* Histories in the order of their stamps.                                 *)

Timely(h, at) ==
    \A i, j \in 1 .. Len(h) : i <= j => h[i].ts <= h[j].ts /\ h[j].ts <= at

LEMMA TimelySuffix ==
    ASSUME NEW h \in Seq(Entry), NEW at \in Nat, Timely(h, at), NEW n \in 0 .. Len(h),
           NEW later \in Nat, at <= later
    PROVE  Timely(SubSeq(h, n + 1, Len(h)), later)
<1> DEFINE s == SubSeq(h, n + 1, Len(h))
<1>1. /\ Len(h) \in Nat /\ Len(s) = Len(h) - n
      /\ \A i \in 1 .. Len(s) : i + n \in 1 .. Len(h) /\ s[i] = h[i + n]
  BY SuffixElements, LenProperties
<1> HIDE DEF s
<1>2. ASSUME NEW i \in 1 .. Len(s), NEW j \in 1 .. Len(s), i <= j
      PROVE  s[i].ts <= s[j].ts /\ s[j].ts <= later
  <2>1. i + n \in 1 .. Len(h) /\ j + n \in 1 .. Len(h) /\ i + n <= j + n
    BY <1>1, <1>2
  <2>2. h[i + n].ts <= h[j + n].ts /\ h[j + n].ts <= at /\ h[j + n].ts \in Nat
    BY <2>1, ElementOfSeq, EntryFields DEF Timely
  <2> QED
    BY <1>1, <2>2
<1> QED
  BY <1>2 DEF Timely, s

LEMMA TimelyAppend ==
    ASSUME NEW h \in Seq(Entry), NEW at \in Nat, Timely(h, at), NEW e \in Entry, e.ts = at
    PROVE  Timely(Append(h, e), at)
<1> DEFINE a == Append(h, e)
<1>1. /\ Len(h) \in Nat /\ Len(a) = Len(h) + 1 /\ a[Len(h) + 1] = e
      /\ \A i \in 1 .. Len(h) : a[i] = h[i] /\ h[i].ts \in Nat
  BY AppendProperties, LenProperties, ElementOfSeq, EntryFields
<1> HIDE DEF a
<1>2. ASSUME NEW i \in 1 .. Len(a), NEW j \in 1 .. Len(a), i <= j
      PROVE  a[i].ts <= a[j].ts /\ a[j].ts <= at
  <2>1. CASE j \in 1 .. Len(h)
    BY <1>1, <1>2, <2>1 DEF Timely
  <2>2. CASE j = Len(h) + 1 /\ i \in 1 .. Len(h)
    <3>1. h[i].ts <= at
      BY <2>2 DEF Timely
    <3> QED
      BY <1>1, <2>2, <3>1
  <2>3. CASE j = Len(h) + 1 /\ i = Len(h) + 1
    BY <1>1, <2>3
  <2> QED
    BY <1>1, <2>1, <2>2, <2>3
<1> QED
  BY <1>2 DEF Timely, a

-----------------------------------------------------------------------------
(* What a refill returns.                                                  *)

\* A refill returns exactly what it pops.
LEMMA RefilledSum ==
    ASSUME Books, NEW b \in Budgets, NEW n \in 0 .. Len(history[b])
    PROVE  Refilled(b, n) = tokens[b] + Recovered(history[b], n)
<1> DEFINE h == history[b]
           s == SubSeq(h, n + 1, Len(h))
<1>1. /\ h \in Seq(Entry) /\ tokens[b] \in Nat /\ Capacity(b) \in Nat
      /\ Chain(h, granted[b]) /\ tokens[b] + Recovered(h, Len(h)) = Capacity(b)
  BY CapacityNat DEF Books, Stores, BudgetInv, Balanced
<1>2. s \in Seq(Entry) /\ Len(s) \in 0 .. Len(s) /\ Chain(s, granted[b])
  BY <1>1, SuffixElements, SuffixChain, LenProperties
<1>3. /\ Recovered(h, n) \in Nat /\ Recovered(s, Len(s)) \in Nat
      /\ Recovered(h, Len(h)) = Recovered(h, n) + Recovered(s, Len(s))
  BY <1>1, <1>2, RecoveredNat, RecoveredSplit DEF Chain
<1> HIDE DEF s, h
<1> QED
  BY <1>1, <1>3 DEF Refilled, AtMost, h

-----------------------------------------------------------------------------
(* What a sleeper waits for: entries that have expired when it wakes, and  *)
(* that together with the tokens in hand make up its cost.                 *)

Awaited(cost, wake, h, held) ==
    \E k \in 0 .. Len(h) :
        /\ \A i \in 1 .. k : h[i].ts + Window <= wake
        /\ held + Recovered(h, k) >= cost

\* It is not lost by a refill.
LEMMA AwaitedSuffix ==
    ASSUME NEW h \in Seq(Entry), NEW total, Chain(h, total), NEW n \in 0 .. Len(h),
           NEW cost \in Nat, NEW wake \in Nat, NEW held \in Nat, Awaited(cost, wake, h, held)
    PROVE  Awaited(cost, wake, SubSeq(h, n + 1, Len(h)), held + Recovered(h, n))
<1> DEFINE s == SubSeq(h, n + 1, Len(h))
<1>1. /\ Len(h) \in Nat /\ s \in Seq(Entry) /\ Len(s) = Len(h) - n /\ Len(s) \in Nat
      /\ \A i \in 1 .. Len(s) : i + n \in 1 .. Len(h) /\ s[i] = h[i + n]
  BY SuffixElements, LenProperties
<1>2. PICK k \in 0 .. Len(h) : /\ \A i \in 1 .. k : h[i].ts + Window <= wake
                              /\ held + Recovered(h, k) >= cost
  BY DEF Awaited
<1>3. Recovered(h, n) \in Nat /\ Recovered(h, k) \in Nat
  BY RecoveredNat DEF Chain
<1>4. CASE k <= n
  <2>1. Recovered(h, k) <= Recovered(h, n)
    <3> DEFINE t == SubSeq(h, k + 1, Len(h))
    <3>1. n \in k .. Len(h)
      BY <1>1, <1>4
    <3>2. Recovered(h, n) = Recovered(h, k) + Recovered(t, n - k)
      BY <3>1, RecoveredPart DEF Chain
    <3>3. t \in Seq(Entry) /\ Chain(t, total) /\ Len(t) = Len(h) - k
      BY SuffixElements, SuffixChain
    <3> HIDE DEF t
    <3>4. n - k \in 0 .. Len(t)
      BY <1>1, <3>1, <3>3
    <3>5. Recovered(t, n - k) \in Nat
      BY <3>3, <3>4, RecoveredNat DEF Chain
    <3> QED
      BY <1>3, <3>2, <3>5
  <2>2. Recovered(s, 0) = 0
    BY DEF Recovered
  <2>3. 0 \in 0 .. Len(s) /\ (held + Recovered(h, n)) + Recovered(s, 0) >= cost
    BY <1>1, <1>2, <1>3, <2>1, <2>2
  <2> HIDE DEF s
  <2> QED
    BY <2>3 DEF Awaited, s
<1>5. CASE k > n
  <2>1. k \in n .. Len(h) /\ k - n \in 0 .. Len(s)
    BY <1>1, <1>5
  <2>2. Recovered(h, k) = Recovered(h, n) + Recovered(s, k - n)
    BY <2>1, RecoveredPart DEF Chain
  <2>3. Recovered(s, k - n) \in Nat
    BY <1>1, <2>1, SuffixChain, RecoveredNat DEF Chain
  <2> HIDE DEF s
  <2>4. ASSUME NEW i \in 1 .. k - n PROVE s[i].ts + Window <= wake
    <3>1. i \in 1 .. Len(s) /\ i + n \in 1 .. k
      BY <1>1, <2>1
    <3> QED
      BY <1>1, <1>2, <3>1
  <2>5. (held + Recovered(h, n)) + Recovered(s, k - n) >= cost
    BY <1>2, <1>3, <2>2, <2>3
  <2> QED
    BY <2>1, <2>4, <2>5 DEF Awaited, s
<1> QED
  BY <1>1, <1>4, <1>5

\* Nor by an entry that is added behind.
LEMMA AwaitedAppend ==
    ASSUME NEW h \in Seq(Entry), NEW e \in Entry,
           NEW cost, NEW wake, NEW held, Awaited(cost, wake, h, held)
    PROVE  Awaited(cost, wake, Append(h, e), held)
<1> DEFINE a == Append(h, e)
<1>1. /\ Len(h) \in Nat /\ Len(a) = Len(h) + 1
      /\ \A i \in 1 .. Len(h) : a[i] = h[i]
  BY AppendProperties, LenProperties
<1>2. PICK k \in 0 .. Len(h) : /\ \A i \in 1 .. k : h[i].ts + Window <= wake
                              /\ held + Recovered(h, k) >= cost
  BY DEF Awaited
<1> HIDE DEF a
<1>3. k \in 0 .. Len(a) /\ \A i \in 1 .. k : a[i] = h[i]
  BY <1>1
<1>4. Recovered(a, k) = Recovered(h, k)
  <2>1. k # 0 => k \in 1 .. k /\ 1 \in 1 .. k
    OBVIOUS
  <2> QED
    BY <1>3, <2>1 DEF Recovered
<1> QED
  BY <1>2, <1>3, <1>4 DEF Awaited, a

-----------------------------------------------------------------------------
(* The sleep.                                                              *)

Longest == AtLeast(MinSleep, Window + Padding)

\* The wait ends with an entry that is not from the future.
LEMMA WaitTimeBound ==
    ASSUME NEW h \in Seq(Entry), NEW needed, NEW at \in Nat, Timely(h, at)
    PROVE  WaitTime(h, needed, at) <= Window + Padding
<1> DEFINE enough == {i \in 1 .. Len(h) : Recovered(h, i) >= needed}
           first == CHOOSE i \in enough : \A j \in enough : i <= j
<1>1. enough \in SUBSET Nat /\ \A i \in enough : i \in 1 .. Len(h)
  BY LenProperties
<1>2. CASE enough = {}
  BY <1>2, TimingAssumption DEF WaitTime
<1>3. CASE enough # {}
  <2>1. WaitTime(h, needed, at) = AtLeast(0, h[first].ts + Window + Padding - at)
    BY <1>3 DEF WaitTime
  <2> HIDE DEF enough
  <2>2. first \in enough
    BY <1>1, <1>3, LeastNatural
  <2> HIDE DEF first
  <2>3. first \in 1 .. Len(h) /\ first <= first
    BY <1>1, <2>2
  <2>4. h[first].ts \in Nat /\ h[first].ts <= at
    BY <2>3, ElementOfSeq, EntryFields DEF Timely
  <2> QED
    BY <2>1, <2>4, TimingAssumption DEF AtLeast
<1> QED
  BY <1>2, <1>3

\* When it ends, the entry and all before it have expired.
LEMMA WaitTimeReaches ==
    ASSUME NEW h \in Seq(Entry), NEW needed, NEW at \in Nat, Timely(h, at),
           NEW last \in 1 .. Len(h), Recovered(h, last) >= needed
    PROVE  \E k \in 1 .. Len(h) :
               /\ Recovered(h, k) >= needed
               /\ \A i \in 1 .. k : h[i].ts + Window <= at + WaitTime(h, needed, at)
<1> DEFINE enough == {i \in 1 .. Len(h) : Recovered(h, i) >= needed}
           first == CHOOSE i \in enough : \A j \in enough : i <= j
<1>1. enough \in SUBSET Nat /\ \A i \in enough : i \in 1 .. Len(h)
  BY LenProperties
<1>2. enough # {}
  OBVIOUS
<1>3. WaitTime(h, needed, at) = AtLeast(0, h[first].ts + Window + Padding - at)
  BY <1>2 DEF WaitTime
<1>4. \A i \in enough : Recovered(h, i) >= needed
  OBVIOUS
<1> HIDE DEF enough
<1>5. first \in enough
  BY <1>1, <1>2, LeastNatural
<1> HIDE DEF first
<1>6. first \in 1 .. Len(h) /\ Recovered(h, first) >= needed
  BY <1>1, <1>4, <1>5
<1>7. h[first].ts \in Nat
  BY <1>6, ElementOfSeq, EntryFields
<1>8. h[first].ts + Window <= at + WaitTime(h, needed, at)
  BY <1>3, <1>7, TimingAssumption, SMTT(40) DEF AtLeast
<1>9. WaitTime(h, needed, at) \in Nat
  BY WaitTimeNat
<1>10. ASSUME NEW i \in 1 .. first PROVE h[i].ts + Window <= at + WaitTime(h, needed, at)
  <2>1. i \in 1 .. Len(h) /\ i <= first
    BY <1>6, LenProperties
  <2>2. h[i].ts <= h[first].ts /\ h[i].ts \in Nat
    BY <1>6, <2>1, ElementOfSeq, EntryFields DEF Timely
  <2> DEFINE x == h[i].ts
             y == h[first].ts
             wait == WaitTime(h, needed, at)
  <2>3. x \in Nat /\ y \in Nat /\ wait \in Nat /\ x <= y /\ y + Window <= at + wait
    BY <1>7, <1>8, <1>9, <2>2
  <2> HIDE DEF x, y, wait
  <2>4. x + Window <= at + wait
    BY <2>3, TimingAssumption
  <2> QED
    BY <2>4 DEF x, wait
<1> QED
  BY <1>6, <1>10

-----------------------------------------------------------------------------
(* The invariant.                                                          *)

Orderly == \A b \in Budgets : Timely(history[b], now)

\* What is true of a sleeper.
Waiter(c) ==
    LET b == BudgetOf(task[c].request) IN
    /\ task[c].wake <= now + Longest
    /\ task[c].seen <= granted[b]
    /\ task[c].generation <= generation
    /\ (/\ Fits(task[c].request)
        /\ task[c].seen = granted[b]
        /\ task[c].generation = generation)
           => Awaited(CostOf(task[c].request), task[c].wake, history[b], tokens[b])

Waiters == \A c \in Callers : task[c] # Idle => Waiter(c)

WInv == IInv /\ Orderly /\ Waiters

LEMMA LongestNat == Longest \in Nat
BY TimingAssumption DEF Longest, AtLeast

LEMMA AsleepFields ==
    ASSUME IInv, NEW c \in Callers, task[c] # Idle
    PROVE  /\ task[c].request \in RequestType /\ task[c].wake \in Nat
           /\ task[c].seen \in Nat /\ task[c].generation \in Nat
           /\ BudgetOf(task[c].request) \in Budgets /\ CostOf(task[c].request) \in Nat
<1>1. task[c] \in Asleep
  BY DEF IInv, Tasks
<1> QED
  BY <1>1, RequestFields DEF Asleep

\* What a critical section does to its budget.
Section(b, n, at) ==
    \/ Refill(b, n)
    \/ \E cost \in Nat : Consume(b, n, cost, at)

\* The histories stay in order.
LEMMA OrderlyStep ==
    ASSUME IInv, Orderly, NEW b \in Budgets, NEW n \in 0 .. Len(history[b]),
           NEW at \in Nat, now <= at, now' = at, Section(b, n, at)
    PROVE  Orderly'
<1>1. now \in Nat /\ history \in [Budgets -> Seq(Entry)] /\ granted \in [Budgets -> Nat]
  BY DEF IInv, Books, Clock, Stores
<1>2. Remaining(b, n) \in Seq(Entry) /\ Timely(Remaining(b, n), at)
  BY <1>1, TimelySuffix, SuffixElements DEF Orderly, Remaining
<1>3. ASSUME NEW x \in Budgets, history'[x] = history[x] PROVE Timely(history'[x], at)
  <2>1. history[x] \in Seq(Entry) /\ Timely(history[x], now)
    BY <1>1 DEF Orderly
  <2>2. Timely(SubSeq(history[x], 0 + 1, Len(history[x])), at) /\ 0 + 1 = 1
    BY <1>1, <2>1, TimelySuffix, LenProperties
  <2> QED
    BY <1>3, <2>1, <2>2, SubSeqFull
<1>4. CASE Refill(b, n)
  BY <1>1, <1>2, <1>3, <1>4 DEF Refill, Orderly
<1>5. ASSUME NEW cost \in Nat, Consume(b, n, cost, at) PROVE Orderly'
  <2> DEFINE e == [ts |-> at, cost |-> cost, upto |-> granted[b] + cost]
  <2>1. e \in Entry /\ e.ts = at
    BY <1>1 DEF Entry
  <2>2. history' = [history EXCEPT ![b] = Append(Remaining(b, n), e)]
    BY <1>5 DEF Consume
  <2> HIDE DEF e
  <2>3. Timely(Append(Remaining(b, n), e), at)
    BY <1>2, <2>1, TimelyAppend
  <2> QED
    BY <1>1, <1>3, <2>2, <2>3 DEF Orderly
<1> QED
  BY <1>4, <1>5 DEF Section

\* A critical section does not shorten what another caller waits for.
LEMMA WaiterKept ==
    ASSUME IInv, NEW c \in Callers, task[c] # Idle, Waiter(c), task'[c] = task[c],
           UNCHANGED <<setting, generation>>,
           NEW b \in Budgets, NEW n \in 0 .. Len(history[b]),
           NEW at \in Nat, now <= at, now' = at, Section(b, n, at)
    PROVE  Waiter(c)'
<1> DEFINE request == task[c].request
           x == BudgetOf(request)
           r == Remaining(b, n)
<1>1. /\ request \in RequestType /\ task[c].wake \in Nat /\ task[c].seen \in Nat
      /\ task[c].generation \in Nat /\ x \in Budgets /\ CostOf(request) \in Nat
  BY AsleepFields
<1>2. /\ now \in Nat /\ generation \in Nat /\ granted[x] \in Nat /\ granted[b] \in Nat
      /\ tokens[b] \in Nat /\ history[b] \in Seq(Entry) /\ Longest \in Nat
  BY <1>1, LongestNat DEF IInv, Books, Clock, Stores
<1>3. Chain(history[b], granted[b])
  BY DEF IInv, Books, BudgetInv
<1>4. /\ task[c].wake <= now + Longest
      /\ task[c].seen <= granted[x]
      /\ task[c].generation <= generation
      /\ Fits(request) /\ task[c].seen = granted[x] /\ task[c].generation = generation
             => Awaited(CostOf(request), task[c].wake, history[x], tokens[x])
  BY DEF Waiter
<1>5. Fits(request)' <=> Fits(request)
  BY DEF Fits, Capacity
<1>6. Awaited(CostOf(request), task[c].wake, history[b], tokens[b])
          => Awaited(CostOf(request), task[c].wake, r, Refilled(b, n))
  <2>1. Refilled(b, n) = tokens[b] + Recovered(history[b], n)
    BY RefilledSum DEF IInv
  <2> QED
    BY <1>1, <1>2, <1>3, <2>1, AwaitedSuffix DEF Remaining
<1>7. SUFFICES /\ task[c].seen <= granted'[x]
               /\ Fits(request) /\ task[c].seen = granted'[x] /\ task[c].generation = generation
                      => Awaited(CostOf(request), task[c].wake, history'[x], tokens'[x])
  <2>1. task[c].wake <= now' + Longest
    BY <1>1, <1>2, <1>4, SMTT(40)
  <2> QED
    BY <1>4, <1>5, <1>7, <2>1 DEF Waiter
<1>8. CASE Refill(b, n)
  <2>1. /\ tokens' = [tokens EXCEPT ![b] = Refilled(b, n)]
        /\ history' = [history EXCEPT ![b] = r] /\ granted' = granted
    BY <1>8 DEF Refill
  <2>2. CASE x = b
    BY <1>4, <1>6, <2>1, <2>2 DEF IInv, Books, Stores
  <2>3. CASE x # b
    BY <1>4, <2>1, <2>3
  <2> QED
    BY <2>2, <2>3
<1>9. ASSUME NEW cost \in Nat, Consume(b, n, cost, at)
      PROVE  /\ task[c].seen <= granted'[x]
             /\ Fits(request) /\ task[c].seen = granted'[x] /\ task[c].generation = generation
                    => Awaited(CostOf(request), task[c].wake, history'[x], tokens'[x])
  <2> DEFINE e == [ts |-> at, cost |-> cost, upto |-> granted[b] + cost]
  <2>1. e \in Entry
    BY <1>2 DEF Entry
  <2>2. /\ tokens' = [tokens EXCEPT ![b] = Refilled(b, n) - cost]
        /\ granted' = [granted EXCEPT ![b] = @ + cost]
        /\ history' = [history EXCEPT ![b] = Append(r, e)]
    BY <1>9 DEF Consume
  <2> HIDE DEF e
  <2>3. CASE x # b
    BY <1>4, <2>2, <2>3
  <2>4. CASE x = b
    <3>1. /\ granted'[x] = granted[x] + cost /\ history'[x] = Append(r, e)
          /\ tokens'[x] = Refilled(b, n) - cost
      BY <2>2, <2>4 DEF IInv, Books, Stores
    <3>2. task[c].seen <= granted'[x]
      BY <1>1, <1>2, <1>4, <3>1, SMTT(40)
    <3>3. ASSUME Fits(request), task[c].seen = granted'[x], task[c].generation = generation
          PROVE  Awaited(CostOf(request), task[c].wake, history'[x], tokens'[x])
      <4>1. cost = 0 /\ task[c].seen = granted[x]
        BY <1>1, <1>2, <1>4, <3>1, <3>3
      <4>2. Awaited(CostOf(request), task[c].wake, r, Refilled(b, n))
        BY <1>4, <1>6, <2>4, <3>3, <4>1
      <4>3. r \in Seq(Entry) /\ Refilled(b, n) \in Nat
        BY RefilledExact DEF IInv
      <4>4. tokens'[x] = Refilled(b, n)
        BY <3>1, <4>1, <4>3
      <4> QED
        BY <2>1, <3>1, <4>2, <4>3, <4>4, AwaitedAppend
    <3> QED
      BY <3>2, <3>3
  <2> QED
    BY <2>3, <2>4
<1> QED
  BY <1>8, <1>9 DEF Section

\* A sleep begins with the wait for enough entries.
LEMMA SleepWaits ==
    ASSUME IInv, Orderly, NEW c \in Callers, NEW request \in RequestType,
           NEW n \in 0 .. Len(history[BudgetOf(request)]), NEW at \in Nat,
           now <= at, now' = at, UNCHANGED <<setting, generation>>,
           Refill(BudgetOf(request), n), Refilled(BudgetOf(request), n) < CostOf(request),
           task'[c] = Sleep(request, n, at)
    PROVE  Waiter(c)'
<1> DEFINE b == BudgetOf(request)
           r == Remaining(b, n)
           held == Refilled(b, n)
           cost == CostOf(request)
           wait == WaitTime(r, cost - held, at)
<1>1. b \in Budgets /\ cost \in Nat
  BY RequestFields
<1>2. /\ now \in Nat /\ generation \in Nat /\ granted \in [Budgets -> Nat]
      /\ history \in [Budgets -> Seq(Entry)] /\ tokens \in [Budgets -> Nat]
  BY DEF IInv, Books, Clock, Stores
<1>3. /\ held \in Nat /\ r \in Seq(Entry) /\ Chain(r, granted[b])
      /\ held + Recovered(r, Len(r)) = Capacity(b)
  BY <1>1, RefilledExact DEF IInv
<1>4. Timely(r, at)
  BY <1>1, <1>2, TimelySuffix DEF Orderly, Remaining
<1>5. wait \in Nat /\ wait <= Window + Padding
  BY <1>3, <1>4, WaitTimeNat, WaitTimeBound
<1>6. /\ task'[c].request = request /\ task'[c].wake = at + AtLeast(MinSleep, wait)
      /\ task'[c].seen = granted[b] /\ task'[c].generation = generation
  BY DEF Sleep
<1>7. tokens'[b] = held /\ history'[b] = r /\ granted' = granted
  BY <1>1, <1>2 DEF Refill
<1>8. Fits(request)' => cost <= Capacity(b)
  BY DEF Fits, Capacity
<1>9. Recovered(r, 0) = 0 /\ Len(r) \in Nat
  BY <1>3, LenProperties DEF Recovered
<1>10. Capacity(b) \in Nat
  BY <1>1, CapacityNat DEF IInv, Books
<1>11. cost > held
  OBVIOUS
<1> HIDE DEF wait, held, cost, r, b
<1>12. at + AtLeast(MinSleep, wait) <= at + Longest /\ wait <= AtLeast(MinSleep, wait)
       /\ AtLeast(MinSleep, wait) \in Nat
  BY <1>5, TimingAssumption DEF AtLeast, Longest
<1>13. ASSUME cost <= Capacity(b)
       PROVE  Awaited(cost, at + AtLeast(MinSleep, wait), r, held)
  <2>1. Recovered(r, Len(r)) \in Nat
    BY <1>3, <1>9, RecoveredNat DEF Chain
  <2>2. Recovered(r, Len(r)) >= cost - held /\ Len(r) # 0
    BY <1>1, <1>3, <1>9, <1>10, <1>11, <1>13, <2>1
  <2>3. Len(r) \in 1 .. Len(r)
    BY <1>9, <2>2
  <2>4. PICK k \in 1 .. Len(r) :
            /\ Recovered(r, k) >= cost - held
            /\ \A i \in 1 .. k : r[i].ts + Window <= at + wait
    BY <1>3, <1>4, <2>2, <2>3, WaitTimeReaches DEF wait
  <2>5. k \in 0 .. Len(r) /\ Recovered(r, k) \in Nat
    BY <1>3, <1>9, RecoveredNat DEF Chain
  <2>6. held + Recovered(r, k) >= cost
    BY <1>1, <1>3, <2>4, <2>5
  <2>7. ASSUME NEW i \in 1 .. k PROVE r[i].ts + Window <= at + AtLeast(MinSleep, wait)
    <3>1. i \in 1 .. Len(r)
      BY <1>9
    <3>2. r[i].ts \in Nat
      BY <1>3, <3>1, ElementOfSeq, EntryFields
    <3>3. r[i].ts + Window <= at + wait
      BY <2>4
    <3>4. r[i].ts + Window \in Nat
      BY <3>2, TimingAssumption, SMTT(40)
    <3> QED
      BY <1>5, <1>12, <3>3, <3>4
  <2> QED
    BY <2>5, <2>6, <2>7 DEF Awaited
<1>14. granted[b] <= granted[b] /\ generation <= generation
  BY <1>1, <1>2
<1> QED
  BY <1>6, <1>7, <1>8, <1>12, <1>13, <1>14 DEF Waiter, b, cost

\* Time alone shortens nothing.
LEMMA TimeKeeps ==
    ASSUME WInv, now' \in Nat, now <= now',
           UNCHANGED <<setting, generation, tokens, history, granted>>
    PROVE  /\ Orderly'
           /\ \A c \in Callers : task[c] # Idle /\ task'[c] = task[c] => Waiter(c)'
<1>1. now \in Nat /\ history \in [Budgets -> Seq(Entry)]
  BY DEF WInv, IInv, Books, Clock, Stores
<1>2. ASSUME NEW b \in Budgets PROVE Timely(history[b], now')
  <2>1. history[b] \in Seq(Entry) /\ Timely(history[b], now)
    BY <1>1 DEF WInv, Orderly
  <2>2. Timely(SubSeq(history[b], 0 + 1, Len(history[b])), now') /\ 0 + 1 = 1
    BY <1>1, <2>1, TimelySuffix, LenProperties
  <2> QED
    BY <2>1, <2>2, SubSeqFull
<1>3. ASSUME NEW c \in Callers, task[c] # Idle, task'[c] = task[c] PROVE Waiter(c)'
  <2>1. Waiter(c) /\ task[c].wake \in Nat
    BY <1>3, AsleepFields DEF WInv, Waiters
  <2>2. task[c].wake <= now' + Longest
    BY <1>1, <2>1, LongestNat DEF Waiter
  <2>3. Fits(task[c].request)' <=> Fits(task[c].request)
    BY <1>3 DEF Fits, Capacity
  <2> QED
    BY <1>3, <2>1, <2>2, <2>3 DEF Waiter
<1> QED
  BY <1>2, <1>3 DEF Orderly

LEMMA AttemptKeeps ==
    ASSUME WInv, NEW c \in Callers, NEW request \in RequestType, Attempt(c, request)
    PROVE  Orderly' /\ Waiters'
<1> DEFINE b == BudgetOf(request)
<1>1. PICK n \in 0 .. Len(history[b]), at \in now .. now + MaxLag :
          /\ now' = at
          /\ \/ /\ Consume(b, n, CostOf(request), at)
                /\ task' = [task EXCEPT ![c] = Idle]
             \/ /\ Refill(b, n)
                /\ Refilled(b, n) < CostOf(request)
                /\ task' = [task EXCEPT ![c] = Sleep(request, n, at)]
          /\ UNCHANGED <<setting, generation>>
  BY Zenon DEF Attempt
<1>2. at \in Nat /\ now <= at /\ b \in Budgets /\ CostOf(request) \in Nat
  BY TimingAssumption, RequestFields DEF WInv, IInv, Books, Clock
<1>3. Section(b, n, at)
  BY <1>1, <1>2 DEF Section
<1>4. Orderly'
  BY <1>1, <1>2, <1>3, OrderlyStep DEF WInv
<1>5. ASSUME NEW d \in Callers, d # c, task'[d] # Idle PROVE Waiter(d)'
  <2>1. task'[d] = task[d]
    BY <1>1, <1>5 DEF WInv, IInv, Tasks
  <2> QED
    BY <1>1, <1>2, <1>3, <1>5, <2>1, WaiterKept DEF WInv, Waiters
<1>6. ASSUME task'[c] # Idle PROVE Waiter(c)'
  <2>1. task \in [Callers -> {Idle} \cup Asleep]
    BY DEF WInv, IInv, Tasks
  <2>2. /\ Refill(b, n) /\ Refilled(b, n) < CostOf(request)
        /\ task'[c] = Sleep(request, n, at)
    BY <1>1, <1>6, <2>1
  <2> QED
    BY <1>1, <1>2, <2>2, SleepWaits DEF WInv
<1> QED
  BY <1>4, <1>5, <1>6 DEF Waiters

LEMMA WInitEstablishes == Init => WInv
<1> SUFFICES ASSUME Init
             PROVE  WInv
  OBVIOUS
<1>1. ASSUME NEW b \in Budgets PROVE Timely(history[b], now)
  <2>1. Len(history[b]) = 0
    BY EmptySeq DEF Init
  <2> QED
    BY <2>1 DEF Timely
<1>2. Waiters
  BY DEF Init, Waiters
<1> QED
  BY <1>1, <1>2, InitEstablishes DEF WInv, Orderly

LEMMA WNextPreserves == WInv /\ [Next]_vars => WInv'
<1> SUFFICES ASSUME WInv, [Next]_vars
             PROVE  Orderly' /\ Waiters'
  BY NextPreserves DEF WInv
<1>0. now \in Nat /\ now <= now /\ IInv /\ task \in [Callers -> {Idle} \cup Asleep]
  BY DEF WInv, IInv, Books, Clock, Tasks
<1>1. ASSUME NEW c \in Callers, NEW request \in Requests, Acquire(c, request)
      PROVE  Orderly' /\ Waiters'
  <2>1. CASE Attempt(c, request)
    BY <2>1, AttemptKeeps, RequestsAssumption
  <2>2. CASE UNCHANGED <<now, setting, tokens, history, granted, task, generation, issued>>
    BY <1>0, <2>2, TimeKeeps DEF Waiters
  <2> QED
    BY <1>1, <2>1, <2>2 DEF Acquire
<1>2. ASSUME NEW c \in Callers, NEW request \in Requests, TryAcquire(c, request)
      PROVE  Orderly' /\ Waiters'
  <2>1. UNCHANGED <<setting, task, generation>>
    BY <1>2 DEF TryAcquire
  <2>2. CASE Fits(request)
    <3> DEFINE b == BudgetOf(request)
    <3>1. PICK n \in 0 .. Len(history[b]), at \in now .. now + MaxLag :
              now' = at /\ (Consume(b, n, CostOf(request), at) \/ Refill(b, n))
      BY <1>2, <2>2, Zenon DEF TryAcquire
    <3>2. /\ at \in Nat /\ now <= at /\ b \in Budgets /\ CostOf(request) \in Nat
      BY <1>0, TimingAssumption, RequestsAssumption, RequestFields
    <3>3. Section(b, n, at)
      BY <3>1, <3>2 DEF Section
    <3>4. Orderly'
      BY <1>0, <3>1, <3>2, <3>3, OrderlyStep DEF WInv
    <3>5. ASSUME NEW d \in Callers, task'[d] # Idle PROVE Waiter(d)'
      BY <1>0, <2>1, <3>1, <3>2, <3>3, <3>5, WaiterKept DEF WInv, Waiters
    <3> QED
      BY <3>4, <3>5 DEF Waiters
  <2>3. CASE ~Fits(request)
    <3>1. UNCHANGED <<now, tokens, history, granted, issued>>
      BY <1>2, <2>3 DEF TryAcquire
    <3> QED
      BY <1>0, <2>1, <3>1, TimeKeeps DEF Waiters
  <2> QED
    BY <2>2, <2>3
<1>3. ASSUME NEW c \in Callers, NEW request \in Requests, GetWaitTime(c, request)
      PROVE  Orderly' /\ Waiters'
  <2> DEFINE b == BudgetOf(request)
  <2>1. UNCHANGED <<now, setting, task, generation>> /\ b \in Budgets
    BY <1>3, RequestsAssumption, RequestFields DEF GetWaitTime
  <2>2. PICK n \in 0 .. Len(history[b]) : Refill(b, n)
    BY <1>3 DEF GetWaitTime
  <2>3. Section(b, n, now)
    BY <2>2 DEF Section
  <2>4. Orderly'
    BY <1>0, <2>1, <2>3, OrderlyStep DEF WInv
  <2>5. ASSUME NEW d \in Callers, task'[d] # Idle PROVE Waiter(d)'
    BY <1>0, <2>1, <2>3, <2>5, WaiterKept DEF WInv, Waiters
  <2> QED
    BY <2>4, <2>5 DEF Waiters
<1>4. ASSUME NEW c \in Callers, Wake(c)
      PROVE  Orderly' /\ Waiters'
  <2>1. task[c].request \in RequestType
    BY <1>0, <1>4, AsleepFields DEF Wake
  <2> QED
    BY <1>4, <2>1, AttemptKeeps DEF Wake
<1>5. ASSUME NEW c \in Callers, Cancel(c)
      PROVE  Orderly' /\ Waiters'
  <2>1. /\ UNCHANGED <<now, setting, tokens, history, granted, generation>>
        /\ task' = [task EXCEPT ![c] = Idle]
    BY <1>5 DEF Cancel
  <2>2. \A d \in Callers : task'[d] # Idle => task'[d] = task[d] /\ task[d] # Idle
    BY <1>0, <2>1
  <2> QED
    BY <1>0, <2>1, <2>2, TimeKeeps DEF Waiters
<1>6. ASSUME NEW new \in Settings, Reconfigure(new)
      PROVE  Orderly' /\ Waiters'
  <2>1. /\ history' = [b \in Budgets |-> <<>>] /\ generation' = generation + 1
        /\ UNCHANGED <<now, granted, task>>
    BY <1>6 DEF Reconfigure
  <2>2. ASSUME NEW b \in Budgets PROVE Timely(history'[b], now')
    <3>1. Len(history'[b]) = 0
      BY <2>1, EmptySeq
    <3> QED
      BY <3>1 DEF Timely
  <2>3. ASSUME NEW d \in Callers, task'[d] # Idle PROVE Waiter(d)'
    <3>1. Waiter(d) /\ task[d].generation \in Nat /\ generation \in Nat
      BY <1>0, <2>1, <2>3, AsleepFields DEF WInv, Waiters, IInv, Books, Clock
    <3>2. task[d].generation <= generation' /\ task[d].generation # generation'
      BY <2>1, <3>1 DEF Waiter
    <3> QED
      BY <2>1, <3>1, <3>2 DEF Waiter
  <2> QED
    BY <2>2, <2>3 DEF Orderly, Waiters
<1>7. CASE Tick
  <2>1. now' = now + 1 /\ UNCHANGED <<setting, tokens, history, granted, task, generation>>
    BY <1>7 DEF Tick
  <2>2. now' \in Nat /\ now <= now'
    BY <1>0, <2>1
  <2> QED
    BY <2>1, <2>2, TimeKeeps DEF Waiters
<1>8. CASE UNCHANGED vars
  BY <1>0, <1>8, TimeKeeps DEF vars, Waiters
<1>9. CASE Finished
  BY <1>8, <1>9 DEF Finished
<1> QED
  BY <1>1, <1>2, <1>3, <1>4, <1>5, <1>6, <1>7, <1>8, <1>9 DEF Next, Operation

LEMMA WInvariance == Spec => []WInv
BY WInitEstablishes, WNextPreserves, PTL DEF Spec

-----------------------------------------------------------------------------
(* The theorems.                                                           *)

\* No sleep of acquire is longer than a window and its padding, or the floor of a
\* sleep, whatever the histories hold (_calculate_wait_time).
THEOREM SleepsAreBounded == Spec => []NoOversleep
<1>1. WInv => NoOversleep
  BY DEF WInv, Waiters, Waiter, NoOversleep, Longest
<1> QED
  BY <1>1, WInvariance, PTL

\* A caller that wakes when nobody else was granted anything meanwhile gets its
\* tokens: refills by others, cancellations and reconfigurations of the past do not
\* make its sleep too short (acquire, _calculate_wait_time).
THEOREM SleepsSuffice == Spec => []WaitSuffices
<1>1. ASSUME WInv, NEW c \in Callers, task[c] # Idle
      PROVE  LET b == BudgetOf(task[c].request) IN
             (/\ now >= task[c].wake
              /\ Fits(task[c].request)
              /\ task[c].seen = granted[b]
              /\ task[c].generation = generation)
                 => \A n \in 0 .. Len(history[b]) :
                        Pops(b, n) => Refilled(b, n) >= CostOf(task[c].request)
  <2> DEFINE b == BudgetOf(task[c].request)
             h == history[b]
             cost == CostOf(task[c].request)
  <2> SUFFICES ASSUME now >= task[c].wake, Fits(task[c].request),
                      task[c].seen = granted[b], task[c].generation = generation,
                      NEW n \in 0 .. Len(history[b]), Pops(b, n)
               PROVE  Refilled(b, n) >= cost
    OBVIOUS
  <2>1. b \in Budgets /\ cost \in Nat /\ task[c].wake \in Nat
    BY <1>1, AsleepFields DEF WInv
  <2>2. /\ now \in Nat /\ h \in Seq(Entry) /\ Len(h) \in Nat /\ tokens[b] \in Nat
        /\ Chain(h, granted[b])
    BY <1>1, <2>1, LenProperties DEF WInv, IInv, Books, Clock, Stores, BudgetInv
  <2>3. Awaited(cost, task[c].wake, h, tokens[b])
    BY <1>1 DEF WInv, Waiters, Waiter
  <2>4. PICK k \in 0 .. Len(h) : /\ \A i \in 1 .. k : h[i].ts + Window <= task[c].wake
                                /\ tokens[b] + Recovered(h, k) >= cost
    BY <2>3 DEF Awaited
  <2>5. Refilled(b, n) = tokens[b] + Recovered(h, n)
    BY <1>1, <2>1, RefilledSum DEF WInv, IInv
  <2>6. k <= n
    <3> SUFFICES ASSUME n < k
                 PROVE  FALSE
      BY <2>2
    <3>1. n + 1 \in 1 .. k /\ n + 1 \in 1 .. Len(h) /\ n < Len(h)
      BY <2>2
    <3>2. h[n + 1].ts + Window <= task[c].wake /\ h[n + 1].ts \in Nat
      BY <2>2, <2>4, <3>1, ElementOfSeq, EntryFields
    <3>3. h[n + 1].ts > now - Window
      BY <3>1 DEF Pops
    <3> QED
      BY <2>1, <2>2, <3>2, <3>3, TimingAssumption, SMTT(40)
  <2>7. Recovered(h, k) <= Recovered(h, n)
    <3> DEFINE t == SubSeq(h, k + 1, Len(h))
    <3>1. n \in k .. Len(h)
      BY <2>2, <2>6
    <3>2. Recovered(h, n) = Recovered(h, k) + Recovered(t, n - k)
      BY <2>2, <3>1, RecoveredPart DEF Chain
    <3>3. t \in Seq(Entry) /\ Chain(t, granted[b]) /\ Len(t) = Len(h) - k
      BY <2>2, SuffixElements, SuffixChain
    <3> HIDE DEF t
    <3>4. n - k \in 0 .. Len(t)
      BY <2>2, <3>1, <3>3
    <3>5. Recovered(t, n - k) \in Nat /\ Recovered(h, k) \in Nat
      BY <2>2, <3>3, <3>4, RecoveredNat DEF Chain
    <3> QED
      BY <3>2, <3>5
  <2>8. Recovered(h, k) \in Nat /\ Recovered(h, n) \in Nat
    BY <2>2, RecoveredNat DEF Chain
  <2> QED
    BY <2>1, <2>2, <2>4, <2>5, <2>7, <2>8
<1>2. WInv => WaitSuffices
  BY <1>1, Zenon DEF WaitSuffices
<1> QED
  BY <1>2, WInvariance, PTL

-----------------------------------------------------------------------------
(* Sums.                                                                   *)

LEMMA SetInduction ==
    ASSUME NEW S \in SUBSET Nat, 0 \in S, \A n \in S : n + 1 \in S
    PROVE  \A n \in Nat : n \in S
<1> SUFFICES ASSUME Nat \ S # {}
             PROVE  FALSE
  OBVIOUS
<1>1. PICK i \in Nat \ S : \A j \in Nat \ S : i <= j
  BY LeastNatural
<1>2. i - 1 \in Nat /\ i - 1 \notin Nat \ S
  BY <1>1
<1>3. (i - 1) + 1 \in S
  BY <1>2
<1> QED
  BY <1>1, <1>3

\* A function that adds up a sequence ends in its total.
LEMMA TotalIs ==
    ASSUME NEW s, NEW k \in Nat, Len(s) = k, NEW g \in [0 .. k -> Int],
           g[0] = 0, \A n \in 1 .. k : g[n] = g[n - 1] + s[n]
    PROVE  Abstract!Total(s) = g[k]
<1> DEFINE Adds(f) == f = [n \in 0 .. k |-> IF n = 0 THEN 0 ELSE f[n - 1] + s[n]]
           sum == CHOOSE f : Adds(f)
<1>1. Abstract!Total(s) = sum[k]
  BY DEF Abstract!Total
<1>2. Adds(g)
  <2>1. ASSUME NEW n \in 0 .. k
        PROVE  g[n] = IF n = 0 THEN 0 ELSE g[n - 1] + s[n]
    OBVIOUS
  <2> QED
    BY <2>1
<1>3. Adds(sum)
  BY <1>2
<1> HIDE DEF sum
<1>4. /\ sum[0] = 0
      /\ \A n \in 1 .. k : sum[n] = sum[n - 1] + s[n]
  BY <1>3
<1> DEFINE S == {n \in Nat : n <= k => sum[n] = g[n]}
<1>5. 0 \in S
  BY <1>4
<1>6. ASSUME NEW n \in S PROVE n + 1 \in S
  <2> SUFFICES ASSUME n + 1 <= k PROVE sum[n + 1] = g[n + 1]
    OBVIOUS
  <2>1. n + 1 \in 1 .. k /\ (n + 1) - 1 = n /\ sum[n] = g[n]
    OBVIOUS
  <2> QED
    BY <1>4, <2>1
<1>7. \A n \in Nat : n \in S
  <2> HIDE DEF S
  <2>1. S \in SUBSET Nat
    BY DEF S
  <2> QED
    BY <1>5, <1>6, <2>1, SetInduction
<1> QED
  BY <1>1, <1>7

\* Each entry of a chain adds its cost to what is recovered.
LEMMA RecoveredNext ==
    ASSUME NEW h \in Seq(Entry), Chained(h), NEW n \in 1 .. Len(h)
    PROVE  Recovered(h, n) = Recovered(h, n - 1) + h[n].cost
<1>1. /\ Len(h) \in Nat
      /\ \A i \in 1 .. Len(h) : h[i].cost \in Nat /\ h[i].upto \in Nat
  BY LenProperties, ElementOfSeq, EntryFields
<1>2. CASE n = 1
  BY <1>1, <1>2 DEF Recovered
<1>3. CASE n > 1
  <2>1. n - 1 \in 1 .. Len(h) - 1 /\ (n - 1) + 1 = n
    BY <1>1, <1>3
  <2>2. h[n].upto = h[n - 1].upto + h[n].cost
    BY <2>1 DEF Chained
  <2> QED
    BY <1>1, <1>3, <2>1, <2>2 DEF Recovered
<1> QED
  BY <1>1, <1>2, <1>3

\* A chain recovers the sum of its costs.
LEMMA RecoveredIsSum ==
    ASSUME NEW h \in Seq(Entry), Chained(h), NEW n \in 0 .. Len(h)
    PROVE  Recovered(h, n) = Abstract!Total([i \in 1 .. n |-> h[i].cost])
<1> DEFINE s == [i \in 1 .. n |-> h[i].cost]
           g == [i \in 0 .. n |-> Recovered(h, i)]
<1>1. /\ Len(h) \in Nat /\ n \in Nat
      /\ \A i \in 1 .. Len(h) : h[i].cost \in Nat /\ h[i].upto \in Nat
  BY LenProperties, ElementOfSeq, EntryFields
<1>2. Len(s) = n
  BY <1>1
<1>3. g \in [0 .. n -> Int] /\ g[0] = 0
  <2>1. \A i \in 0 .. n : Recovered(h, i) \in Int
    BY <1>1 DEF Recovered
  <2>2. Recovered(h, 0) = 0
    BY DEF Recovered
  <2> QED
    BY <1>1, <2>1, <2>2
<1>4. ASSUME NEW i \in 1 .. n PROVE g[i] = g[i - 1] + s[i]
  <2>1. i \in 1 .. Len(h) /\ i - 1 \in 0 .. n /\ i \in 0 .. n
    BY <1>1
  <2> QED
    BY <2>1, RecoveredNext
<1>5. g[n] = Recovered(h, n)
  BY <1>1
<1> HIDE DEF s, g
<1>6. Abstract!Total(s) = g[n]
  BY <1>1, <1>2, <1>3, <1>4, TotalIs
<1> QED
  BY <1>5, <1>6 DEF s

-----------------------------------------------------------------------------
(* The load of a window.                                                   *)

\* What a refill leaves of a history is what was granted in the last window.
LEMMA LoadIsHistory ==
    ASSUME WInv, NEW b \in Budgets, NEW n \in 0 .. Len(history[b]), Pops(b, n)
    PROVE  Abstract!Load(b) = Recovered(Remaining(b, n), Len(Remaining(b, n)))
<1> DEFINE h == history[b]
           r == Remaining(b, n)
           log == issued[b]
           gs == [i \in 1 .. Len(log) |->
                     [ts |-> log[i].ts, cost |-> log[i].cost,
                      generation |-> log[i].generation]]
           d == Len(log) - Len(r)
           s == [i \in 1 .. Len(gs) |->
                    IF Abstract!Recent(gs[i]) THEN gs[i].cost ELSE 0]
           g == [i \in 0 .. Len(log) |-> IF i <= d THEN 0 ELSE Recovered(r, i - d)]
<1>1. /\ now \in Nat /\ generation \in Nat /\ h \in Seq(Entry) /\ log \in Seq(Grant)
      /\ Chain(h, granted[b]) /\ Log(h, log, generation, now) /\ Timely(h, now)
  BY DEF WInv, IInv, Books, Clock, Stores, BudgetInv, Orderly
<1>2. /\ \A i \in 1 .. n : h[i].ts <= now - Window
      /\ n < Len(h) => h[n + 1].ts > now - Window
  BY DEF Pops
<1>3. /\ r \in Seq(Entry) /\ Len(r) = Len(h) - n /\ Len(h) \in Nat /\ Len(r) \in Nat
      /\ \A i \in 1 .. Len(r) : i + n \in 1 .. Len(h) /\ r[i] = h[i + n]
  BY <1>1, SuffixElements, LenProperties DEF Remaining
<1>4. Chained(r)
  BY <1>1, SuffixChain DEF Remaining, Chain
<1>5. Log(r, log, generation, now)
  BY <1>1, <1>2, LogSuffix DEF Remaining
<1>6. Abstract!Load(b) = Abstract!Total(s)
  <2>1. Grants[b] = gs
    BY DEF Grants
  <2> QED
    BY <2>1 DEF Abstract!Load
<1>7. /\ Len(log) \in Nat /\ d \in Nat
      /\ Len(gs) = Len(log) /\ Len(s) = Len(log)
      /\ \A i \in 1 .. Len(log) : log[i] \in Grant
  <2>1. Len(log) \in Nat /\ \A i \in 1 .. Len(log) : log[i] \in Grant
    BY <1>1, LenProperties, ElementOfSeq
  <2>2. d \in Nat
    BY <1>3, <1>5, <2>1 DEF Log
  <2> QED
    BY <2>1, <2>2
<1>a. /\ r[1] \in Entry \/ Len(r) = 0
      /\ \A i \in 1 .. Len(log) :
             s[i] = IF log[i].generation = generation /\ log[i].ts > now - Window
                    THEN log[i].cost ELSE 0
  BY <1>3, <1>7, ElementOfSeq DEF Abstract!Recent
<1>b. g = [i \in 0 .. Len(log) |-> IF i <= d THEN 0 ELSE Recovered(r, i - d)]
  OBVIOUS
<1>c. d = Len(log) - Len(r)
  OBVIOUS
<1>d. Len(log) \in Nat /\ d \in Nat /\ Len(r) \in Nat /\ Len(log) = d + Len(r)
  <2> HIDE DEF gs, s, h, r, log
  <2> QED
    BY <1>3, <1>7
<1> HIDE DEF s, g, gs, d, r, h, log
<1>8. ASSUME NEW i \in 1 .. Len(log) PROVE s[i] = IF i <= d THEN 0 ELSE r[i - d].cost
  <2>1. /\ s[i] = IF log[i].generation = generation /\ log[i].ts > now - Window
                  THEN log[i].cost ELSE 0
        /\ log[i].ts \in Nat /\ log[i].generation \in Nat
    BY <1>7, <1>a, GrantFields
  <2>2. CASE i <= d
    <3>1. log[i].generation = generation => log[i].ts + Window <= now
      BY <1>5, <1>b, <1>d, <2>2 DEF Log
    <3> QED
      BY <1>1, <2>1, <2>2, <3>1, TimingAssumption
  <2>3. CASE i > d
    <3> DEFINE k == i - d
    <3>1. k \in 1 .. Len(r) /\ k + d = i
      BY <1>3, <1>b, <1>d, <2>3
    <3>2. Matches(r[k], log[i], generation)
      <4>1. k + (Len(log) - Len(r)) = i
        BY <1>c, <3>1
      <4> HIDE DEF k
      <4> QED
        BY <1>5, <3>1, <4>1 DEF Log
    <3>3. r[k].ts > now - Window
      <4>1. n + 1 \in 1 .. Len(h) /\ k + n \in 1 .. Len(h) /\ n + 1 <= k + n /\ n < Len(h)
        BY <1>3, <3>1
      <4>2. h[n + 1].ts <= h[k + n].ts /\ h[n + 1].ts \in Nat /\ h[k + n].ts \in Nat
        BY <1>1, <4>1, ElementOfSeq, EntryFields DEF Timely
      <4>3. r[k] = h[k + n]
        BY <1>3, <3>1
      <4> QED
        BY <1>1, <1>2, <4>1, <4>2, <4>3, TimingAssumption
    <3> QED
      BY <1>b, <1>d, <2>1, <2>3, <3>2, <3>3 DEF Matches
  <2> QED
    BY <1>b, <1>d, <2>2, <2>3
<1>9. g \in [0 .. Len(log) -> Int] /\ g[0] = 0
  <2>1. \A j \in 0 .. Len(r) : Recovered(r, j) \in Int
    <3>1. \A j \in 1 .. Len(r) : r[j].cost \in Nat /\ r[j].upto \in Nat
      BY <1>3, ElementOfSeq, EntryFields
    <3> QED
      BY <1>3, <3>1 DEF Recovered
  <2>2. \A i \in 0 .. Len(log) : ~ (i <= d) => i - d \in 0 .. Len(r)
    BY <1>3, <1>b, <1>d
  <2> QED
    BY <1>b, <1>d, <2>1, <2>2
<1>10. ASSUME NEW i \in 1 .. Len(log) PROVE g[i] = g[i - 1] + s[i]
  <2>1. i \in 0 .. Len(log) /\ i - 1 \in 0 .. Len(log)
    BY <1>b, <1>d
  <2>2. CASE i <= d
    <3>1. g[i] = 0 /\ g[i - 1] = 0 /\ s[i] = 0
      BY <1>b, <1>d, <1>8, <2>1, <2>2
    <3> QED
      BY <3>1
  <2>3. CASE i > d
    <3>1. i - d \in 1 .. Len(r) /\ (i - 1) - d = (i - d) - 1
      BY <1>3, <1>b, <1>d, <2>3
    <3>2. Recovered(r, i - d) = Recovered(r, (i - d) - 1) + r[i - d].cost
      BY <1>3, <1>4, <3>1, RecoveredNext
    <3>3. g[i] = Recovered(r, i - d) /\ s[i] = r[i - d].cost
      BY <1>b, <1>d, <1>8, <2>1, <2>3
    <3>4. g[i - 1] = Recovered(r, (i - d) - 1)
      <4>1. CASE i - 1 > d
        BY <1>b, <1>d, <2>1, <3>1, <4>1
      <4>2. CASE i - 1 = d
        <5>1. (i - d) - 1 = 0
          BY <1>b, <1>d, <4>2
        <5>2. g[i - 1] = 0
          BY <1>b, <1>d, <2>1, <4>2
        <5> QED
          BY <5>1, <5>2 DEF Recovered
      <4> QED
        BY <1>b, <1>d, <2>3, <4>1, <4>2
    <3> QED
      BY <3>2, <3>3, <3>4
  <2> QED
    BY <1>b, <1>d, <2>2, <2>3
<1>11. g[Len(log)] = Recovered(r, Len(r))
  <2>1. Len(log) \in 0 .. Len(log) /\ Len(log) - d = Len(r)
    BY <1>3, <1>b, <1>d
  <2>2. CASE Len(log) <= d
    <3>1. Len(r) = 0
      BY <1>d, <2>2
    <3>2. g[Len(log)] = 0
      BY <1>b, <1>d, <2>1, <2>2
    <3> QED
      BY <3>1, <3>2 DEF Recovered
  <2>3. CASE ~ (Len(log) <= d)
    BY <1>b, <2>1, <2>3
  <2> QED
    BY <2>2, <2>3
<1>12. Abstract!Total(s) = g[Len(log)]
  BY <1>7, <1>9, <1>10, TotalIs
<1> QED
  BY <1>6, <1>11, <1>12 DEF r

\* A refill leaves enough for a cost exactly if the window has room for it.
LEMMA RoomIsTokens ==
    ASSUME WInv, NEW b \in Budgets, NEW n \in 0 .. Len(history[b]), Pops(b, n),
           NEW cost \in Nat
    PROVE  Abstract!HasRoom(b, cost) <=> Refilled(b, n) >= cost
<1>1. /\ Refilled(b, n) \in Nat
      /\ Refilled(b, n) + Recovered(Remaining(b, n), Len(Remaining(b, n))) = Capacity(b)
      /\ Remaining(b, n) \in Seq(Entry) /\ Chain(Remaining(b, n), granted[b])
  BY RefilledExact DEF WInv, IInv
<1>2. Recovered(Remaining(b, n), Len(Remaining(b, n))) \in Nat
  <2>1. Len(Remaining(b, n)) \in 0 .. Len(Remaining(b, n))
    BY <1>1, LenProperties
  <2> QED
    BY <1>1, <2>1, RecoveredNat DEF Chain
<1>3. Limits[b] = Capacity(b)
  BY DEF Limits
<1> QED
  BY <1>1, <1>2, <1>3, LoadIsHistory DEF Abstract!HasRoom

-----------------------------------------------------------------------------
(* The abstract state after a step.                                        *)

\* What a caller sleeps for is one of the program's requests.
Requested == \A c \in Callers : task[c] # Idle => task[c].request \in Requests

RInv == WInv /\ Requested

LEMMA LimitsKept == UNCHANGED setting => UNCHANGED Limits
BY DEF Limits, Capacity

LEMMA GrantsKept == UNCHANGED issued => UNCHANGED Grants
BY DEF Grants

LEMMA WaitingKept == UNCHANGED task => UNCHANGED Waiting
BY DEF Waiting, Waits

\* A grant logged is a grant appended.
LEMMA GrantsGrow ==
    ASSUME issued \in [Budgets -> Seq(Grant)], NEW b \in Budgets, NEW at, NEW cost, NEW upto,
           issued' = [issued EXCEPT ![b] =
               Append(@, [ts |-> at, cost |-> cost, upto |-> upto,
                          generation |-> generation])]
    PROVE  Grants' = [Grants EXCEPT ![b] =
               Append(@, [ts |-> at, cost |-> cost, generation |-> generation])]
<1> DEFINE g == [ts |-> at, cost |-> cost, upto |-> upto, generation |-> generation]
           a == [ts |-> at, cost |-> cost, generation |-> generation]
           Seen(log) == [i \in 1 .. Len(log) |->
                            [ts |-> log[i].ts, cost |-> log[i].cost,
                             generation |-> log[i].generation]]
<1>1. Grants = [x \in Budgets |-> Seen(issued[x])]
  BY DEF Grants
<1>2. Grants' = [x \in Budgets |-> Seen(issued'[x])]
  BY DEF Grants
<1>3. ASSUME NEW log \in Seq(Grant) PROVE Seen(Append(log, g)) = Append(Seen(log), a)
  <2>1. Len(log) \in Nat /\ Len(Seen(log)) = Len(log)
    BY LenProperties
  <2>2. /\ Len(Append(log, g)) = Len(log) + 1
        /\ \A i \in 1 .. Len(log) + 1 : Append(log, g)[i] = IF i = Len(log) + 1 THEN g ELSE log[i]
    OBVIOUS
  <2>3. Append(Seen(log), a) =
            [i \in 1 .. Len(log) + 1 |-> IF i = Len(log) + 1 THEN a ELSE Seen(log)[i]]
    BY <2>1
  <2>4. ASSUME NEW i \in 1 .. Len(log) + 1
        PROVE  Seen(Append(log, g))[i] = IF i = Len(log) + 1 THEN a ELSE Seen(log)[i]
    <3>1. CASE i = Len(log) + 1
      BY <2>1, <2>2, <3>1
    <3>2. CASE i # Len(log) + 1
      <4>1. i \in 1 .. Len(log)
        BY <2>1, <3>2
      <4>2. Append(log, g)[i] = log[i]
        BY <2>2, <3>2
      <4> HIDE DEF g
      <4> QED
        BY <2>2, <3>2, <4>1, <4>2
    <3> QED
      BY <3>1, <3>2
  <2>5. Seen(Append(log, g)) =
            [i \in 1 .. Len(log) + 1 |-> Seen(Append(log, g))[i]]
    BY <2>2
  <2> HIDE DEF Seen, g, a
  <2> QED
    BY <2>3, <2>4, <2>5
<1>4. \A x \in Budgets : issued'[x] = IF x = b THEN Append(issued[x], g) ELSE issued[x]
  OBVIOUS
<1> HIDE DEF Seen, g, a
<1> QED
  BY <1>1, <1>2, <1>3, <1>4 DEF a

\* A caller that falls asleep waits, or still does.
LEMMA WaitingJoins ==
    ASSUME task \in [Callers -> {Idle} \cup Asleep], NEW c \in Callers, NEW sleep \in Asleep,
           task' = [task EXCEPT ![c] = sleep], task[c] # Idle => task[c].request = sleep.request
    PROVE  Waiting' =
               Waiting \cup {<<c, BudgetOf(sleep.request), CostOf(sleep.request)>>}
<1> DEFINE w == <<c, BudgetOf(sleep.request), CostOf(sleep.request)>>
<1>1. sleep # Idle
  BY DEF Asleep, Idle
<1>2. task'[c] = sleep /\ \A d \in Callers \ {c} : task'[d] = task[d]
  OBVIOUS
<1>3. Waits(c)' = w /\ \A d \in Callers \ {c} : Waits(d)' = Waits(d)
  BY <1>2 DEF Waits
<1>4. task[c] # Idle => Waits(c) = w
  BY DEF Waits
<1> HIDE DEF w
<1>5. ASSUME NEW x \in Waiting' PROVE x \in Waiting \cup {w}
  <2>1. PICK d \in Callers : task'[d] # Idle /\ x = Waits(d)'
    BY DEF Waiting
  <2> QED
    BY <1>2, <1>3, <2>1 DEF Waiting
<1>6. ASSUME NEW x \in Waiting \cup {w} PROVE x \in Waiting'
  <2>1. w \in Waiting'
    BY <1>1, <1>2, <1>3 DEF Waiting
  <2>2. ASSUME x \in Waiting PROVE x \in Waiting'
    <3>1. PICK d \in Callers : task[d] # Idle /\ x = Waits(d)
      BY <2>2 DEF Waiting
    <3>2. CASE d = c
      BY <1>4, <2>1, <3>1, <3>2
    <3>3. CASE d # c
      BY <1>2, <1>3, <3>1, <3>3 DEF Waiting
    <3> QED
      BY <3>2, <3>3
  <2> QED
    BY <2>1, <2>2
<1> QED
  BY <1>5, <1>6 DEF w

\* A caller that is served or gives up waits no more.
LEMMA WaitingLeaves ==
    ASSUME task \in [Callers -> {Idle} \cup Asleep], NEW c \in Callers, task[c] # Idle,
           task' = [task EXCEPT ![c] = Idle]
    PROVE  Waits(c) \in Waiting /\ Waiting' = Waiting \ {Waits(c)}
<1>1. task'[c] = Idle /\ \A d \in Callers \ {c} : task'[d] = task[d]
  OBVIOUS
<1>2. \A d \in Callers \ {c} : Waits(d)' = Waits(d) /\ Waits(d) # Waits(c)
  BY <1>1 DEF Waits
<1>3. ASSUME NEW x \in Waiting' PROVE x \in Waiting \ {Waits(c)}
  <2>1. PICK d \in Callers : task'[d] # Idle /\ x = Waits(d)'
    BY DEF Waiting
  <2> QED
    BY <1>1, <1>2, <2>1 DEF Waiting
<1>4. ASSUME NEW x \in Waiting \ {Waits(c)} PROVE x \in Waiting'
  <2>1. PICK d \in Callers : task[d] # Idle /\ x = Waits(d)
    BY DEF Waiting
  <2> QED
    BY <1>1, <1>2, <2>1 DEF Waiting
<1> QED
  BY <1>3, <1>4 DEF Waiting

-----------------------------------------------------------------------------
(* The steps.                                                              *)

\* A section that consumes grants in the window.
LEMMA ConsumeGrants ==
    ASSUME RInv, NEW request \in Requests, NEW at \in now .. now + MaxLag,
           NEW n \in 0 .. Len(history[BudgetOf(request)]),
           Consume(BudgetOf(request), n, CostOf(request), at),
           now' = at, UNCHANGED <<setting, generation>>,
           \/ UNCHANGED Waiting
           \/ \E c \in Callers :
                  LET w == <<c, BudgetOf(request), CostOf(request)>> IN
                  w \in Waiting /\ Waiting' = Waiting \ {w}
    PROVE  Abstract!Next
<1> DEFINE b == BudgetOf(request)
           cost == CostOf(request)
<1>1. b \in Budgets /\ cost \in Nat
  BY RequestsAssumption, RequestFields
<1>2. Abstract!HasRoom(b, cost)
  BY <1>1, RoomIsTokens DEF Consume, RInv
<1>3. Grants' = [Grants EXCEPT ![b] =
          Append(@, [ts |-> at, cost |-> cost, generation |-> generation])]
  <2>1. issued \in [Budgets -> Seq(Grant)]
    BY DEF RInv, WInv, IInv, Books, Stores
  <2> QED
    BY <1>1, <2>1, GrantsGrow DEF Consume
<1>4. Limits' = Limits
  BY LimitsKept
<1> HIDE DEF b, cost
<1>5. Abstract!Grant(b, cost, at)
  BY <1>2, <1>3, <1>4 DEF Abstract!Grant, b, cost
<1>6. cost \in {CostOf(r) : r \in Requests}
  BY DEF cost
<1> QED
  BY <1>1, <1>5, <1>6 DEF Abstract!Next

\* A section that puts its caller to sleep refuses in the window.
LEMMA SleepRefuses ==
    ASSUME RInv, NEW request \in Requests, NEW at \in now .. now + MaxLag,
           NEW n \in 0 .. Len(history[BudgetOf(request)]),
           Refill(BudgetOf(request), n), Refilled(BudgetOf(request), n) < CostOf(request),
           now' = at, UNCHANGED <<setting, generation>>, NEW c \in Callers,
           Waiting' = Waiting \cup {<<c, BudgetOf(request), CostOf(request)>>}
    PROVE  Abstract!Next
<1> DEFINE b == BudgetOf(request)
           cost == CostOf(request)
<1>1. b \in Budgets /\ cost \in Nat
  BY RequestsAssumption, RequestFields
<1>2. ~Abstract!HasRoom(b, cost)
  <2>1. Refilled(b, n) \in Nat
    BY <1>1, RefilledExact DEF RInv, WInv, IInv
  <2> QED
    BY <1>1, <2>1, RoomIsTokens DEF Refill, RInv
<1>3. Grants' = Grants /\ Limits' = Limits
  BY GrantsKept, LimitsKept DEF Refill
<1> HIDE DEF b, cost
<1>4. Abstract!Refuse(b, cost, at)
  BY <1>2, <1>3 DEF Abstract!Refuse, b, cost
<1>5. cost \in {CostOf(r) : r \in Requests}
  BY DEF cost
<1> QED
  BY <1>1, <1>4, <1>5 DEF Abstract!Next

\* Time that passes, whether or not it does, changes nothing else.
LEMMA TimePasses ==
    ASSUME now \in Nat, now' \in Nat, now <= now',
           UNCHANGED <<Limits, Grants, generation, Waiting>>
    PROVE  [Abstract!Next]_(Abstract!vars)
<1>1. CASE now' = now
  BY <1>1 DEF Abstract!vars
<1>2. CASE now' # now
  <2>1. Abstract!Pass
    BY <1>2 DEF Abstract!Pass
  <2> QED
    BY <2>1 DEF Abstract!Next
<1> QED
  BY <1>1, <1>2

\* One turn of acquire's loop is a grant or a refusal.
LEMMA AttemptMaps ==
    ASSUME RInv, NEW c \in Callers, NEW request \in Requests, Attempt(c, request),
           task[c] # Idle => task[c].request = request
    PROVE  Abstract!Next /\ Requested'
<1>0. now \in Nat /\ task \in [Callers -> {Idle} \cup Asleep] /\ request \in RequestType
  BY RequestsAssumption DEF RInv, WInv, IInv, Books, Clock, Tasks
<1>1. PICK n \in 0 .. Len(history[BudgetOf(request)]), at \in now .. now + MaxLag :
          /\ now' = at
          /\ \/ /\ Consume(BudgetOf(request), n, CostOf(request), at)
                /\ task' = [task EXCEPT ![c] = Idle]
             \/ /\ Refill(BudgetOf(request), n)
                /\ Refilled(BudgetOf(request), n) < CostOf(request)
                /\ task' = [task EXCEPT ![c] = Sleep(request, n, at)]
          /\ UNCHANGED <<setting, generation>>
  BY Zenon DEF Attempt
<1>2. CASE /\ Consume(BudgetOf(request), n, CostOf(request), at)
           /\ task' = [task EXCEPT ![c] = Idle]
  <2>1. \/ UNCHANGED Waiting
        \/ LET w == <<c, BudgetOf(request), CostOf(request)>> IN
           w \in Waiting /\ Waiting' = Waiting \ {w}
    <3>1. CASE task[c] = Idle
      <4>1. task' = task
        BY <1>0, <1>2, <3>1
      <4> QED
        BY <4>1, WaitingKept
    <3>2. CASE task[c] # Idle
      <4>1. Waits(c) = <<c, BudgetOf(request), CostOf(request)>>
        BY <3>2 DEF Waits
      <4> QED
        BY <1>0, <1>2, <3>2, <4>1, WaitingLeaves
    <3> QED
      BY <3>1, <3>2
  <2>2. Abstract!Next
    BY <1>1, <1>2, <2>1, ConsumeGrants
  <2>3. Requested'
    BY <1>0, <1>2 DEF RInv, Requested
  <2> QED
    BY <2>2, <2>3
<1>3. CASE /\ Refill(BudgetOf(request), n)
           /\ Refilled(BudgetOf(request), n) < CostOf(request)
           /\ task' = [task EXCEPT ![c] = Sleep(request, n, at)]
  <2>1. at \in Nat
    BY <1>0, TimingAssumption
  <2>2. Sleep(request, n, at) \in Asleep /\ Sleep(request, n, at).request = request
    BY <1>0, <2>1, SleepType DEF RInv, WInv, IInv, Sleep
  <2>3. Waiting' = Waiting \cup {<<c, BudgetOf(request), CostOf(request)>>}
    <3> DEFINE sleep == Sleep(request, n, at)
    <3>1. task' = [task EXCEPT ![c] = sleep] /\ sleep \in Asleep /\ sleep.request = request
      BY <1>3, <2>2
    <3> HIDE DEF sleep
    <3>2. Waiting' = Waiting \cup {<<c, BudgetOf(sleep.request), CostOf(sleep.request)>>}
      BY <1>0, <3>1, WaitingJoins
    <3> QED
      BY <3>1, <3>2
  <2>4. Abstract!Next
    BY <1>1, <1>3, <2>3, SleepRefuses
  <2>5. Requested'
    BY <1>0, <1>3, <2>2 DEF RInv, Requested
  <2> QED
    BY <2>4, <2>5
<1> QED
  BY <1>1, <1>2, <1>3

LEMMA InitMaps == Init => RInv /\ Abstract!Init
<1> SUFFICES ASSUME Init
             PROVE  RInv /\ Abstract!Init
  OBVIOUS
<1>1. RInv
  BY WInitEstablishes DEF RInv, Requested, Init
<1>2. Limits \in [Budgets -> Nat]
  BY SettingsAssumption DEF Init, Limits, Capacity, SettingType
<1>3. Grants = [b \in Budgets |-> <<>>]
  <2>1. ASSUME NEW b \in Budgets PROVE Grants[b] = <<>>
    <3>1. issued[b] = <<>> /\ Len(issued[b]) = 0
      BY DEF Init
    <3> QED
      BY <3>1 DEF Grants
  <2> QED
    BY <2>1 DEF Grants
<1>4. Waiting = {}
  BY DEF Init, Waiting
<1> QED
  BY <1>1, <1>2, <1>3, <1>4 DEF Init, Abstract!Init

LEMMA NextMaps == RInv /\ [Next]_vars => RInv' /\ [Abstract!Next]_(Abstract!vars)
<1> SUFFICES ASSUME RInv, [Next]_vars
             PROVE  Requested' /\ [Abstract!Next]_(Abstract!vars)
  BY WNextPreserves DEF RInv
<1>0. /\ now \in Nat /\ now <= now /\ task \in [Callers -> {Idle} \cup Asleep]
      /\ Requests \subseteq RequestType
  BY RequestsAssumption DEF RInv, WInv, IInv, Books, Clock, Tasks
<1> DEFINE Goal == Requested' /\ [Abstract!Next]_(Abstract!vars)
<1>1. ASSUME NEW c \in Callers, NEW request \in Requests, Acquire(c, request)
      PROVE  Goal
  <2>1. task[c] = Idle
    BY <1>1 DEF Acquire, Call
  <2>2. CASE Attempt(c, request)
    BY <2>1, <2>2, AttemptMaps
  <2>3. CASE UNCHANGED <<now, setting, tokens, history, granted, task, generation, issued>>
    <3>1. UNCHANGED <<Limits, Grants, Waiting>>
      BY <2>3, LimitsKept, GrantsKept, WaitingKept
    <3> QED
      BY <2>3, <3>1 DEF RInv, Requested, Abstract!vars
  <2> QED
    BY <1>1, <2>2, <2>3 DEF Acquire
<1>2. ASSUME NEW c \in Callers, NEW request \in Requests, TryAcquire(c, request)
      PROVE  Goal
  <2>1. UNCHANGED <<setting, task, generation>>
    BY <1>2 DEF TryAcquire
  <2>2. Requested' /\ UNCHANGED <<Limits, Waiting>>
    BY <2>1, LimitsKept, WaitingKept DEF RInv, Requested
  <2>3. CASE Fits(request)
    <3>1. PICK n \in 0 .. Len(history[BudgetOf(request)]), at \in now .. now + MaxLag :
              /\ now' = at
              /\ \/ Consume(BudgetOf(request), n, CostOf(request), at)
                 \/ Refill(BudgetOf(request), n)
      BY <1>2, <2>3, Zenon DEF TryAcquire
    <3>2. CASE Consume(BudgetOf(request), n, CostOf(request), at)
      <4>1. Abstract!Next
        BY <2>1, <2>2, <3>1, <3>2, ConsumeGrants
      <4> QED
        BY <2>2, <4>1
    <3>3. CASE Refill(BudgetOf(request), n)
      <4>1. now' \in Nat /\ now <= now'
        BY <1>0, <3>1, TimingAssumption
      <4>2. UNCHANGED Grants
        BY <3>3, GrantsKept DEF Refill
      <4> QED
        BY <1>0, <2>1, <2>2, <4>1, <4>2, TimePasses
    <3> QED
      BY <3>1, <3>2, <3>3
  <2>4. CASE ~Fits(request)
    <3>1. UNCHANGED <<now, Grants>>
      BY <1>2, <2>4, GrantsKept DEF TryAcquire
    <3> QED
      BY <2>1, <2>2, <3>1 DEF Abstract!vars
  <2> QED
    BY <2>3, <2>4
<1>3. ASSUME NEW c \in Callers, NEW request \in Requests, GetWaitTime(c, request)
      PROVE  Goal
  <2>1. UNCHANGED <<now, setting, task, generation, issued>>
    BY <1>3 DEF GetWaitTime, Refill
  <2>2. UNCHANGED <<Limits, Grants, Waiting>>
    BY <2>1, LimitsKept, GrantsKept, WaitingKept
  <2> QED
    BY <2>1, <2>2 DEF RInv, Requested, Abstract!vars
<1>4. ASSUME NEW c \in Callers, Wake(c)
      PROVE  Goal
  <2>1. task[c].request \in Requests /\ Attempt(c, task[c].request)
    BY <1>4 DEF Wake, RInv, Requested
  <2> QED
    BY <2>1, AttemptMaps
<1>5. ASSUME NEW c \in Callers, Cancel(c)
      PROVE  Goal
  <2>1. /\ task[c] # Idle /\ task' = [task EXCEPT ![c] = Idle]
        /\ UNCHANGED <<now, setting, generation, issued>>
    BY <1>5 DEF Cancel
  <2>2. Waits(c) \in Waiting /\ Waiting' = Waiting \ {Waits(c)}
    BY <1>0, <2>1, WaitingLeaves
  <2>3. Abstract!Leave(Waits(c))
    BY <2>1, <2>2, LimitsKept, GrantsKept DEF Abstract!Leave
  <2>4. Abstract!Next
    BY <2>2, <2>3 DEF Abstract!Next
  <2>5. Requested'
    BY <1>0, <2>1 DEF RInv, Requested
  <2> QED
    BY <2>4, <2>5
<1>6. ASSUME NEW new \in Settings, Reconfigure(new)
      PROVE  Goal
  <2>1. setting' = new /\ generation' = generation + 1 /\ UNCHANGED <<now, task, issued>>
    BY <1>6 DEF Reconfigure
  <2>2. Limits' \in [Budgets -> Nat]
    BY <2>1, SettingsAssumption DEF Limits, Capacity, SettingType
  <2>3. Abstract!Reconfigure
    BY <2>1, <2>2, GrantsKept, WaitingKept DEF Abstract!Reconfigure
  <2> QED
    BY <2>1, <2>3 DEF Abstract!Next, RInv, Requested
<1>7. CASE Tick
  <2>1. now' = now + 1 /\ UNCHANGED <<setting, task, generation, issued>>
    BY <1>7 DEF Tick
  <2>2. now' \in Nat /\ now <= now' /\ UNCHANGED <<Limits, Grants, Waiting>>
    BY <1>0, <2>1, LimitsKept, GrantsKept, WaitingKept
  <2> QED
    BY <1>0, <2>1, <2>2, TimePasses DEF RInv, Requested
<1>8. CASE UNCHANGED vars
  <2>1. UNCHANGED <<now, setting, task, generation, issued>>
    BY <1>8 DEF vars
  <2>2. UNCHANGED <<Limits, Grants, Waiting>>
    BY <2>1, LimitsKept, GrantsKept, WaitingKept
  <2> QED
    BY <2>1, <2>2 DEF RInv, Requested, Abstract!vars
<1>9. CASE Finished
  BY <1>8, <1>9 DEF Finished
<1> QED
  BY <1>1, <1>2, <1>3, <1>4, <1>5, <1>6, <1>7, <1>8, <1>9 DEF Next, Operation

-----------------------------------------------------------------------------
(* The theorems.                                                           *)

\* The limiter implements the sliding window: for any callers, requests, settings
\* and timing, what _can_proceed answers from tokens and histories is what adding up
\* the grants of the last window would answer, at every turn of acquire and
\* try_acquire and across every reconfiguration.
THEOREM ImplementsWindow == Spec => Implements
<1> QED
  BY InitMaps, NextMaps, PTL DEF Spec, Implements, Abstract!Spec

\* The running totals of every history are the sums of its costs, and its entries are
\* in the order of their stamps (_refill_read, _refill_write, _calculate_wait_time).
THEOREM TotalsAdd == Spec => []TotalsAreSums
<1>1. ASSUME WInv, NEW b \in Budgets, NEW n \in 1 .. Len(history[b])
      PROVE  /\ Recovered(history[b], n) = Abstract!Total([i \in 1 .. n |-> history[b][i].cost])
             /\ n > 1 => history[b][n - 1].ts <= history[b][n].ts
  <2>1. /\ history[b] \in Seq(Entry) /\ Chained(history[b]) /\ Timely(history[b], now)
        /\ Len(history[b]) \in Nat
    BY <1>1, LenProperties DEF WInv, IInv, Books, Stores, BudgetInv, Chain, Orderly
  <2>2. n \in 0 .. Len(history[b]) /\ (n > 1 => n - 1 \in 1 .. Len(history[b]) /\ n - 1 <= n)
    BY <2>1
  <2> QED
    BY <2>1, <2>2, RecoveredIsSum DEF Timely
<1>2. WInv => TotalsAreSums
  BY <1>1, Zenon DEF TotalsAreSums
<1> QED
  BY <1>2, WInvariance, PTL
=============================================================================
