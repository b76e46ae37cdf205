------------------------------ MODULE ApiProofs ------------------------------
(***************************************************************************)
(* Theorems about the API surface, for every price list, default and       *)
(* number of calls, and for every table of endpoints.  The inductive       *)
(* invariant says that what is being sent was built and priced by the      *)
(* lists of this moment (Priced), and what the counters and the history    *)
(* variables tell of each other (Tallied).  That every request reaches its *)
(* endpoint needs of the table no more than that no entry is there twice   *)
(* (Distinct).                                                             *)
(***************************************************************************)
EXTENDS Api, FiniteSetTheorems, WellFoundedInduction, TLAPS

Listed ==
    /\ patterns \in PriceLists \cup {<<>>}
    /\ default \in {InitialPrice, DefaultPrice}

Priced ==
    /\ call.at \in {"sent", "done"}
    /\ call.at = "sent" =>
           /\ call.method \in Methods
           /\ call.path \in Paths(call.method)
           /\ call.price = ResolveCost(Endpoint[call.method].verb, call.path)

Tallied ==
    /\ counted \in [Counted -> Nat] /\ executed \in [Counted -> Nat] /\ lost \in [Counted -> Nat]
    /\ \A m \in Counted : counted[m] + lost[m] = executed[m]

IInv == Listed /\ Priced /\ Tallied

-----------------------------------------------------------------------------
\* Min returns the least element of a set of naturals that has one.
LEMMA MinIsLeast ==
    ASSUME NEW S \in SUBSET Nat, S # {}
    PROVE  Min(S) \in S /\ \A y \in S : Min(S) <= y
<1>1. PICK x \in S : \A y \in S : ~ (<<y, x>> \in OpToRel(<, Nat))
  BY NatLessThanWellFounded, WFMin
<1>2. ASSUME NEW y \in S PROVE x <= y
  <2>1. <<y, x>> \notin {ss \in Nat \X Nat : ss[1] < ss[2]}
    BY <1>1 DEF OpToRel
  <2>2. <<y, x>> \in Nat \X Nat /\ <<y, x>>[1] = y /\ <<y, x>>[2] = x
    OBVIOUS
  <2>3. ~ (y < x)
    BY <2>1, <2>2
  <2> QED
    BY <2>3
<1> QED
  BY <1>2 DEF Min

\* Of two sets of naturals, one inside the other, the least elements are the same
\* if the least element of the larger one is in the smaller one.
LEMMA SameLeast ==
    ASSUME NEW S \in SUBSET Nat, NEW T \in SUBSET S, T # {}, Min(S) \in T
    PROVE  Min(T) = Min(S)
<1>1. Min(T) \in T /\ \A y \in T : Min(T) <= y
  BY MinIsLeast
<1>2. Min(S) \in S /\ \A y \in S : Min(S) <= y
  BY MinIsLeast
<1>3. Min(T) <= Min(S) /\ Min(S) <= Min(T)
  BY <1>1, <1>2
<1>4. Min(T) \in Nat /\ Min(S) \in Nat
  BY <1>1, <1>2
<1> QED
  BY <1>3, <1>4

\* A published list is a sequence.
LEMMA PatternsAreIndexed ==
    ASSUME Listed
    PROVE  DOMAIN patterns \subseteq Nat
<1> DEFINE E == [verb : STRING, path : Seq(STRING), price : Nat]
<1>1. CASE patterns = <<>>
  BY <1>1
<1>2. CASE patterns \in PriceLists
  <2>1. patterns \in Seq(E)
    BY <1>2, PricesAssumption
  <2> HIDE DEF E
  <2> QED
    BY <2>1
<1> QED
  BY <1>1, <1>2 DEF Listed

\* What a method sends has its arguments in the places of its parameters.
LEMMA SentIsFilled ==
    ASSUME NEW m \in Methods, NEW path \in Paths(m), ~HasEmpty(path)
    PROVE  path = Filled(Endpoint[m].path)
<1> DEFINE template == Endpoint[m].path
<1>1. PICK argument \in [DOMAIN template -> {Id, Empty}] :
          path = [i \in DOMAIN template |->
                      IF template[i] = Arg THEN argument[i] ELSE template[i]]
  BY DEF Paths
<1>2. \A i \in DOMAIN template : template[i] = Arg => path[i] = Id
  BY <1>1 DEF HasEmpty
<1>3. path = [i \in DOMAIN template |-> IF template[i] = Arg THEN Id ELSE template[i]]
  BY <1>1, <1>2
<1> QED
  BY <1>3 DEF Filled

\* A list that names a method's endpoint has it among the hits of the method's path.
LEMMA OwnedIsHit ==
    ASSUME NEW m \in Methods, NEW i \in DOMAIN patterns, Owned(i, m)
    PROVE  i \in Hits(Endpoint[m].verb, Filled(Endpoint[m].path))
<1>1. Matches(Endpoint[m].path, Filled(Endpoint[m].path))
  BY DEF Matches, Filled, Id, Empty, Arg
<1> QED
  BY <1>1 DEF Hits, Owned

\* On an ordered list the first hit of a method's path is the method's own endpoint.
LEMMA FirstIsOwn ==
    ASSUME Listed, Ordered, NEW m \in Methods
    PROVE  ResolveCost(Endpoint[m].verb, Filled(Endpoint[m].path)) = OwnPrice(m)
<1> DEFINE hits == Hits(Endpoint[m].verb, Filled(Endpoint[m].path))
           own == {i \in DOMAIN patterns : Owned(i, m)}
<1>1. hits \subseteq Nat /\ hits \subseteq DOMAIN patterns
  BY PatternsAreIndexed DEF Hits
<1>2. own \subseteq hits
  BY OwnedIsHit
<1>3. CASE hits = {}
  BY <1>2, <1>3 DEF ResolveCost, OwnPrice
<1>4. CASE hits # {}
  <2>1. Min(hits) \in hits /\ \A y \in hits : Min(hits) <= y
    BY <1>1, <1>4, MinIsLeast
  <2>2. PICK j \in DOMAIN patterns : j <= Min(hits) /\ Owned(j, m)
    BY <1>1, <2>1 DEF Ordered
  <2>3. j \in own /\ j \in hits /\ j \in Nat
    BY <1>1, <1>2, <2>2
  <2>4. j = Min(hits)
    BY <1>1, <2>1, <2>2, <2>3
  <2>5. Min(own) = Min(hits)
    BY <1>1, <1>2, <2>3, <2>4, SameLeast
  <2> QED
    BY <1>4, <2>3, <2>5 DEF ResolveCost, OwnPrice
<1> QED
  BY <1>3, <1>4

-----------------------------------------------------------------------------
\* The inductive invariant holds at first.
LEMMA InitIInv == Init => IInv
<1> SUFFICES ASSUME Init PROVE IInv
  OBVIOUS
<1>1. Listed /\ Priced
  BY DEF Init, Listed, Priced, NoCall
<1>2. Tallied
  BY DEF Init, Tallied
<1> QED
  BY <1>1, <1>2 DEF IInv

\* One more call in a tally.
LEMMA PlusIsTally ==
    ASSUME NEW tally \in [Counted -> Nat]
    PROVE  /\ Plus(tally) \in [Counted -> Nat]
           /\ \A m \in Counted :
                  Plus(tally)[m] = IF m = call.method THEN tally[m] + 1 ELSE tally[m]
BY DEF Plus

\* Every step preserves the inductive invariant.
LEMMA NextIInv == IInv /\ [Next]_vars => IInv'
<1> SUFFICES ASSUME IInv, [Next]_vars PROVE IInv'
  OBVIOUS
<1> USE DEF IInv
<1>1. ASSUME NEW list \in PriceLists, Configure(list) PROVE IInv'
  <2>1. Listed'
    BY <1>1 DEF Configure, Listed
  <2>2. Priced'
    BY <1>1 DEF Configure, Priced
  <2>3. Tallied'
    BY <1>1 DEF Configure, Tallied
  <2> QED
    BY <2>1, <2>2, <2>3
<1>2. ASSUME NEW m \in Methods, NEW path \in Paths(m), Refuse(m, path) PROVE IInv'
  <2>1. Listed' /\ Tallied'
    BY <1>2 DEF Refuse, Begins, Listed, Tallied
  <2>2. Priced'
    BY <1>2 DEF Refuse, Begins, Priced
  <2> QED
    BY <2>1, <2>2
<1>3. ASSUME NEW m \in Methods, NEW path \in Paths(m), Send(m, path) PROVE IInv'
  <2>1. Listed' /\ Tallied'
    BY <1>3 DEF Send, Begins, Listed, Tallied
  <2>2. /\ call'.at = "sent" /\ call'.method = m /\ call'.path = path
        /\ call'.price = ResolveCost(Endpoint[m].verb, path)
        /\ patterns' = patterns /\ default' = default
    BY <1>3 DEF Send, Begins
  <2>3. Priced'
    <3> DEFINE verb == Endpoint[m].verb
    <3>1. /\ call'.price = ResolveCost(verb, path)
          /\ Endpoint[call'.method].verb = verb /\ call'.path = path
      BY <2>2
    <3> HIDE DEF verb
    <3>2. call'.price = (ResolveCost(verb, path))'
      BY <2>2, <3>1 DEF ResolveCost, Hits, Matches
    <3>3. (ResolveCost(Endpoint[call.method].verb, call.path))' = (ResolveCost(verb, path))'
      BY <3>1 DEF ResolveCost, Hits, Matches
    <3> QED
      BY <2>2, <3>2, <3>3 DEF Priced, Paths
  <2> QED
    BY <2>1, <2>3
<1>4. ASSUME Reply PROVE IInv'
  <2>1. ASSUME NEW result, NEW served, Ends(result, served) PROVE Listed' /\ Priced'
    BY <2>1 DEF Ends, Listed, Priced
  <2>2. ASSUME NEW m, Lose(m) PROVE IInv'
    BY <2>1, <2>2, PlusIsTally DEF Lose, Tallied
  <2>3. ASSUME NEW m, NEW answer, Answer(m, answer) PROVE IInv'
    BY <2>1, <2>3, PlusIsTally DEF Answer, Counts, Tallied
  <2>4. ASSUME Fail PROVE IInv'
    BY <2>1, <2>4 DEF Fail, Tallied
  <2> QED
    BY <1>4, <2>2, <2>3, <2>4 DEF Reply
<1>5. CASE UNCHANGED vars
  <2>1. Listed' /\ Tallied'
    BY <1>5 DEF vars, Listed, Tallied
  <2>2. Priced'
    <3>1. call' = call /\ UNCHANGED <<patterns, default>>
      BY <1>5 DEF vars
    <3>2. ResolveCost(Endpoint[call.method].verb, call.path)'
              = ResolveCost(Endpoint[call.method].verb, call.path)
      BY <3>1 DEF ResolveCost, Hits, Matches
    <3> QED
      BY <3>1, <3>2 DEF Priced, Paths
  <2> QED
    BY <2>1, <2>2
<1> QED
  BY <1>1, <1>2, <1>3, <1>4, <1>5 DEF Next

LEMMA Invariance == Spec => []IInv
BY InitIInv, NextIInv, PTL DEF Spec

-----------------------------------------------------------------------------
\* For every published list that names literal paths before the ":param" paths that
\* they fit, and for every table of endpoints, each request is charged the price of
\* its own endpoint (_resolve_cost).
THEOREM ChargesAreOwn == Spec => []OwnCharge
<1>1. IInv => OwnCharge
  <2> SUFFICES ASSUME IInv, call.at = "sent", ~HasEmpty(call.path), Ordered
               PROVE  call.price = OwnPrice(call.method)
    BY DEF OwnCharge
  <2>1. /\ call.method \in Methods /\ call.path \in Paths(call.method)
        /\ call.price = ResolveCost(Endpoint[call.method].verb, call.path)
    BY DEF IInv, Priced
  <2>2. call.path = Filled(Endpoint[call.method].path)
    BY <2>1, SentIsFilled
  <2> QED
    BY <2>1, <2>2, FirstIsOwn DEF IInv
<1> QED
  BY <1>1, Invariance, PTL

\* However many calls are made and lost, the order counters miss exactly the orders
\* whose answer was lost.
THEOREM CountersMatch == Spec => []CountsMatch
<1>1. IInv => CountsMatch
  BY DEF IInv, Tallied, CountsMatch
<1> QED
  BY <1>1, Invariance, PTL

-----------------------------------------------------------------------------
(* The routes: a path that a literal endpoint and a parameter both fit     *)
(* goes to the literal one, so that equal paths are the only conflict.     *)

\* What is asked of the tables: no two methods send the same verb to the same path,
\* and no literal segment is empty or what a program passes as an argument.
Distinct ==
    /\ \A m \in Methods :
           /\ Endpoint[m].path \in Seq(STRING)
           /\ \A i \in DOMAIN Endpoint[m].path : Endpoint[m].path[i] \notin {Id, Empty}
    /\ \A m, n \in Methods :
           Endpoint[m].verb = Endpoint[n].verb /\ Endpoint[m].path = Endpoint[n].path => m = n

\* A sequence is a function, on finitely many positions.
LEMMA Positions ==
    ASSUME NEW S, NEW s \in Seq(S)
    PROVE  IsFiniteSet(DOMAIN s) /\ s = [i \in DOMAIN s |-> s[i]]
<1>1. Len(s) \in Nat /\ DOMAIN s = 1 .. Len(s)
  OBVIOUS
<1>2. IsFiniteSet(1 .. Len(s))
  BY <1>1, FS_Interval
<1> QED
  BY <1>1, <1>2

\* The parameters of an endpoint are finitely many.
LEMMA ArgsAreFinite ==
    ASSUME Distinct, NEW m \in Methods
    PROVE  IsFiniteSet(Args(m)) /\ Endpoint[m].path = [i \in DOMAIN Endpoint[m].path |-> Endpoint[m].path[i]]
<1>1. Endpoint[m].path \in Seq(STRING)
  BY DEF Distinct
<1>2. Args(m) \subseteq DOMAIN Endpoint[m].path
  BY DEF Args
<1> QED
  BY <1>1, <1>2, Positions, FS_Subset

\* A named path is routed to the endpoint it was built for, and to no other.
LEMMA RoutedToOwn ==
    ASSUME Distinct, NEW m \in Methods, NEW n \in Routes(Endpoint[m].verb, Filled(Endpoint[m].path))
    PROVE  n = m
<1> DEFINE own == Endpoint[m].path
           other == Endpoint[n].path
           path == Filled(own)
<1>1. /\ n \in Methods /\ Endpoint[n].verb = Endpoint[m].verb /\ Matches(other, path)
      /\ Matches(own, path) => Cardinality(Args(n)) <= Cardinality(Args(m))
  BY DEF Routes
<1>2. Matches(own, path)
  BY DEF Matches, Filled, Id, Empty, Arg
<1>3. DOMAIN other = DOMAIN own
  BY <1>1 DEF Matches, Filled
<1>4. ASSUME NEW i \in DOMAIN own, own[i] = Arg PROVE other[i] = Arg
  <2>1. path[i] = Id /\ other[i] # Id
    BY <1>1, <1>3, <1>4 DEF Filled, Distinct
  <2> QED
    BY <1>1, <1>3, <2>1 DEF Matches
<1>5. ASSUME NEW i \in DOMAIN own, other[i] # Arg PROVE other[i] = own[i]
  BY <1>1, <1>3, <1>4, <1>5 DEF Matches, Filled
<1>6. IsFiniteSet(Args(n)) /\ IsFiniteSet(Args(m))
  BY <1>1, ArgsAreFinite
<1>7. Args(m) \subseteq Args(n)
  BY <1>3, <1>4 DEF Args
<1>8. Args(m) = Args(n)
  <2>1. Cardinality(Args(m)) \in Nat /\ Cardinality(Args(n)) \in Nat
    BY <1>6, FS_CardinalityType
  <2>2. /\ Cardinality(Args(m)) <= Cardinality(Args(n))
        /\ Cardinality(Args(n)) = Cardinality(Args(m)) => Args(n) = Args(m)
    BY <1>6, <1>7, FS_Subset
  <2> QED
    BY <1>1, <1>2, <2>1, <2>2
<1>9. ASSUME NEW i \in DOMAIN own PROVE other[i] = own[i]
  BY <1>3, <1>5, <1>8 DEF Args
<1>10. other = own
  <2>1. /\ own = [i \in DOMAIN own |-> own[i]]
        /\ other = [i \in DOMAIN other |-> other[i]]
    BY <1>1, ArgsAreFinite
  <2> QED
    BY <1>3, <1>9, <2>1
<1> QED
  BY <1>1, <1>10 DEF Distinct

\* A call is a record of these fields.
Recorded ==
    call = [method |-> call.method, path |-> call.path, price |-> call.price, at |-> call.at,
            served |-> call.served, result |-> call.result]

\* What an answer leaves of a call.
LEMMA EndsServed ==
    ASSUME Recorded, NEW result, NEW served, Ends(result, served)
    PROVE  /\ Recorded'
           /\ call'.served = served /\ call'.method = call.method /\ call'.path = call.path
BY DEF Recorded, Ends

\* "Each method maps to exactly one API endpoint" (README.md:11): for every table in
\* which no two methods have verb and path in common, however literal segments and
\* parameters share their places, whatever the exchange does with empty segments.
THEOREM RequestsReachTheirEndpoint ==
    ASSUME Distinct
    PROVE  Spec => []OneEndpoint
<1>1. Init => OneEndpoint /\ Recorded
  BY DEF Init, NoCall, OneEndpoint, Recorded
<1>2. ASSUME IInv, OneEndpoint, Recorded, [Next]_vars PROVE OneEndpoint' /\ Recorded'
  <2>1. ASSUME NEW list \in PriceLists, Configure(list) PROVE OneEndpoint' /\ Recorded'
    BY <1>2, <2>1 DEF Configure, OneEndpoint, Recorded, HasEmpty
  <2>2. ASSUME NEW m \in Methods, NEW path \in Paths(m), Refuse(m, path) \/ Send(m, path)
        PROVE  OneEndpoint' /\ Recorded'
    BY <2>2 DEF Refuse, Send, Begins, OneEndpoint, Recorded
  <2>3. ASSUME Reply PROVE OneEndpoint' /\ Recorded'
    <3>1. /\ call.method \in Methods /\ call.path \in Paths(call.method)
      BY <1>2, <2>3 DEF IInv, Priced, Reply
    <3>2. PICK served \in {"none"} \cup Routes(Endpoint[call.method].verb, Cleaned(call.path)) :
              \E result : Ends(result, served)
      BY <2>3 DEF Reply, Lose, Answer, Fail
    <3>3. /\ Recorded'
          /\ call'.served = served /\ call'.method = call.method /\ call'.path = call.path
      BY <1>2, <3>2, EndsServed
    <3>4. ASSUME ~HasEmpty(call.path), served # "none" PROVE served = call.method
      <4>1. Cleaned(call.path) = Filled(Endpoint[call.method].path)
        BY <3>1, <3>4, SentIsFilled DEF Cleaned
      <4> QED
        BY <3>1, <3>2, <3>4, <4>1, RoutedToOwn
    <3> QED
      BY <3>3, <3>4 DEF OneEndpoint, HasEmpty
  <2>4. CASE UNCHANGED vars
    BY <1>2, <2>4 DEF vars, OneEndpoint, Recorded, HasEmpty
  <2> QED
    BY <1>2, <2>1, <2>2, <2>3, <2>4 DEF Next
<1> QED
  BY <1>1, <1>2, Invariance, PTL DEF Spec

-----------------------------------------------------------------------------
(* The types: a call's price stands on the lists, and no tally passes the  *)
(* number of calls.                                                        *)

Charged == call.price \in {default, InitialPrice} \cup {patterns[i].price : i \in DOMAIN patterns}

Described ==
    /\ cleans \in BOOLEAN
    /\ call.method \in Methods \cup {"none"} /\ call.served \in Methods \cup {"none"}
    /\ call.result \in Results

\* A call on its way is counted among the calls before it is in a tally.
Underway(m) == IF call.at = "sent" /\ call.method = m THEN 1 ELSE 0
Bounded ==
    /\ calls \in 0 .. MaxCalls
    /\ \A m \in Counted : executed[m] + Underway(m) <= calls

TInv == IInv /\ Charged /\ Described /\ Bounded

\* Whatever is asked for, the price is one of the list's, or the default.
LEMMA ResolvedIsListed ==
    ASSUME Listed, NEW verb, NEW path
    PROVE  ResolveCost(verb, path) \in {default} \cup {patterns[i].price : i \in DOMAIN patterns}
<1>1. Hits(verb, path) \subseteq Nat /\ Hits(verb, path) \subseteq DOMAIN patterns
  BY PatternsAreIndexed DEF Hits
<1>2. Hits(verb, path) # {} => Min(Hits(verb, path)) \in DOMAIN patterns
  BY <1>1, MinIsLeast
<1> QED
  BY <1>2 DEF ResolveCost

\* Every step keeps the call typed and the tallies bounded.
LEMMA NextTInv == TInv /\ [Next]_vars => TInv'
<1> SUFFICES ASSUME TInv, [Next]_vars PROVE TInv'
  OBVIOUS
<1>1. IInv /\ IInv'
  BY NextIInv DEF TInv
<1>2. Charged /\ Described /\ Bounded /\ MaxCalls \in Nat
  BY PricesAssumption DEF TInv
<1>3. executed \in [Counted -> Nat] /\ executed' \in [Counted -> Nat]
  BY <1>1 DEF IInv, Tallied
<1>4. ASSUME NEW list \in PriceLists, Configure(list) PROVE Charged' /\ Described' /\ Bounded'
  <2>1. call.price = InitialPrice
    BY <1>2, <1>4 DEF Configure, Charged
  <2> QED
    BY <1>2, <1>4, <2>1 DEF Configure, Charged, Described, Bounded, Underway
<1>5. ASSUME NEW m \in Methods, NEW path \in Paths(m), Refuse(m, path)
      PROVE  Charged' /\ Described' /\ Bounded'
  <2>1. Charged' /\ Described'
    BY <1>2, <1>5 DEF Refuse, Begins, Charged, Described, Results
  <2>2. \A n \in Counted : Underway(n) \in Nat /\ Underway(n)' = 0 /\ executed'[n] = executed[n]
    BY <1>5 DEF Refuse, Begins, Underway
  <2>3. calls' = calls + 1 /\ calls < MaxCalls
    BY <1>5 DEF Refuse, Begins
  <2>4. Bounded'
    BY <1>2, <1>3, <2>2, <2>3 DEF Bounded
  <2> QED
    BY <2>1, <2>4
<1>6. ASSUME NEW m \in Methods, NEW path \in Paths(m), Send(m, path)
      PROVE  Charged' /\ Described' /\ Bounded'
  <2>1. call'.price = ResolveCost(Endpoint[m].verb, path) /\ UNCHANGED <<patterns, default>>
    BY <1>6 DEF Send, Begins
  <2>2. Charged'
    BY <1>1, <2>1, ResolvedIsListed DEF Charged, IInv
  <2>3. Described'
    BY <1>2, <1>6 DEF Send, Begins, Described, Results
  <2>4. \A n \in Counted : Underway(n) = 0 /\ Underway(n)' \in {0, 1} /\ executed'[n] = executed[n]
    BY <1>6 DEF Send, Begins, Underway
  <2>5. calls' = calls + 1 /\ calls < MaxCalls
    BY <1>6 DEF Send, Begins
  <2>6. Bounded'
    BY <1>2, <1>3, <2>4, <2>5 DEF Bounded
  <2> QED
    BY <2>2, <2>3, <2>6
<1>7. ASSUME Reply PROVE Charged' /\ Described' /\ Bounded'
  <2>1. ASSUME NEW result \in Results, NEW served \in Methods \cup {"none"}, Ends(result, served)
        PROVE  /\ Charged' /\ Described' /\ calls' = calls
               /\ \A n \in Counted : Underway(n)' = 0
    BY <1>2, <2>1 DEF Ends, Charged, Described, Underway
  <2>2. \A n \in Counted : Underway(n) \in Nat /\ (n = call.method => Underway(n) = 1)
    BY <1>7 DEF Reply, Underway
  <2>3. (executed' = executed \/ executed' = Plus(executed)) => \A n \in Counted :
            executed'[n] + 0 <= executed[n] + Underway(n)
    BY <1>3, <2>2, PlusIsTally
  <2>4. \A m \in Methods : Lose(m) => Ends("lost", m) /\ executed' = Plus(executed)
    BY DEF Lose
  <2>5. \A m \in Methods : \A answer : Answer(m, answer) =>
            /\ Ends("ok", m) \/ Ends("empty", m) \/ Ends("invalid", m)
            /\ executed' = Plus(executed)
    BY DEF Answer, Outcome
  <2>6. Fail => Ends("failed", "none") /\ executed' = executed
    BY DEF Fail
  <2>7. \E result \in Results, served \in Methods \cup {"none"} :
            Ends(result, served) /\ (executed' = executed \/ executed' = Plus(executed))
    <3>1. \A m \in Routes(Endpoint[call.method].verb, Cleaned(call.path)) : m \in Methods
      BY DEF Routes
    <3> QED
      BY <1>7, <2>4, <2>5, <2>6, <3>1 DEF Reply, Results
  <2> QED
    BY <1>2, <1>3, <2>1, <2>2, <2>3, <2>7 DEF Bounded
<1>8. CASE UNCHANGED vars
  <2>1. Charged' /\ Described' /\ Bounded'
    BY <1>2, <1>8 DEF vars, Charged, Described, Bounded, Underway
  <2> QED
    BY <1>1, <2>1 DEF TInv
<1> QED
  BY <1>1, <1>4, <1>5, <1>6, <1>7, <1>8 DEF Next, TInv

\* The types are as declared, and neither the counters nor the history variables
\* pass the number of calls made.
THEOREM ApiTypeCorrect == Spec => []TypeOK
<1>1. Init => TInv
  <2> SUFFICES ASSUME Init PROVE TInv
    OBVIOUS
  <2>1. IInv
    BY InitIInv
  <2>2. Charged /\ Described
    BY DEF Init, NoCall, Charged, Described, Results
  <2>3. Bounded
    BY PricesAssumption DEF Init, NoCall, Bounded, Underway
  <2> QED
    BY <2>1, <2>2, <2>3 DEF TInv
<1>2. TInv => TypeOK
  <2> SUFFICES ASSUME TInv PROVE TypeOK
    OBVIOUS
  <2>1. \A m \in Counted : Underway(m) \in Nat
    BY DEF Underway
  <2>2. \A m \in Counted :
            /\ counted[m] \in Nat /\ lost[m] \in Nat /\ executed[m] \in Nat
            /\ counted[m] + lost[m] = executed[m]
            /\ executed[m] <= calls
    BY <2>1 DEF TInv, IInv, Tallied, Bounded
  <2>3. \A m \in Counted :
            counted[m] \in 0 .. MaxCalls /\ lost[m] \in 0 .. MaxCalls /\ executed[m] \in 0 .. MaxCalls
    BY <2>2, PricesAssumption DEF TInv, Bounded
  <2>4. /\ counted \in [Counted -> 0 .. MaxCalls]
        /\ executed \in [Counted -> 0 .. MaxCalls] /\ lost \in [Counted -> 0 .. MaxCalls]
    BY <2>3 DEF TInv, IInv, Tallied
  <2>5. default \in {InitialPrice, DefaultPrice} /\ call.at \in {"sent", "done"}
    BY DEF TInv, IInv, Listed, Priced
  <2> QED
    BY <2>4, <2>5 DEF TInv, Charged, Described, Bounded, TypeOK
<1> QED
  BY <1>1, <1>2, NextTInv, PTL DEF Spec
=============================================================================
