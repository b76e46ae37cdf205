--------------------------- MODULE HttpClientProofs ---------------------------
(***************************************************************************)
(* Theorems about the request engine, for any number of calls, retries,    *)
(* prices and capacities.  The inductive invariant says what the lock and  *)
(* the flags tell of each other (Lock) and of the sources of the rates     *)
(* (Applied), where a call can be (Placed), how far a request has spent    *)
(* its retries (Counted), how often the exchange may have executed it      *)
(* (Effects), and what a waiter was charged (Charged).  With it every step *)
(* of the engine is a step of RemoteCall, or none (Maps).                  *)
(***************************************************************************)
EXTENDS HttpClientCalls, TLAPS

\* Call c is in one of the two fetches of a configuration.
Inside(c) == call[c].stage \in Fetches /\ call[c].at # "done"

Lock ==
    /\ configuring <=> holder # NoCall
    /\ configuring => ~configured
    /\ \A c \in Calls : Inside(c) <=> holder = c

\* Prices are applied last, and a configuration under way shows how far it is.
Applied ==
    /\ costs = "api" => limits = "api" /\ configured
    /\ ~configured /\ ~configuring => limits = "default"
    /\ \A c \in Calls :
           Inside(c) => limits = IF call[c].stage = "costs" THEN "api" ELSE "default"

Placed(c) ==
    /\ call[c].at # "done" => call[c].result = "none"
    /\ call[c].at # "new" => call[c].kind \in Kinds
    /\ call[c].at \in {"new", "lock"} => call[c].stage = "own"
    /\ call[c].kind = "configure" /\ call[c].stage = "own"
           => call[c].at \in {"entering", "lock", "done"}

Counted(c) ==
    /\ call[c].at \in {"new", "entering", "lock", "limiter"} => call[c].tries = 0
    /\ call[c].at = "sent" => call[c].tries = call[c].retries + 1 /\ call[c].retries <= MaxRetries
    /\ call[c].at = "pause" => call[c].tries = call[c].retries + 1 /\ call[c].retries < MaxRetries
    /\ call[c].tries <= MaxRetries + 1
    /\ call[c].result \in {"too_many", "network"} => call[c].tries = MaxRetries + 1

\* An attempt under way, and only one, may still add an execution.
Effects(c) ==
    /\ executed[c] + abandoned[c] <= faults[c] + (IF call[c].at = "done" THEN 1 ELSE 0)
    /\ call[c].result \in {"ok", "invalid"} /\ call[c].kind # "configure" => executed[c] > 0

Charged(c) ==
    call[c].at = "limiter" =>
        /\ call[c].cost <= Capacity(BudgetOf(Endpoint(c)))
        /\ costs = "default" => call[c].cost = DefaultCost

Rated ==
    /\ Lock /\ Applied
    /\ \A c \in Calls : Placed(c)
    /\ PricesFit => \A c \in Calls : Charged(c)

IInv ==
    /\ TypeOK /\ Rated
    /\ \A c \in Calls : Counted(c)
    /\ \A c \in Calls : Effects(c)

-----------------------------------------------------------------------------
(* What the steps of a call do to its record.                              *)

Others(c) == \A d \in Calls : d # c => call'[d] = call[d]
Same(c) ==
    /\ call'[c].kind = call[c].kind /\ call'[c].stage = call[c].stage
    /\ call'[c].cost = call[c].cost /\ call'[c].result = call[c].result

LEMMA CallFields ==
    ASSUME call \in [Calls -> CallState], NEW c \in Calls
    PROVE  /\ call[c] \in CallState
           /\ call[c].kind \in {"none"} \cup Kinds /\ call[c].stage \in Stages
           /\ call[c].cost \in Nat /\ call[c].retries \in Nat /\ call[c].tries \in Nat
           /\ call[c].result \in Results
BY DEF CallState

LEMMA BecomesRecord ==
    ASSUME call \in [Calls -> CallState], NEW c \in Calls, NEW record \in CallState,
           Becomes(c, record)
    PROVE  call' \in [Calls -> CallState] /\ Others(c) /\ call'[c] = record
BY DEF Becomes, Others

LEMMA EntersRecord ==
    ASSUME call \in [Calls -> CallState], NEW c \in Calls, NEW stage \in Stages,
           Enters(c, stage)
    PROVE  /\ call' \in [Calls -> CallState] /\ Others(c)
           /\ call'[c].at = "entering" /\ call'[c].stage = stage
           /\ call'[c].retries = 0 /\ call'[c].tries = 0
           /\ call'[c].kind = call[c].kind /\ call'[c].result = call[c].result
<1> DEFINE r == [call[c] EXCEPT !.at = "entering", !.stage = stage, !.retries = 0, !.tries = 0]
<1>1. call[c] \in CallState
  BY CallFields
<1>2. /\ r \in CallState /\ r.at = "entering" /\ r.stage = stage /\ r.retries = 0 /\ r.tries = 0
      /\ r.kind = call[c].kind /\ r.result = call[c].result
  BY <1>1 DEF CallState
<1> QED
  BY <1>2, BecomesRecord DEF Enters

LEMMA EndsRecord ==
    ASSUME call \in [Calls -> CallState], NEW c \in Calls, NEW result \in Results,
           Ends(c, result)
    PROVE  /\ call' \in [Calls -> CallState] /\ Others(c)
           /\ call'[c].at = "done" /\ call'[c].result = result
           /\ call'[c].stage = call[c].stage /\ call'[c].kind = call[c].kind
           /\ call'[c].tries = call[c].tries
<1> DEFINE r == [call[c] EXCEPT !.at = "done", !.result = result]
<1>1. call[c] \in CallState
  BY CallFields
<1>2. /\ r \in CallState /\ r.at = "done" /\ r.result = result
      /\ r.stage = call[c].stage /\ r.kind = call[c].kind /\ r.tries = call[c].tries
  BY <1>1 DEF CallState
<1> QED
  BY <1>2, BecomesRecord DEF Ends

LEMMA GoesOnRecord ==
    ASSUME call \in [Calls -> CallState], NEW c \in Calls, GoesOn(c)
    PROVE  /\ call' \in [Calls -> CallState] /\ Others(c)
           /\ call'[c].stage = "own" /\ call'[c].kind = call[c].kind
           /\ call[c].kind = "configure" =>
                  /\ call'[c].at = "done" /\ call'[c].result = "ok"
                  /\ call'[c].tries = call[c].tries
           /\ call[c].kind # "configure" =>
                  /\ call'[c].at = "entering" /\ call'[c].result = call[c].result
                  /\ call'[c].tries = 0
<1>1. CASE call[c].kind = "configure"
  <2> DEFINE r == [call[c] EXCEPT !.at = "done", !.stage = "own", !.result = "ok"]
  <2>1. call[c] \in CallState
    BY CallFields
  <2>2. /\ r \in CallState /\ r.at = "done" /\ r.stage = "own" /\ r.result = "ok"
        /\ r.kind = call[c].kind /\ r.tries = call[c].tries
    BY <2>1 DEF CallState, Stages, Results
  <2> QED
    BY <1>1, <2>2, BecomesRecord DEF GoesOn
<1>2. CASE call[c].kind # "configure"
  BY <1>2, EntersRecord DEF GoesOn, Stages
<1> QED
  BY <1>1, <1>2

LEMMA SendsRecord ==
    ASSUME call \in [Calls -> CallState], NEW c \in Calls, NEW retries \in Nat,
           Sends(c, retries)
    PROVE  /\ call' \in [Calls -> CallState] /\ Others(c) /\ Same(c)
           /\ call'[c].at = "sent" /\ call'[c].retries = retries
           /\ call'[c].tries = call[c].tries + 1
<1> DEFINE r(t) == [call[c] EXCEPT !.at = "sent", !.retries = retries, !.tries = t]
<1>1. call[c] \in CallState /\ call[c].tries + 1 \in Nat
  BY CallFields
<1>2. ASSUME NEW t \in Nat
      PROVE  /\ r(t) \in CallState /\ r(t).at = "sent" /\ r(t).retries = retries /\ r(t).tries = t
             /\ r(t).kind = call[c].kind /\ r(t).stage = call[c].stage
             /\ r(t).cost = call[c].cost /\ r(t).result = call[c].result
  BY <1>1 DEF CallState
<1>3. Becomes(c, r(call[c].tries + 1))
  BY DEF Sends
<1> HIDE DEF r
<1> QED
  BY <1>1, <1>2, <1>3, BecomesRecord DEF Same

LEMMA PausesRecord ==
    ASSUME call \in [Calls -> CallState], NEW c \in Calls, Pauses(c)
    PROVE  /\ call' \in [Calls -> CallState] /\ Others(c) /\ Same(c)
           /\ call'[c].at = "pause" /\ call'[c].retries = call[c].retries
           /\ call'[c].tries = call[c].tries
<1> DEFINE r == [call[c] EXCEPT !.at = "pause"]
<1>1. call[c] \in CallState
  BY CallFields
<1>2. /\ r \in CallState /\ r.at = "pause"
      /\ r.kind = call[c].kind /\ r.stage = call[c].stage /\ r.cost = call[c].cost
      /\ r.result = call[c].result /\ r.retries = call[c].retries /\ r.tries = call[c].tries
  BY <1>1 DEF CallState
<1> QED
  BY <1>2, BecomesRecord DEF Pauses, Same

\* Steps that only move a call on, or enter it.
LEMMA BeginRecord ==
    ASSUME call \in [Calls -> CallState], NEW c \in Calls, NEW kind \in Kinds, Begin(c, kind)
    PROVE  /\ call' \in [Calls -> CallState] /\ Others(c)
           /\ call'[c].at = "entering" /\ call'[c].kind = kind
           /\ call'[c].stage = call[c].stage /\ call'[c].tries = call[c].tries
           /\ call'[c].result = call[c].result
<1> DEFINE r == [call[c] EXCEPT !.kind = kind, !.at = "entering"]
<1>1. call[c] \in CallState
  BY CallFields
<1>2. /\ r \in CallState /\ r.at = "entering" /\ r.kind = kind /\ r.stage = call[c].stage
      /\ r.tries = call[c].tries /\ r.result = call[c].result
  BY <1>1 DEF CallState
<1> QED
  BY <1>2, BecomesRecord DEF Begin

LEMMA AwaitLockRecord ==
    ASSUME call \in [Calls -> CallState], NEW c \in Calls, AwaitLock(c)
    PROVE  /\ call' \in [Calls -> CallState] /\ Others(c) /\ Same(c)
           /\ call'[c].at = "lock" /\ call'[c].tries = call[c].tries
<1> DEFINE r == [call[c] EXCEPT !.at = "lock"]
<1>1. call[c] \in CallState
  BY CallFields
<1>2. /\ r \in CallState /\ r.at = "lock"
      /\ r.kind = call[c].kind /\ r.stage = call[c].stage /\ r.cost = call[c].cost
      /\ r.result = call[c].result /\ r.tries = call[c].tries
  BY <1>1 DEF CallState
<1> QED
  BY <1>2, BecomesRecord DEF AwaitLock, Same

LEMMA WaitsRecord ==
    ASSUME call \in [Calls -> CallState], NEW c \in Calls, NEW cost \in Nat,
           Becomes(c, [call[c] EXCEPT !.at = "limiter", !.cost = cost])
    PROVE  /\ call' \in [Calls -> CallState] /\ Others(c)
           /\ call'[c].at = "limiter" /\ call'[c].cost = cost
           /\ call'[c].kind = call[c].kind /\ call'[c].stage = call[c].stage
           /\ call'[c].tries = call[c].tries /\ call'[c].result = call[c].result
<1> DEFINE r == [call[c] EXCEPT !.at = "limiter", !.cost = cost]
<1>1. call[c] \in CallState
  BY CallFields
<1>2. /\ r \in CallState /\ r.at = "limiter" /\ r.cost = cost
      /\ r.kind = call[c].kind /\ r.stage = call[c].stage
      /\ r.result = call[c].result /\ r.tries = call[c].tries
  BY <1>1 DEF CallState
<1> QED
  BY <1>2, BecomesRecord

-----------------------------------------------------------------------------
(* The rates: lock, flags, sources, and what waiters were charged.         *)

LEMMA EndpointType ==
    ASSUME call \in [Calls -> CallState], NEW c \in Calls, Placed(c), call[c].at = "limiter"
    PROVE  Endpoint(c) \in Endpoints
BY CallFields, KindsAssumption DEF Placed, Endpoint, Endpoints, Stages, Fetches

\* A step that changes neither the rates nor the stage of the call.
LEMMA MoveRated ==
    ASSUME TypeOK, Rated, NEW c \in Calls, Others(c), UNCHANGED rates,
           call'[c].stage = call[c].stage,
           call[c].at # "done" \/ call[c].stage = "own",
           call'[c].at # "done" \/ call[c].stage = "own",
           Placed(c)', PricesFit => Charged(c)'
    PROVE  Rated'
<1>1. \A d \in Calls : Inside(d)' <=> Inside(d)
  BY DEF Inside, Others, Fetches
<1>2. Lock'
  BY <1>1 DEF Rated, Lock, rates
<1>3. Applied'
  BY <1>1 DEF Rated, Applied, rates, Inside, Others
<1>4. ASSUME NEW d \in Calls
      PROVE  Placed(d)' /\ (PricesFit => Charged(d)')
  <2>1. CASE d = c
    BY <2>1
  <2>2. CASE d # c
    <3>1. call'[d] = call[d]
      BY <2>2 DEF Others
    <3>2. Placed(d)'
      BY <3>1 DEF Rated, Placed
    <3>3. ASSUME PricesFit PROVE Charged(d)'
      BY <3>1, <3>3 DEF Rated, Charged, Capacity, Endpoint, rates
    <3> QED
      BY <3>2, <3>3
  <2> QED
    BY <2>1, <2>2
<1>5. PricesFit' <=> PricesFit
  BY DEF PricesFit
<1> QED
  BY <1>2, <1>3, <1>4, <1>5 DEF Rated

\* The end of a configuration, whether or not the prices came with it.
LEMMA ReleaseRated ==
    ASSUME TypeOK, Rated, NEW c \in Calls, Inside(c), Release, Others(c),
           limits' = limits,
           costs' = costs \/ (costs' = "api" /\ call[c].stage = "costs"),
           ~Inside(c)', Placed(c)', call'[c].at # "limiter"
    PROVE  Rated'
<1>1. holder = c /\ configuring /\ ~configured /\ costs # "api" /\ NoCall \notin Calls
  BY CallsAssumption DEF Rated, Lock, Applied
<1>2. \A d \in Calls : ~Inside(d)'
  BY <1>1 DEF Rated, Lock, Inside, Others
<1>3. Lock'
  BY <1>1, <1>2 DEF Lock, Release
<1>4. Applied'
  BY <1>1, <1>2 DEF Rated, Applied, Release
<1>5. ASSUME NEW d \in Calls
      PROVE  Placed(d)' /\ (PricesFit => Charged(d)')
  <2>1. CASE d = c
    BY <2>1 DEF Charged
  <2>2. CASE d # c
    <3>1. call'[d] = call[d]
      BY <2>2 DEF Others
    <3>2. Placed(d)'
      BY <3>1 DEF Rated, Placed
    <3>3. ASSUME PricesFit PROVE Charged(d)'
      BY <1>1, <3>1, <3>3 DEF Rated, Charged, Capacity, Endpoint
    <3> QED
      BY <3>2, <3>3
  <2> QED
    BY <2>1, <2>2
<1>6. PricesFit' <=> PricesFit
  BY DEF PricesFit
<1> QED
  BY <1>3, <1>4, <1>5, <1>6 DEF Rated

LEMMA RaisesRated ==
    ASSUME TypeOK, Rated, NEW c \in Calls, call[c].at \in {"entering", "sent"},
           NEW error \in Errors, Raises(c, error)
    PROVE  Rated' /\ call' \in [Calls -> CallState]
<1>1. call \in [Calls -> CallState] /\ Placed(c) /\ error \in Results
  BY DEF TypeOK, Rated, Results
<1>2. CASE call[c].stage = "own" /\ Ends(c, error) /\ UNCHANGED rates
  <2>1. /\ call' \in [Calls -> CallState] /\ Others(c) /\ call'[c].at = "done"
        /\ call'[c].stage = call[c].stage /\ call'[c].kind = call[c].kind
    BY <1>1, <1>2, EndsRecord
  <2>2. Placed(c)' /\ Charged(c)'
    BY <1>1, <2>1 DEF Placed, Charged
  <2> QED
    BY <1>2, <2>1, <2>2, MoveRated
<1>3. CASE /\ call[c].stage \in Fetches /\ Release /\ GoesOn(c)
           /\ UNCHANGED <<auto, limits, costs>>
  <2>1. /\ call' \in [Calls -> CallState] /\ Others(c)
        /\ call'[c].stage = "own" /\ call'[c].kind = call[c].kind
        /\ call'[c].at \in {"entering", "done"}
        /\ call'[c].at # "done" => call'[c].result = call[c].result
    BY <1>1, <1>3, GoesOnRecord
  <2>2. Placed(c)' /\ Inside(c) /\ ~Inside(c)'
    BY <1>1, <1>3, <2>1 DEF Placed, Inside, Fetches
  <2> QED
    BY <1>3, <2>1, <2>2, ReleaseRated
<1> QED
  BY <1>2, <1>3 DEF Raises

\* The first fetch of a configuration has come back: the capacities are applied.
LEMMA LimitsRated ==
    ASSUME TypeOK, Rated, NEW c \in Calls, Inside(c), call[c].stage = "limits",
           call[c].at # "new", limits' = "api", Enters(c, "costs"),
           UNCHANGED <<auto, configured, configuring, holder, costs>>
    PROVE  Rated' /\ call' \in [Calls -> CallState]
<1>1. /\ holder = c /\ configuring /\ ~configured /\ costs # "api"
      /\ call \in [Calls -> CallState] /\ Placed(c)
  BY CallsAssumption DEF Rated, Lock, Applied, TypeOK
<1>2. costs = "default"
  BY <1>1 DEF TypeOK, Sources
<1>3. /\ call' \in [Calls -> CallState] /\ Others(c)
      /\ call'[c].at = "entering" /\ call'[c].stage = "costs"
      /\ call'[c].kind = call[c].kind /\ call'[c].result = call[c].result
  BY <1>1, EntersRecord DEF Stages, Fetches
<1>4. \A d \in Calls : Inside(d)' <=> holder = d
  BY <1>1, <1>3 DEF Rated, Lock, Inside, Others, Fetches
<1>5. Lock'
  BY <1>1, <1>4 DEF Rated, Lock
<1>6. Applied'
  BY <1>1, <1>3, <1>4 DEF Applied
<1>7. ASSUME NEW d \in Calls
      PROVE  Placed(d)' /\ (PricesFit => Charged(d)')
  <2>1. CASE d = c
    BY <1>1, <1>3, <2>1 DEF Placed, Charged, Inside
  <2>2. CASE d # c
    <3>1. call'[d] = call[d] /\ Placed(d)
      BY <1>3, <2>2 DEF Others, Rated
    <3>2. Placed(d)'
      BY <3>1 DEF Placed
    <3>3. ASSUME PricesFit, call[d].at = "limiter" PROVE Charged(d)'
      <4>1. Endpoint(d) \in Endpoints /\ Endpoint(d)' = Endpoint(d)
        BY <1>1, <3>1, <3>3, EndpointType DEF Endpoint
      <4>2. call[d].cost = DefaultCost
        BY <1>2, <3>3 DEF Rated, Charged
      <4>3. DefaultCost \in 0 .. Published[BudgetOf(Endpoint(d))]
        BY <3>3, <4>1 DEF PricesFit
      <4>4. DefaultCost <= Published[BudgetOf(Endpoint(d))]
        BY <4>3, CapacityAssumption
      <4> QED
        BY <3>1, <4>1, <4>2, <4>4 DEF Charged, Capacity
    <3> QED
      BY <3>1, <3>2, <3>3 DEF Charged
  <2> QED
    BY <2>1, <2>2
<1>8. PricesFit' <=> PricesFit
  BY DEF PricesFit
<1> QED
  BY <1>3, <1>5, <1>6, <1>7, <1>8 DEF Rated

LEMMA ReturnsRated ==
    ASSUME TypeOK, Rated, NEW c \in Calls, call[c].at = "sent", Returns(c)
    PROVE  Rated' /\ call' \in [Calls -> CallState]
<1>1. call \in [Calls -> CallState] /\ Placed(c)
  BY DEF TypeOK, Rated
<1>2. CASE call[c].stage = "own" /\ Ends(c, "ok") /\ UNCHANGED rates
  <2>1. /\ call' \in [Calls -> CallState] /\ Others(c) /\ call'[c].at = "done"
        /\ call'[c].stage = call[c].stage /\ call'[c].kind = call[c].kind
    BY <1>1, <1>2, EndsRecord DEF Results
  <2>2. Placed(c)' /\ Charged(c)'
    BY <1>1, <2>1 DEF Placed, Charged
  <2> QED
    BY <1>2, <2>1, <2>2, MoveRated
<1>3. CASE call[c].stage = "limits"
  BY <1>3, LimitsRated DEF Returns, Inside, Fetch, Fetches
<1>4. CASE call[c].stage = "costs"
  <2>1. /\ Release /\ GoesOn(c) /\ limits' = limits /\ costs' = "api"
    BY <1>4 DEF Returns, Fetch
  <2>2. /\ call' \in [Calls -> CallState] /\ Others(c)
        /\ call'[c].stage = "own" /\ call'[c].kind = call[c].kind
        /\ call'[c].at \in {"entering", "done"}
        /\ call'[c].at # "done" => call'[c].result = call[c].result
    BY <1>1, <2>1, GoesOnRecord
  <2>3. Placed(c)' /\ Inside(c) /\ ~Inside(c)'
    BY <1>1, <1>4, <2>2 DEF Placed, Inside, Fetches
  <2> QED
    BY <1>4, <2>1, <2>2, <2>3, ReleaseRated
<1> QED
  BY <1>2, <1>3, <1>4 DEF Returns, Fetches

LEMMA PausesOrRaisesRated ==
    ASSUME TypeOK, Rated, NEW c \in Calls, call[c].at = "sent",
           NEW error \in Errors, PausesOrRaises(c, error)
    PROVE  Rated' /\ call' \in [Calls -> CallState]
<1>1. CASE Pauses(c)
  <2>1. /\ call' \in [Calls -> CallState] /\ Others(c) /\ Same(c) /\ call'[c].at = "pause"
        /\ UNCHANGED rates /\ Placed(c)
    BY <1>1, PausesRecord DEF TypeOK, Pauses, Rated
  <2>2. Placed(c)' /\ Charged(c)'
    BY <2>1 DEF Placed, Charged, Same
  <2> QED
    BY <2>1, <2>2, MoveRated DEF Same
<1>2. CASE Raises(c, error)
  BY <1>2, RaisesRated
<1> QED
  BY <1>1, <1>2 DEF PausesOrRaises

LEMMA SendsRated ==
    ASSUME TypeOK, Rated, NEW c \in Calls, call[c].at \in {"limiter", "pause"},
           NEW retries \in Nat, Sends(c, retries)
    PROVE  Rated' /\ call' \in [Calls -> CallState]
<1>1. /\ call' \in [Calls -> CallState] /\ Others(c) /\ Same(c) /\ call'[c].at = "sent"
      /\ UNCHANGED rates /\ Placed(c)
  BY SendsRecord DEF TypeOK, Sends, Rated
<1>2. Placed(c)' /\ Charged(c)'
  BY <1>1 DEF Placed, Charged, Same
<1> QED
  BY <1>1, <1>2, MoveRated DEF Same

LEMMA BeginRated ==
    ASSUME TypeOK, Rated, NEW c \in Calls, NEW kind \in Kinds, Begin(c, kind)
    PROVE  Rated' /\ call' \in [Calls -> CallState]
<1>1. /\ call' \in [Calls -> CallState] /\ Others(c) /\ call'[c].at = "entering"
      /\ call'[c].kind = kind /\ call'[c].stage = call[c].stage
      /\ call'[c].result = call[c].result
      /\ UNCHANGED rates /\ Placed(c) /\ call[c].at = "new"
  BY BeginRecord DEF TypeOK, Begin, Rated
<1>2. Placed(c)' /\ Charged(c)'
  BY <1>1 DEF Placed, Charged
<1> QED
  BY <1>1, <1>2, MoveRated

LEMMA AwaitLockRated ==
    ASSUME TypeOK, Rated, NEW c \in Calls, AwaitLock(c)
    PROVE  Rated' /\ call' \in [Calls -> CallState]
<1>1. /\ call' \in [Calls -> CallState] /\ Others(c) /\ Same(c) /\ call'[c].at = "lock"
      /\ UNCHANGED rates /\ Placed(c) /\ call[c].at = "entering" /\ holder # NoCall
  BY AwaitLockRecord DEF TypeOK, AwaitLock, Rated
<1>2. call[c].stage = "own"
  BY <1>1, CallFields DEF AwaitLock, MustConfigure, Rated, Lock, TypeOK, Stages
<1>3. Placed(c)' /\ Charged(c)'
  BY <1>1, <1>2 DEF Placed, Charged, Same
<1> QED
  BY <1>1, <1>3, MoveRated DEF Same

\* The lock is taken: the configuration begins, or was made by another call.
LEMMA ConfigureRated ==
    ASSUME TypeOK, Rated, NEW c \in Calls, Configure(c)
    PROVE  Rated' /\ call' \in [Calls -> CallState]
<1>1. /\ call \in [Calls -> CallState] /\ Placed(c) /\ holder = NoCall /\ ~configuring
      /\ call[c].at \in {"entering", "lock"}
      /\ \A d \in Calls : ~Inside(d)
  BY CallsAssumption DEF TypeOK, Rated, Lock, Configure
<1>2. call[c].stage = "own" /\ call[c].kind \in Kinds
  BY <1>1, CallFields DEF Inside, Stages, Placed
<1>3. CASE configured /\ GoesOn(c) /\ UNCHANGED <<configured, configuring, holder>>
  <2>1. /\ call' \in [Calls -> CallState] /\ Others(c)
        /\ call'[c].stage = "own" /\ call'[c].kind = call[c].kind
        /\ call'[c].at \in {"entering", "done"}
        /\ call'[c].at # "done" => call'[c].result = call[c].result
        /\ UNCHANGED rates
    BY <1>1, <1>3, GoesOnRecord DEF Configure, rates
  <2>2. Placed(c)' /\ Charged(c)'
    BY <1>1, <1>2, <2>1 DEF Placed, Charged
  <2> QED
    BY <1>2, <2>1, <2>2, MoveRated
<1>4. CASE /\ ~configured /\ configuring' = TRUE /\ holder' = c
           /\ Enters(c, Fetch(1)) /\ UNCHANGED configured
  <2>1. /\ call' \in [Calls -> CallState] /\ Others(c)
        /\ call'[c].at = "entering" /\ call'[c].stage = "limits"
        /\ call'[c].kind = call[c].kind /\ call'[c].result = call[c].result
        /\ UNCHANGED <<auto, limits, costs>>
    BY <1>1, <1>4, EntersRecord DEF Configure, Fetch, Stages, Fetches
  <2>2. \A d \in Calls : Inside(d)' <=> d = c
    BY <1>1, <2>1 DEF Inside, Others, Fetches
  <2>3. Lock'
    BY <1>4, <2>2, CallsAssumption DEF Lock
  <2>4. Applied'
    BY <1>1, <1>4, <2>1, <2>2 DEF Rated, Applied
  <2>5. ASSUME NEW d \in Calls
        PROVE  Placed(d)' /\ (PricesFit => Charged(d)')
    <3>1. CASE d = c
      BY <1>1, <1>2, <2>1, <3>1 DEF Placed, Charged
    <3>2. CASE d # c
      <4>1. call'[d] = call[d]
        BY <2>1, <3>2 DEF Others
      <4> QED
        BY <2>1, <4>1 DEF Rated, Placed, Charged, Capacity, Endpoint
    <3> QED
      BY <3>1, <3>2
  <2>6. PricesFit' <=> PricesFit
    BY DEF PricesFit
  <2> QED
    BY <2>1, <2>3, <2>4, <2>5, <2>6 DEF Rated
<1> QED
  BY <1>3, <1>4 DEF Configure

LEMMA AcquireRated ==
    ASSUME TypeOK, Rated, NEW c \in Calls, Acquire(c)
    PROVE  Rated' /\ call' \in [Calls -> CallState]
<1>1. /\ call \in [Calls -> CallState] /\ Placed(c) /\ call[c].at = "entering"
      /\ costs \in Sources /\ ~MustConfigure(c)
  BY DEF TypeOK, Rated, Acquire
<1>2. CASE /\ Cost(c) <= Capacity(BudgetOf(Endpoint(c)))
           /\ Becomes(c, [call[c] EXCEPT !.at = "limiter", !.cost = Cost(c)])
           /\ UNCHANGED rates
  <2>1. Endpoint(c) \in Endpoints
    BY <1>1, CallFields, KindsAssumption
       DEF Placed, MustConfigure, Endpoint, Endpoints, Stages, Fetches
  <2>2. Cost(c) \in Nat
    BY <2>1, CapacityAssumption DEF Cost
  <2>3. /\ call' \in [Calls -> CallState] /\ Others(c)
        /\ call'[c].at = "limiter" /\ call'[c].cost = Cost(c)
        /\ call'[c].kind = call[c].kind /\ call'[c].stage = call[c].stage
        /\ call'[c].result = call[c].result
    BY <1>1, <1>2, <2>2, WaitsRecord
  <2>4. Placed(c)'
    BY <1>1, <2>3 DEF Placed, MustConfigure
  <2>5. Charged(c)'
    <3>1. Endpoint(c)' = Endpoint(c) /\ \A b : Capacity(b)' = Capacity(b)
      BY <1>2, <2>3 DEF Endpoint, Capacity, rates
    <3>2. costs = "default" => Cost(c) = DefaultCost
      BY DEF Cost
    <3> QED
      BY <1>2, <2>3, <3>1, <3>2 DEF Charged, rates
  <2> QED
    BY <1>1, <1>2, <2>3, <2>4, <2>5, MoveRated
<1>3. CASE Raises(c, "refused")
  BY <1>1, <1>3, RaisesRated DEF Errors
<1> QED
  BY <1>2, <1>3 DEF Acquire

LEMMA CancelRated ==
    ASSUME TypeOK, Rated, NEW c \in Calls, Cancel(c)
    PROVE  Rated' /\ call' \in [Calls -> CallState]
<1>1. /\ call \in [Calls -> CallState] /\ Placed(c)
      /\ call[c].at \in {"lock", "limiter", "sent", "pause"}
  BY DEF TypeOK, Rated, Cancel
<1>2. /\ call' \in [Calls -> CallState] /\ Others(c) /\ call'[c].at = "done"
      /\ call'[c].stage = call[c].stage /\ call'[c].kind = call[c].kind
  BY <1>1, EndsRecord DEF Cancel, Results
<1>3. Placed(c)' /\ Charged(c)' /\ ~Inside(c)'
  BY <1>1, <1>2 DEF Placed, Charged, Inside
<1>4. CASE call[c].stage = "own" /\ UNCHANGED rates
  BY <1>2, <1>3, <1>4, MoveRated
<1>5. CASE call[c].stage \in Fetches /\ Release /\ UNCHANGED <<auto, limits, costs>>
  BY <1>1, <1>2, <1>3, <1>5, ReleaseRated DEF Inside
<1> QED
  BY <1>4, <1>5 DEF Cancel

-----------------------------------------------------------------------------
(* The attempts: retries spent, and executions they may have had.          *)

\* How a request that ends with "result" leaves its call.
Outcome(c, result) ==
    /\ Others(c) /\ call'[c].kind = call[c].kind
    /\ \/ /\ call[c].stage = "own" /\ call'[c].at = "done"
          /\ call'[c].result = result /\ call'[c].tries = call[c].tries
       \/ /\ call[c].stage \in Fetches /\ call'[c].at = "done"
          /\ call[c].kind = "configure" /\ call'[c].result = "ok"
          /\ call'[c].tries = call[c].tries
       \/ /\ call[c].stage \in Fetches /\ call'[c].at = "entering"
          /\ call'[c].result = call[c].result /\ call'[c].tries = 0

LEMMA RaisesOutcome ==
    ASSUME call \in [Calls -> CallState], NEW c \in Calls, NEW error \in Errors,
           Raises(c, error)
    PROVE  Outcome(c, error)
<1>1. CASE call[c].stage = "own" /\ Ends(c, error)
  BY <1>1, EndsRecord DEF Outcome, Results
<1>2. CASE call[c].stage \in Fetches /\ GoesOn(c)
  BY <1>2, GoesOnRecord DEF Outcome
<1> QED
  BY <1>1, <1>2 DEF Raises

LEMMA ReturnsOutcome ==
    ASSUME call \in [Calls -> CallState], NEW c \in Calls, Returns(c)
    PROVE  Outcome(c, "ok")
<1>1. CASE call[c].stage = "own" /\ Ends(c, "ok")
  BY <1>1, EndsRecord DEF Outcome, Results
<1>2. CASE call[c].stage \in Fetches /\ GoesOn(c)
  BY <1>2, GoesOnRecord DEF Outcome
<1>3. CASE call[c].stage \in Fetches /\ Enters(c, Fetch(2))
  BY <1>3, EntersRecord DEF Outcome, Stages, Fetches, Fetch
<1> QED
  BY <1>1, <1>2, <1>3 DEF Returns

LEMMA OutcomeCounted ==
    ASSUME TypeOK, NEW c \in Calls, Counted(c), Placed(c), call[c].at # "done",
           NEW result, Outcome(c, result),
           result \in {"too_many", "network"} => call[c].tries = MaxRetries + 1
    PROVE  Counted(c)'
BY RetriesAssumption DEF Outcome, Counted, Placed

LEMMA PausesOrRaisesCounted ==
    ASSUME TypeOK, NEW c \in Calls, Counted(c), Placed(c), call[c].at = "sent",
           NEW error \in Errors, PausesOrRaises(c, error)
    PROVE  Others(c) /\ Counted(c)'
<1>1. call \in [Calls -> CallState] /\ call[c].retries \in Nat
  BY CallFields DEF TypeOK
<1>2. CASE CanRetry(c) /\ Pauses(c)
  BY <1>1, <1>2, PausesRecord DEF Counted, CanRetry, Placed, Same
<1>3. CASE ~CanRetry(c) /\ Raises(c, error)
  <2>1. call[c].tries = MaxRetries + 1
    BY <1>1, <1>3, RetriesAssumption DEF Counted, CanRetry
  <2>2. Outcome(c, error)
    BY <1>1, <1>3, RaisesOutcome
  <2> QED
    BY <2>1, <2>2, OutcomeCounted DEF Outcome
<1> QED
  BY <1>2, <1>3 DEF PausesOrRaises

\* What a step does to the calls that do not make it.
LEMMA OthersCounted ==
    ASSUME NEW c \in Calls, Others(c), Counted(c)', \A d \in Calls : Counted(d)
    PROVE  \A d \in Calls : Counted(d)'
<1> SUFFICES ASSUME NEW d \in Calls PROVE Counted(d)'
  OBVIOUS
<1>1. CASE d = c
  BY <1>1
<1>2. CASE d # c
  BY <1>2 DEF Others, Counted
<1> QED
  BY <1>1, <1>2

LEMMA CountedStep ==
    ASSUME IInv, NEW c \in Calls,
           \/ \E kind \in Kinds : Begin(c, kind)
           \/ AwaitLock(c) \/ Configure(c) \/ Acquire(c)
           \/ Granted(c) \/ Retry(c) \/ Receive(c) \/ NetworkError(c) \/ Cancel(c)
    PROVE  \A d \in Calls : Counted(d)'
<1>1. /\ call \in [Calls -> CallState] /\ TypeOK /\ Counted(c) /\ Placed(c)
      /\ call[c].retries \in Nat /\ call[c].tries \in Nat
      /\ \A d \in Calls : Counted(d)
  BY CallFields DEF IInv, Rated, TypeOK
<1> SUFFICES Others(c) /\ Counted(c)'
  BY <1>1, OthersCounted
<1>2. CASE \E kind \in Kinds : Begin(c, kind)
  <2>1. PICK kind \in Kinds : Begin(c, kind)
    BY <1>2
  <2>2. call[c].at = "new"
    BY <2>1 DEF Begin
  <2> QED
    BY <1>1, <2>1, <2>2, BeginRecord DEF Counted
<1>3. CASE AwaitLock(c)
  <2>1. call[c].at = "entering"
    BY <1>3 DEF AwaitLock
  <2> QED
    BY <1>1, <1>3, <2>1, AwaitLockRecord DEF Counted, Same
<1>4. CASE Configure(c)
  <2>1. call[c].at \in {"entering", "lock"}
    BY <1>4 DEF Configure
  <2>2. CASE GoesOn(c)
    BY <1>1, <2>1, <2>2, GoesOnRecord, RetriesAssumption DEF Counted, Placed
  <2>3. CASE Enters(c, Fetch(1))
    BY <1>1, <2>1, <2>3, EntersRecord, RetriesAssumption
       DEF Counted, Placed, Fetch, Stages, Fetches
  <2> QED
    BY <1>4, <2>2, <2>3 DEF Configure
<1>5. CASE Acquire(c)
  <2>1. call[c].at = "entering" /\ call[c].tries = 0
    BY <1>1, <1>5 DEF Acquire, Counted
  <2>2. CASE Becomes(c, [call[c] EXCEPT !.at = "limiter", !.cost = Cost(c)]) /\ ~MustConfigure(c)
    <3>1. Endpoint(c) \in Endpoints
      BY <1>1, <2>1, <2>2, CallFields, KindsAssumption
         DEF Placed, MustConfigure, Endpoint, Endpoints, Stages, Fetches
    <3>2. Cost(c) \in Nat
      BY <3>1, CapacityAssumption DEF Cost
    <3> QED
      BY <1>1, <2>1, <2>2, <3>2, WaitsRecord DEF Counted
  <2>3. CASE Raises(c, "refused")
    <3>1. Outcome(c, "refused")
      BY <1>1, <2>3, RaisesOutcome DEF Errors
    <3> QED
      BY <1>1, <2>1, <3>1, OutcomeCounted DEF Outcome
  <2> QED
    BY <1>5, <2>2, <2>3 DEF Acquire
<1>6. CASE Granted(c)
  <2>1. call[c].at = "limiter" /\ Sends(c, 0)
    BY <1>6 DEF Granted
  <2> QED
    BY <1>1, <2>1, SendsRecord, RetriesAssumption DEF Counted, Same, Placed
<1>7. CASE Retry(c)
  <2>1. call[c].at = "pause" /\ Sends(c, call[c].retries + 1) /\ call[c].retries + 1 \in Nat
    BY <1>1, <1>7 DEF Retry
  <2> QED
    BY <1>1, <2>1, SendsRecord, RetriesAssumption DEF Counted, Same, Placed
<1>8. CASE Receive(c)
  <2>1. call[c].at = "sent"
    BY <1>8 DEF Receive
  <2>2. CASE TooMany(c)
    BY <1>1, <2>1, <2>2, PausesOrRaisesCounted DEF TooMany, Errors
  <2>3. CASE Failed(c)
    <3>1. Outcome(c, "failed")
      BY <1>1, <2>3, RaisesOutcome DEF Failed, Errors
    <3> QED
      BY <1>1, <2>1, <3>1, OutcomeCounted DEF Outcome
  <2>4. CASE Answered(c)
    <3>1. CASE Returns(c)
      <4>1. Outcome(c, "ok")
        BY <1>1, <3>1, ReturnsOutcome
      <4> QED
        BY <1>1, <2>1, <4>1, OutcomeCounted DEF Outcome
    <3>2. CASE Raises(c, "invalid")
      <4>1. Outcome(c, "invalid")
        BY <1>1, <3>2, RaisesOutcome DEF Errors
      <4> QED
        BY <1>1, <2>1, <4>1, OutcomeCounted DEF Outcome
    <3> QED
      BY <2>4, <3>1, <3>2 DEF Answered
  <2> QED
    BY <1>8, <2>2, <2>3, <2>4 DEF Receive
<1>9. CASE NetworkError(c)
  BY <1>1, <1>9, PausesOrRaisesCounted DEF NetworkError, Errors
<1>10. CASE Cancel(c)
  <2>1. Ends(c, "cancelled")
    BY <1>10 DEF Cancel
  <2> QED
    BY <1>1, <2>1, EndsRecord DEF Counted, Results
<1> QED
  BY <1>2, <1>3, <1>4, <1>5, <1>6, <1>7, <1>8, <1>9, <1>10

\* The exchange's side of the calls that do not make a step.
Elsewhere(c) ==
    \A d \in Calls : d # c =>
        executed'[d] = executed[d] /\ abandoned'[d] = abandoned[d] /\ faults'[d] = faults[d]

ExchangeTyped ==
    /\ abandoned \in [Calls -> Nat] /\ executed \in [Calls -> Nat] /\ faults \in [Calls -> Nat]

LEMMA ExecutesEffect ==
    ASSUME ExchangeTyped, NEW c \in Calls, Executes(c)
    PROVE  /\ ExchangeTyped' /\ Elsewhere(c)
           /\ abandoned'[c] = abandoned[c] /\ faults'[c] = faults[c]
           /\ executed'[c] = executed[c] + (IF call[c].stage = "own" THEN 1 ELSE 0)
<1>1. CASE call[c].stage = "own"
  BY <1>1 DEF Executes, ExchangeTyped, Elsewhere
<1>2. CASE call[c].stage # "own"
  BY <1>2 DEF Executes, ExchangeTyped, Elsewhere
<1> QED
  BY <1>1, <1>2

LEMMA AbandonsEffect ==
    ASSUME ExchangeTyped, NEW c \in Calls, Abandons(c), call[c].stage \in Stages
    PROVE  /\ abandoned' \in [Calls -> Nat]
           /\ \A d \in Calls : d # c => abandoned'[d] = abandoned[d]
           /\ \/ abandoned'[c] = abandoned[c]
              \/ abandoned'[c] = abandoned[c] + 1 /\ call[c].stage = "own"
<1>1. CASE call[c].at = "sent" /\ Endpoint(c) = "create"
  <2>1. call[c].stage = "own"
    BY <1>1 DEF Endpoint, Stages, Fetches
  <2> QED
    BY <1>1, <2>1 DEF Abandons, ExchangeTyped
<1>2. CASE ~(call[c].at = "sent" /\ Endpoint(c) = "create")
  BY <1>2 DEF Abandons, ExchangeTyped
<1> QED
  BY <1>1, <1>2

LEMMA FaultsEffect ==
    ASSUME ExchangeTyped, NEW c \in Calls, NetworkError(c)
    PROVE  /\ faults' \in [Calls -> Nat] /\ \A d \in Calls : d # c => faults'[d] = faults[d]
           /\ faults'[c] = faults[c] + (IF call[c].stage = "own" THEN 1 ELSE 0)
<1>1. CASE call[c].stage = "own"
  BY <1>1 DEF NetworkError, ExchangeTyped
<1>2. CASE call[c].stage # "own"
  BY <1>2 DEF NetworkError, ExchangeTyped
<1> QED
  BY <1>1, <1>2

LEMMA OthersEffects ==
    ASSUME NEW c \in Calls, Others(c), Elsewhere(c), Effects(c)', \A d \in Calls : Effects(d)
    PROVE  \A d \in Calls : Effects(d)'
<1> SUFFICES ASSUME NEW d \in Calls PROVE Effects(d)'
  OBVIOUS
<1>1. CASE d = c
  BY <1>1
<1>2. CASE d # c
  BY <1>2 DEF Others, Elsewhere, Effects
<1> QED
  BY <1>1, <1>2

\* A step without an effect on the exchange ends in no answer that was not there.
LEMMA QuietEffects ==
    ASSUME ExchangeTyped, NEW c \in Calls, UNCHANGED exchange, Effects(c), call[c].at # "done",
           call'[c].kind = call[c].kind \/ call'[c].result = "none",
           call'[c].result \in {"ok", "invalid"} => call[c].kind = "configure"
    PROVE  Effects(c)'
BY DEF Effects, exchange, ExchangeTyped

LEMMA OutcomeQuiet ==
    ASSUME ExchangeTyped, NEW c \in Calls, UNCHANGED exchange, Effects(c), Placed(c),
           call[c].at # "done", NEW error, error \notin {"ok", "invalid"}, Outcome(c, error)
    PROVE  Effects(c)'
BY QuietEffects DEF Outcome, Placed

LEMMA PausesOrRaisesShape ==
    ASSUME call \in [Calls -> CallState], NEW c \in Calls, NEW error \in Errors,
           PausesOrRaises(c, error)
    PROVE  \/ Outcome(c, error)
           \/ Others(c) /\ Same(c) /\ call'[c].at = "pause"
BY RaisesOutcome, PausesRecord DEF PausesOrRaises

LEMMA ReceiveEffects ==
    ASSUME IInv, NEW c \in Calls, Receive(c)
    PROVE  ExchangeTyped' /\ Others(c) /\ Elsewhere(c) /\ Effects(c)'
<1>1. /\ call \in [Calls -> CallState] /\ ExchangeTyped /\ Effects(c) /\ Placed(c)
      /\ call[c].at = "sent" /\ call[c].stage \in Stages
      /\ executed[c] \in Nat /\ abandoned[c] \in Nat /\ faults[c] \in Nat
  BY CallFields DEF IInv, Rated, TypeOK, ExchangeTyped, Receive
<1>2. CASE TooMany(c)
  <2>1. UNCHANGED exchange
    BY <1>2 DEF TooMany
  <2>2. Outcome(c, "too_many") \/ (Others(c) /\ Same(c) /\ call'[c].at = "pause")
    BY <1>1, <1>2, PausesOrRaisesShape DEF TooMany, Errors
  <2>3. CASE Outcome(c, "too_many")
    BY <1>1, <2>1, <2>3, OutcomeQuiet DEF Outcome, Elsewhere, exchange, ExchangeTyped
  <2>4. CASE Others(c) /\ Same(c) /\ call'[c].at = "pause"
    BY <1>1, <2>1, <2>4, QuietEffects DEF Same, Placed, Elsewhere, exchange, ExchangeTyped
  <2> QED
    BY <2>2, <2>3, <2>4
<1>3. CASE Failed(c)
  <2>1. Outcome(c, "failed")
    BY <1>1, <1>3, RaisesOutcome DEF Failed, Errors
  <2>2. CASE UNCHANGED exchange
    BY <1>1, <2>1, <2>2, OutcomeQuiet DEF Outcome, Elsewhere, exchange, ExchangeTyped
  <2>3. CASE Executes(c)
    BY <1>1, <2>1, <2>3, ExecutesEffect DEF Outcome, Effects, Placed, Stages, Fetches
  <2> QED
    BY <1>3, <2>2, <2>3 DEF Failed
<1>4. CASE Answered(c)
  <2>1. PICK result \in {"ok", "invalid"} : Outcome(c, result)
    BY <1>1, <1>4, RaisesOutcome, ReturnsOutcome DEF Answered, Errors
  <2> QED
    BY <1>1, <1>4, <2>1, ExecutesEffect DEF Answered, Outcome, Effects, Placed, Stages, Fetches
<1> QED
  BY <1>2, <1>3, <1>4 DEF Receive

LEMMA NetworkErrorEffects ==
    ASSUME IInv, NEW c \in Calls, NetworkError(c)
    PROVE  ExchangeTyped' /\ Others(c) /\ Elsewhere(c) /\ Effects(c)'
<1>1. /\ call \in [Calls -> CallState] /\ ExchangeTyped /\ Effects(c) /\ Placed(c)
      /\ call[c].at = "sent" /\ call[c].stage \in Stages
      /\ executed[c] \in Nat /\ abandoned[c] \in Nat /\ faults[c] \in Nat
  BY CallFields DEF IInv, Rated, TypeOK, ExchangeTyped, NetworkError
<1>2. Outcome(c, "network") \/ (Others(c) /\ Same(c) /\ call'[c].at = "pause")
  BY <1>1, PausesOrRaisesShape DEF NetworkError, Errors
<1>3. Abandons(c) /\ executed' = executed
  BY DEF NetworkError
<1>4. ExchangeTyped' /\ Others(c) /\ Elsewhere(c)
  BY <1>1, <1>2, <1>3, AbandonsEffect, FaultsEffect DEF ExchangeTyped, Elsewhere, Outcome
<1>5. /\ executed'[c] + abandoned'[c] <= faults'[c]
  BY <1>1, <1>3, AbandonsEffect, FaultsEffect DEF Effects, Stages, Fetches
<1>6. CASE Outcome(c, "network")
  BY <1>1, <1>3, <1>4, <1>5, <1>6 DEF Outcome, Effects, Placed, ExchangeTyped
<1>7. CASE Others(c) /\ Same(c) /\ call'[c].at = "pause"
  BY <1>1, <1>3, <1>4, <1>5, <1>7 DEF Same, Effects, Placed, ExchangeTyped
<1> QED
  BY <1>2, <1>4, <1>6, <1>7

LEMMA CancelEffects ==
    ASSUME IInv, NEW c \in Calls, Cancel(c)
    PROVE  ExchangeTyped' /\ Others(c) /\ Elsewhere(c) /\ Effects(c)'
<1>1. /\ call \in [Calls -> CallState] /\ ExchangeTyped /\ Effects(c)
      /\ call[c].at # "done" /\ call[c].stage \in Stages
      /\ executed[c] \in Nat /\ abandoned[c] \in Nat /\ faults[c] \in Nat
  BY CallFields DEF IInv, TypeOK, ExchangeTyped, Cancel
<1>2. Others(c) /\ call'[c].at = "done" /\ call'[c].result = "cancelled"
  BY <1>1, EndsRecord DEF Cancel, Results
<1>3. Abandons(c) /\ executed' = executed /\ faults' = faults
  BY DEF Cancel
<1> QED
  BY <1>1, <1>2, <1>3, AbandonsEffect DEF ExchangeTyped, Elsewhere, Effects

LEMMA LateEffects ==
    ASSUME IInv, NEW c \in Calls, Late(c)
    PROVE  ExchangeTyped' /\ Others(c) /\ Elsewhere(c) /\ Effects(c)'
<1>1. /\ ExchangeTyped /\ Effects(c) /\ call' = call /\ faults' = faults
      /\ executed[c] \in Nat /\ abandoned[c] \in Nat /\ faults[c] \in Nat /\ abandoned[c] > 0
  BY DEF IInv, TypeOK, ExchangeTyped, Late
<1>2. /\ abandoned' \in [Calls -> Nat] /\ abandoned'[c] = abandoned[c] - 1
      /\ \A d \in Calls : d # c => abandoned'[d] = abandoned[d]
  BY <1>1 DEF Late, ExchangeTyped
<1>3. /\ executed' \in [Calls -> Nat] /\ executed'[c] \in {executed[c], executed[c] + 1}
      /\ \A d \in Calls : d # c => executed'[d] = executed[d]
  BY <1>1 DEF Late, ExchangeTyped
<1>4. executed'[c] + abandoned'[c] <= executed[c] + abandoned[c] /\ executed'[c] >= executed[c]
  BY <1>1, <1>2, <1>3
<1> QED
  BY <1>1, <1>2, <1>3, <1>4 DEF ExchangeTyped, Others, Elsewhere, Effects

LEMMA QuietStep ==
    ASSUME IInv, NEW c \in Calls,
           \/ \E kind \in Kinds : Begin(c, kind)
           \/ AwaitLock(c) \/ Configure(c) \/ Acquire(c) \/ Granted(c) \/ Retry(c)
    PROVE  ExchangeTyped' /\ Others(c) /\ Elsewhere(c) /\ Effects(c)'
<1>1. /\ call \in [Calls -> CallState] /\ TypeOK /\ ExchangeTyped /\ Effects(c) /\ Placed(c)
      /\ call[c].retries \in Nat /\ call[c].at # "done" /\ UNCHANGED exchange
  BY CallFields
     DEF IInv, Rated, TypeOK, ExchangeTyped, Begin, AwaitLock, Configure, Acquire,
         Granted, Retry, Sends
<1>2. ExchangeTyped' /\ Elsewhere(c)
  BY <1>1 DEF ExchangeTyped, Elsewhere, exchange
<1> SUFFICES Others(c) /\ Effects(c)'
  BY <1>2
<1>3. CASE \E kind \in Kinds : Begin(c, kind)
  BY <1>1, <1>3, BeginRecord, QuietEffects DEF Placed
<1>4. CASE AwaitLock(c)
  BY <1>1, <1>4, AwaitLockRecord, QuietEffects DEF Placed, Same
<1>5. CASE Configure(c)
  <2>1. CASE GoesOn(c)
    BY <1>1, <2>1, GoesOnRecord, QuietEffects DEF Placed
  <2>2. CASE Enters(c, Fetch(1))
    BY <1>1, <2>2, EntersRecord, QuietEffects DEF Placed, Fetch, Stages, Fetches
  <2> QED
    BY <1>5, <2>1, <2>2 DEF Configure
<1>6. CASE Acquire(c)
  <2>1. CASE Becomes(c, [call[c] EXCEPT !.at = "limiter", !.cost = Cost(c)]) /\ ~MustConfigure(c)
    <3>1. Endpoint(c) \in Endpoints
      BY <1>1, <1>6, <2>1, CallFields, KindsAssumption
         DEF Acquire, Placed, MustConfigure, Endpoint, Endpoints, Stages, Fetches
    <3>2. Cost(c) \in Nat
      BY <3>1, CapacityAssumption DEF Cost
    <3> QED
      BY <1>1, <2>1, <3>2, WaitsRecord, QuietEffects DEF Placed
  <2>2. CASE Raises(c, "refused")
    <3>1. Outcome(c, "refused")
      BY <1>1, <2>2, RaisesOutcome DEF Errors
    <3> QED
      BY <1>1, <3>1, OutcomeQuiet DEF Outcome
  <2> QED
    BY <1>6, <2>1, <2>2 DEF Acquire
<1>7. CASE Granted(c)
  BY <1>1, <1>7, SendsRecord, QuietEffects DEF Granted, Placed, Same
<1>8. CASE Retry(c)
  <2>1. Sends(c, call[c].retries + 1) /\ call[c].retries + 1 \in Nat
    BY <1>1, <1>8 DEF Retry
  <2> QED
    BY <1>1, <2>1, SendsRecord, QuietEffects DEF Placed, Same
<1> QED
  BY <1>3, <1>4, <1>5, <1>6, <1>7, <1>8

-----------------------------------------------------------------------------
(* The inductive invariant and the theorems.                               *)

LEMMA InitIInv == Init => IInv
<1> SUFFICES ASSUME Init PROVE IInv
  OBVIOUS
<1>1. TypeOK
  BY DEF Init, TypeOK, CallState, Stages, Results, Sources
<1>2. ASSUME NEW c \in Calls
      PROVE  Placed(c) /\ Counted(c) /\ Effects(c) /\ Charged(c) /\ ~Inside(c)
  BY RetriesAssumption DEF Init, Placed, Counted, Effects, Charged, Inside, Fetches
<1>3. Lock /\ Applied
  BY <1>2, CallsAssumption DEF Init, Lock, Applied
<1> QED
  BY <1>1, <1>2, <1>3 DEF IInv, Rated

\* The rates are well typed after any step that keeps the lock's invariant.
LEMMA RatesType ==
    ASSUME TypeOK, NEW c \in Calls,
           \/ UNCHANGED rates
           \/ Release /\ UNCHANGED <<auto, limits, costs>>
           \/ Configure(c) \/ Returns(c)
    PROVE  /\ auto' \in BOOLEAN /\ configured' \in BOOLEAN /\ configuring' \in BOOLEAN
           /\ holder' \in Calls \cup {NoCall}
           /\ limits' \in Sources /\ costs' \in Sources
<1>1. CASE UNCHANGED rates
  BY <1>1 DEF TypeOK, rates
<1>2. CASE Release /\ UNCHANGED <<auto, limits, costs>>
  BY <1>2 DEF TypeOK, Release
<1>3. CASE Configure(c)
  BY <1>3 DEF TypeOK, Configure
<1>4. CASE Returns(c)
  BY <1>4 DEF TypeOK, Returns, rates, Release, Sources
<1> QED
  BY <1>1, <1>2, <1>3, <1>4

LEMMA RaisesRates ==
    ASSUME NEW c \in Calls, NEW error, Raises(c, error)
    PROVE  UNCHANGED rates \/ (Release /\ UNCHANGED <<auto, limits, costs>>)
BY DEF Raises

\* One step of one call.
LEMMA CallStep ==
    ASSUME IInv, NEW c \in Calls,
           \/ \E kind \in Kinds : Begin(c, kind)
           \/ AwaitLock(c) \/ Configure(c) \/ Acquire(c)
           \/ Granted(c) \/ Retry(c) \/ Receive(c) \/ NetworkError(c) \/ Cancel(c)
    PROVE  IInv'
<1>1. TypeOK /\ Rated
  BY DEF IInv
<1>2. Rated' /\ call' \in [Calls -> CallState]
  <2>1. CASE \E kind \in Kinds : Begin(c, kind)
    BY <1>1, <2>1, BeginRated
  <2>2. CASE AwaitLock(c)
    BY <1>1, <2>2, AwaitLockRated
  <2>3. CASE Configure(c)
    BY <1>1, <2>3, ConfigureRated
  <2>4. CASE Acquire(c)
    BY <1>1, <2>4, AcquireRated
  <2>5. CASE Granted(c)
    BY <1>1, <2>5, SendsRated DEF Granted
  <2>6. CASE Retry(c)
    <3>1. call[c].retries + 1 \in Nat
      BY <1>1, CallFields DEF TypeOK
    <3> QED
      BY <1>1, <2>6, <3>1, SendsRated DEF Retry
  <2>7. CASE Receive(c)
    BY <1>1, <2>7, PausesOrRaisesRated, RaisesRated, ReturnsRated
       DEF Receive, TooMany, Failed, Answered, Errors
  <2>8. CASE NetworkError(c)
    BY <1>1, <2>8, PausesOrRaisesRated DEF NetworkError, Errors
  <2>9. CASE Cancel(c)
    BY <1>1, <2>9, CancelRated
  <2> QED
    BY <2>1, <2>2, <2>3, <2>4, <2>5, <2>6, <2>7, <2>8, <2>9
<1>3. \A d \in Calls : Counted(d)'
  BY CountedStep
<1>4. ExchangeTyped' /\ \A d \in Calls : Effects(d)'
  <2>1. ExchangeTyped' /\ Others(c) /\ Elsewhere(c) /\ Effects(c)'
    BY QuietStep, ReceiveEffects, NetworkErrorEffects, CancelEffects
  <2>2. \A d \in Calls : Effects(d)
    BY DEF IInv
  <2> QED
    BY <2>1, <2>2, OthersEffects
<1>5. \/ UNCHANGED rates
      \/ Release /\ UNCHANGED <<auto, limits, costs>>
      \/ Configure(c) \/ Returns(c)
  <2>1. CASE Acquire(c)
    BY <2>1, RaisesRates DEF Acquire
  <2>2. CASE Receive(c)
    BY <2>2, RaisesRates DEF Receive, TooMany, Failed, Answered, PausesOrRaises, Pauses
  <2>3. CASE NetworkError(c)
    BY <2>3, RaisesRates DEF NetworkError, PausesOrRaises, Pauses
  <2> QED
    BY <2>1, <2>2, <2>3 DEF Begin, AwaitLock, Granted, Retry, Sends, Cancel
<1>6. TypeOK'
  BY <1>1, <1>2, <1>4, <1>5, RatesType DEF TypeOK, ExchangeTyped
<1> QED
  BY <1>2, <1>3, <1>4, <1>6 DEF IInv

LEMMA LateStep ==
    ASSUME IInv, NEW c \in Calls, Late(c)
    PROVE  IInv'
<1>1. UNCHANGED <<rates, call>> /\ TypeOK /\ Rated /\ \A d \in Calls : Effects(d) /\ Counted(d)
  BY DEF Late, IInv
<1>2. Rated'
  BY <1>1 DEF Rated, Lock, Applied, Placed, Charged, PricesFit, Inside, Capacity, Endpoint, rates
<1>3. ExchangeTyped' /\ \A d \in Calls : Effects(d)'
  BY <1>1, LateEffects, OthersEffects
<1>4. \A d \in Calls : Counted(d)'
  BY <1>1 DEF Counted
<1>5. TypeOK'
  BY <1>1, <1>3 DEF TypeOK, ExchangeTyped, rates
<1> QED
  BY <1>2, <1>3, <1>4, <1>5 DEF IInv

LEMMA NextIInv == IInv /\ [Next]_vars => IInv'
<1> SUFFICES ASSUME IInv, [Next]_vars PROVE IInv'
  OBVIOUS
<1>1. CASE UNCHANGED vars
  BY <1>1
     DEF vars, rates, exchange, IInv, TypeOK, Rated, Lock, Applied, Placed, Charged, PricesFit,
         Inside, Capacity, Endpoint, Counted, Effects
<1>2. CASE \E c \in Calls : Late(c)
  BY <1>2, LateStep
<1>3. CASE \E c \in Calls :
               \/ \E kind \in Kinds : Begin(c, kind)
               \/ AwaitLock(c) \/ Configure(c) \/ Acquire(c)
               \/ Granted(c) \/ Retry(c) \/ Receive(c) \/ NetworkError(c) \/ Cancel(c)
  BY <1>3, CallStep
<1> QED
  BY <1>1, <1>2, <1>3 DEF Next, Entering, Step

LEMMA InvariantHolds == Spec => []IInv
<1>1. Init => IInv
  BY InitIInv
<1>2. IInv /\ [Next]_vars => IInv'
  BY NextIInv
<1> QED
  BY <1>1, <1>2, PTL DEF Spec

\* The engine's state is well typed, whatever fails (http_client.py 195-356).
THEOREM EngineTypeCorrect == Spec => []TypeOK
<1>1. IInv => TypeOK
  BY DEF IInv
<1> QED
  BY <1>1, InvariantHolds, PTL

\* Retries are bounded and all spent, for any max_retries (http_client.py 295-356).
THEOREM RetriesAreSpent == Spec => []RetriesSpent
<1>1. IInv => RetriesSpent
  BY DEF IInv, Counted, RetriesSpent
<1> QED
  BY <1>1, InvariantHolds, PTL

\* Only what was executed is answered (http_client.py 298-339).
THEOREM AnswersAreExecuted == Spec => []AnswerIsExecuted
<1>1. IInv => AnswerIsExecuted
  BY DEF IInv, Effects, AnswerIsExecuted
<1> QED
  BY <1>1, InvariantHolds, PTL

\* Every execution but one is owed to a network error (http_client.py 300-356).
THEOREM DuplicatesBounded == Spec => []DuplicatesAreFaults
<1>1. IInv => DuplicatesAreFaults
  <2> SUFFICES ASSUME IInv, NEW c \in Calls
               PROVE  executed[c] + abandoned[c] <= 1 + faults[c]
    BY DEF DuplicatesAreFaults
  <2>1. Effects(c) /\ executed[c] \in Nat /\ abandoned[c] \in Nat /\ faults[c] \in Nat
    BY DEF IInv, TypeOK
  <2> QED
    BY <2>1 DEF Effects
<1> QED
  BY <1>1, InvariantHolds, PTL

\* At most one call configures, and the flag tells which (http_client.py 204-217).
THEOREM OneCallConfigures == Spec => []OneConfigures
<1>1. IInv => OneConfigures
  BY DEF IInv, Rated, Lock, Inside, OneConfigures
<1> QED
  BY <1>1, InvariantHolds, PTL

\* No request waits for, or is refused, a cost that the budgets in force cannot
\* hold, unless the fallback capacity is to blame (http_client.py 219-255).
THEOREM CostsAreAffordable == Spec => []Affordable
<1>1. IInv => Affordable
  <2> SUFFICES ASSUME IInv, PricesFit, NEW c \in Calls
               PROVE  /\ call[c].at = "limiter" =>
                             call[c].cost <= Capacity(BudgetOf(Endpoint(c)))
                      /\ call[c].at = "entering" /\ ~MustConfigure(c)
                             => \/ Cost(c) <= Capacity(BudgetOf(Endpoint(c)))
                                \/ limits = "default" /\ costs = "default"
    BY DEF Affordable
  <2>1. /\ TypeOK /\ Placed(c) /\ Charged(c) /\ Applied
        /\ limits \in Sources /\ costs \in Sources /\ call \in [Calls -> CallState]
    BY DEF IInv, Rated, TypeOK
  <2>2. ASSUME call[c].at = "entering", ~MustConfigure(c), limits = "api"
        PROVE  Cost(c) <= Capacity(BudgetOf(Endpoint(c)))
    <3>1. Endpoint(c) \in Endpoints
      BY <2>1, <2>2, CallFields, KindsAssumption
         DEF Placed, MustConfigure, Endpoint, Endpoints, Stages, Fetches
    <3>2. {Price[Endpoint(c)], DefaultCost} \subseteq 0 .. Published[BudgetOf(Endpoint(c))]
      BY <3>1 DEF PricesFit
    <3>3. /\ Price[Endpoint(c)] <= Published[BudgetOf(Endpoint(c))]
          /\ DefaultCost <= Published[BudgetOf(Endpoint(c))]
      BY <3>2
    <3> QED
      BY <2>2, <3>3 DEF Cost, Capacity
  <2> QED
    BY <2>1, <2>2 DEF Charged, Applied, Sources
<1> QED
  BY <1>1, InvariantHolds, PTL

\* After the mark, neither capacities nor prices change (http_client.py 204-217).
THEOREM RatesSettle == Spec => Settled
<1>1. IInv /\ [Next]_vars => [configured => UNCHANGED <<limits, costs>>]_vars
  <2> SUFFICES ASSUME IInv, Next, configured PROVE UNCHANGED <<limits, costs>>
    BY DEF vars
  <2>1. ASSUME NEW c \in Calls, call[c].at = "sent", Returns(c)
        PROVE  UNCHANGED <<limits, costs>>
    BY <2>1, CallsAssumption DEF IInv, Rated, Lock, Inside, Returns, rates
  <2>2. ASSUME NEW c \in Calls, NEW error, Raises(c, error)
        PROVE  UNCHANGED <<limits, costs>>
    BY <2>2 DEF Raises, rates
  <2>3. ASSUME NEW c \in Calls, NEW error, PausesOrRaises(c, error)
        PROVE  UNCHANGED <<limits, costs>>
    BY <2>2, <2>3 DEF PausesOrRaises, Pauses, rates
  <2>4. ASSUME NEW c \in Calls, Receive(c) \/ NetworkError(c) \/ Acquire(c)
        PROVE  UNCHANGED <<limits, costs>>
    BY <2>1, <2>2, <2>3, <2>4
       DEF Receive, TooMany, Failed, Answered, NetworkError, Acquire, rates
  <2>5. ASSUME NEW c \in Calls,
               \/ \E kind \in Kinds : Begin(c, kind)
               \/ AwaitLock(c) \/ Configure(c) \/ Granted(c) \/ Retry(c)
               \/ Cancel(c) \/ Late(c)
        PROVE  UNCHANGED <<limits, costs>>
    BY <2>5 DEF Begin, AwaitLock, Configure, Granted, Retry, Sends, Cancel, Late, rates
  <2> QED
    BY <2>4, <2>5 DEF Next, Entering, Step, vars, rates
<1> QED
  BY <1>1, InvariantHolds, PTL DEF Spec, Settled

-----------------------------------------------------------------------------
(* The engine implements RemoteCall.                                       *)

Maps == [Abstract!Next]_(Abstract!vars)
Quiet == UNCHANGED <<abandoned, executed>>

\* A step of one call changes what is seen of that call.
LEMMA SeenStep ==
    ASSUME NEW c \in Calls, Others(c)
    PROVE  /\ Requested' = [Requested EXCEPT ![c] = Seen(c)']
           /\ Requested[c] = Seen(c)
<1>1. ASSUME NEW d \in Calls, d # c PROVE Seen(d)' = Seen(d)
  <2>1. call'[d] = call[d]
    BY <1>1 DEF Others
  <2> QED
    BY <2>1 DEF Seen, Standing, Sendings
<1> QED
  BY <1>1 DEF Requested

\* A step after which as much is seen of the call as before.
LEMMA UnseenStep ==
    ASSUME NEW c \in Calls, Others(c), Quiet, call'[c].kind = call[c].kind,
           Standing(c)' = Standing(c), Sendings(c)' = Sendings(c)
    PROVE  Maps
<1>1. Seen(c)' = Seen(c)
  BY DEF Seen
<1>2. Requested' = Requested
  BY <1>1, SeenStep DEF Requested
<1> QED
  BY <1>2 DEF Maps, Quiet, Abstract!vars

\* A step that changes how a call stands, and nothing else of it.
LEMMA StandsStep ==
    ASSUME NEW c \in Calls, Others(c), NEW stands, call'[c].kind = call[c].kind,
           Standing(c)' = stands, Sendings(c)' = Sendings(c)
    PROVE  Abstract!Becomes(c, stands)
<1>1. Seen(c)' = [Seen(c) EXCEPT !.stands = stands]
  BY DEF Seen
<1> QED
  BY <1>1, SeenStep DEF Abstract!Becomes

LEMMA RequestedOf ==
    ASSUME NEW c \in Calls
    PROVE  /\ Requested[c].kind = call[c].kind /\ Requested[c].stands = Standing(c)
           /\ Requested[c].attempts = Sendings(c)
BY DEF Requested, Seen

\* The end of a configuration, and the way into a request: the call of
\* configure_rate_limits has what it wanted, any other has not been sent yet.
LEMMA GoesOnMaps ==
    ASSUME IInv, NEW c \in Calls, GoesOn(c), Quiet, Standing(c) = "open", Sendings(c) = 0
    PROVE  Others(c) /\ Maps
<1>1. /\ call \in [Calls -> CallState]
      /\ Others(c) /\ call'[c].stage = "own" /\ call'[c].kind = call[c].kind
  BY GoesOnRecord DEF IInv, TypeOK
<1>2. CASE call[c].kind = "configure"
  <2>1. call'[c].at = "done" /\ call'[c].result = "ok"
    BY <1>1, <1>2, GoesOnRecord
  <2>2. Standing(c)' = "ok" /\ Sendings(c)' = 0
    BY <1>1, <1>2, <2>1 DEF Standing, Sendings
  <2>3. Abstract!Configured(c)
    BY <1>1, <1>2, <2>2, StandsStep, RequestedOf
       DEF Abstract!Configured, Abstract!Ready, Quiet
  <2> QED
    BY <1>1, <2>3 DEF Maps, Abstract!Next
<1>3. CASE call[c].kind # "configure"
  <2>1. call'[c].at = "entering" /\ call'[c].tries = 0
    BY <1>1, <1>3, GoesOnRecord
  <2>2. Standing(c)' = "open" /\ Sendings(c)' = 0
    BY <1>1, <2>1 DEF Standing, Sendings
  <2> QED
    BY <1>1, <2>2, UnseenStep
<1> QED
  BY <1>2, <1>3

\* An exception out of a fetch is no part of the call.
LEMMA FetchRaisesMaps ==
    ASSUME IInv, NEW c \in Calls, call[c].stage \in Fetches,
           call[c].at \in {"entering", "sent"}, NEW error, Raises(c, error), Quiet
    PROVE  Maps
<1>1. GoesOn(c)
  BY DEF Raises, Fetches
<1>2. Standing(c) = "open" /\ Sendings(c) = 0
  BY DEF Standing, Sendings, Fetches
<1> QED
  BY <1>1, <1>2, GoesOnMaps

\* The call's own request ends.
LEMMA OwnEnds ==
    ASSUME IInv, NEW c \in Calls, call[c].stage = "own", NEW result \in Results,
           Ends(c, result)
    PROVE  Abstract!Becomes(c, result)
<1>1. /\ Others(c) /\ call'[c].at = "done" /\ call'[c].result = result
      /\ call'[c].stage = call[c].stage /\ call'[c].kind = call[c].kind
      /\ call'[c].tries = call[c].tries
  BY EndsRecord DEF IInv, TypeOK
<1>2. Standing(c)' = result /\ Sendings(c)' = Sendings(c)
  BY <1>1 DEF Standing, Sendings
<1> QED
  BY <1>1, <1>2, StandsStep

\* What is seen of an attempt under way.
LEMMA SentSeen ==
    ASSUME IInv, NEW c \in Calls, call[c].at = "sent"
    PROVE  /\ call \in [Calls -> CallState]
           /\ call[c].stage = "own" \/ call[c].stage \in Fetches
           /\ call[c].stage = "own" =>
                  /\ call[c].kind # "configure" /\ Standing(c) = "away"
                  /\ Sendings(c) = call[c].retries + 1
           /\ call[c].stage \in Fetches => Standing(c) = "open" /\ Sendings(c) = 0
           /\ call[c].retries \in Nat
<1>1. call \in [Calls -> CallState] /\ Placed(c) /\ Counted(c)
  BY DEF IInv, Rated, TypeOK
<1>2. call[c].stage \in Stages /\ call[c].retries \in Nat
  BY <1>1, CallFields
<1> QED
  BY <1>1, <1>2 DEF Placed, Counted, Standing, Sendings, Stages, Fetches

LEMMA PausesMaps ==
    ASSUME IInv, NEW c \in Calls, call[c].at = "sent", Pauses(c)
    PROVE  /\ call[c].stage = "own" => Abstract!Becomes(c, "open")
           /\ call[c].stage \in Fetches /\ Quiet => Maps
<1>1. /\ Others(c) /\ Same(c) /\ call'[c].at = "pause" /\ call'[c].tries = call[c].tries
  BY PausesRecord DEF IInv, TypeOK
<1>2. Standing(c)' = "open" /\ Sendings(c)' = Sendings(c)
  BY <1>1 DEF Same, Standing, Sendings
<1>3. call[c].stage \in Fetches => Standing(c) = "open"
  BY SentSeen
<1> QED
  BY <1>1, <1>2, <1>3, StandsStep, UnseenStep DEF Same

\* After a 429 or a network error: one more attempt while there are any.
LEMMA PausesOrRaisesMaps ==
    ASSUME IInv, NEW c \in Calls, call[c].at = "sent", NEW error \in Errors,
           PausesOrRaises(c, error)
    PROVE  /\ call[c].stage = "own" => Abstract!Again(c, error)
           /\ call[c].stage \in Fetches /\ Quiet => Maps
<1>1. call[c].retries \in Nat /\ MaxRetries \in Nat /\ error \in Results
  BY SentSeen, RetriesAssumption DEF Results
<1>2. ASSUME call[c].stage = "own" PROVE Abstract!Again(c, error)
  <2>1. Requested[c].stands = "away" /\ Requested[c].attempts = call[c].retries + 1
    BY <1>2, SentSeen, RequestedOf
  <2>2. CASE CanRetry(c) /\ Pauses(c)
    <3>1. Requested[c].attempts < MaxRetries + 1
      BY <1>1, <2>1, <2>2 DEF CanRetry
    <3> QED
      BY <1>2, <2>1, <2>2, <3>1, PausesMaps DEF Abstract!Again, Abstract!Away
  <2>3. CASE ~CanRetry(c) /\ Raises(c, error)
    <3>1. ~(Requested[c].attempts < MaxRetries + 1)
      BY <1>1, <2>1, <2>3 DEF CanRetry
    <3>2. Abstract!Becomes(c, error)
      BY <1>1, <1>2, <2>3, OwnEnds DEF Raises, Fetches
    <3> QED
      BY <2>1, <3>1, <3>2 DEF Abstract!Again, Abstract!Away
  <2> QED
    BY <2>2, <2>3 DEF PausesOrRaises
<1>3. ASSUME call[c].stage \in Fetches, Quiet PROVE Maps
  BY <1>3, PausesMaps, FetchRaisesMaps DEF PausesOrRaises
<1> QED
  BY <1>2, <1>3

LEMMA BeginMaps ==
    ASSUME IInv, NEW c \in Calls, NEW kind \in Kinds, Begin(c, kind)
    PROVE  Maps
<1>1. /\ call \in [Calls -> CallState] /\ Placed(c) /\ Counted(c) /\ call[c].at = "new" /\ Quiet
  BY DEF IInv, Rated, TypeOK, Begin, exchange, Quiet
<1>2. /\ Others(c) /\ call'[c].at = "entering" /\ call'[c].kind = kind
      /\ call'[c].tries = 0 /\ call[c].tries = 0
  BY <1>1, BeginRecord DEF Counted
<1>3. Standing(c) = "new" /\ Standing(c)' = "open" /\ Sendings(c) = 0 /\ Sendings(c)' = 0
  BY <1>1, <1>2 DEF Standing, Sendings
<1>4. Seen(c)' = [Seen(c) EXCEPT !.kind = kind, !.stands = "open"]
  <2>1. Seen(c)' = [kind |-> kind, stands |-> "open", attempts |-> 0]
    BY <1>2, <1>3 DEF Seen
  <2>2. Seen(c) = [kind |-> call[c].kind, stands |-> "new", attempts |-> 0]
    BY <1>3 DEF Seen
  <2> DEFINE begun == [Seen(c) EXCEPT !.kind = kind]
  <2>3. begun = [kind |-> kind, stands |-> "new", attempts |-> 0]
    BY <2>2
  <2>4. [begun EXCEPT !.stands = "open"] = [Seen(c) EXCEPT !.kind = kind, !.stands = "open"]
    OBVIOUS
  <2> HIDE DEF begun
  <2>5. [begun EXCEPT !.stands = "open"] = [kind |-> kind, stands |-> "open", attempts |-> 0]
    BY <2>3
  <2> QED
    BY <2>1, <2>4, <2>5, Zenon
<1>5. Abstract!Begin(c, kind)
  BY <1>1, <1>2, <1>3, <1>4, SeenStep, RequestedOf DEF Abstract!Begin, Quiet
<1> QED
  BY <1>5 DEF Maps, Abstract!Next

\* What is seen of a call on its way into a request.
LEMMA EnteringSeen ==
    ASSUME IInv, NEW c \in Calls, call[c].at \in {"entering", "lock", "limiter"}
    PROVE  /\ call \in [Calls -> CallState]
           /\ Standing(c) = "open" /\ Sendings(c) = 0 /\ call[c].tries = 0
<1>1. call \in [Calls -> CallState] /\ Counted(c)
  BY DEF IInv, TypeOK
<1> QED
  BY <1>1 DEF Counted, Standing, Sendings

LEMMA AwaitLockMaps ==
    ASSUME IInv, NEW c \in Calls, AwaitLock(c)
    PROVE  Maps
<1>1. call[c].at = "entering" /\ Quiet
  BY DEF AwaitLock, exchange, Quiet
<1>2. Others(c) /\ Same(c) /\ call'[c].at = "lock" /\ call'[c].tries = call[c].tries
  BY <1>1, EnteringSeen, AwaitLockRecord
<1>3. Standing(c)' = "open" /\ Sendings(c)' = Sendings(c)
  BY <1>2 DEF Same, Standing, Sendings
<1> QED
  BY <1>1, <1>2, <1>3, EnteringSeen, UnseenStep DEF Same

LEMMA ConfigureMaps ==
    ASSUME IInv, NEW c \in Calls, Configure(c)
    PROVE  Maps
<1>1. call[c].at \in {"entering", "lock"} /\ Quiet
  BY DEF Configure, exchange, Quiet
<1>2. CASE GoesOn(c)
  BY <1>1, <1>2, EnteringSeen, GoesOnMaps
<1>3. CASE Enters(c, Fetch(1))
  <2>1. /\ Others(c) /\ call'[c].kind = call[c].kind
        /\ call'[c].at = "entering" /\ call'[c].tries = 0
    BY <1>1, <1>3, EnteringSeen, EntersRecord DEF Fetch, Stages, Fetches
  <2>2. Standing(c)' = "open" /\ Sendings(c)' = 0
    BY <2>1 DEF Standing, Sendings
  <2> QED
    BY <1>1, <2>1, <2>2, EnteringSeen, UnseenStep
<1> QED
  BY <1>2, <1>3 DEF Configure

LEMMA AcquireMaps ==
    ASSUME IInv, NEW c \in Calls, Acquire(c)
    PROVE  Maps
<1>1. /\ call[c].at = "entering" /\ Quiet
      /\ call \in [Calls -> CallState] /\ Standing(c) = "open" /\ Sendings(c) = 0
  BY EnteringSeen DEF Acquire, exchange, Quiet
<1>2. CASE Becomes(c, [call[c] EXCEPT !.at = "limiter", !.cost = Cost(c)])
  <2>1. Endpoint(c) \in Endpoints
    BY <1>1, CallFields, KindsAssumption
       DEF IInv, Rated, Acquire, Placed, MustConfigure, Endpoint, Endpoints, Stages, Fetches
  <2>2. Cost(c) \in Nat
    BY <2>1, CapacityAssumption DEF Cost
  <2>3. /\ Others(c) /\ call'[c].at = "limiter" /\ call'[c].kind = call[c].kind
        /\ call'[c].stage = call[c].stage /\ call'[c].tries = call[c].tries
    BY <1>1, <1>2, <2>2, WaitsRecord
  <2>4. Standing(c)' = "open" /\ Sendings(c)' = Sendings(c)
    BY <2>3 DEF Standing, Sendings
  <2> QED
    BY <1>1, <2>3, <2>4, UnseenStep
<1>3. CASE Raises(c, "refused")
  <2>1. CASE call[c].stage = "own"
    <3>1. Abstract!Becomes(c, "refused")
      BY <1>3, <2>1, OwnEnds DEF Raises, Fetches, Results, Errors
    <3>2. Abstract!Refuse(c)
      BY <1>1, <3>1, RequestedOf DEF Abstract!Refuse, Abstract!Ready, Quiet
    <3> QED
      BY <3>2 DEF Maps, Abstract!Next
  <2>2. CASE call[c].stage \in Fetches
    BY <1>1, <1>3, <2>2, FetchRaisesMaps
  <2> QED
    BY <1>1, <2>1, <2>2, CallFields DEF Stages
<1> QED
  BY <1>2, <1>3 DEF Acquire

\* A request leaves: an attempt of the call, or of a fetch.
LEMMA SendsMaps ==
    ASSUME IInv, NEW c \in Calls, call[c].at \in {"limiter", "pause"}, NEW retries \in Nat,
           Sends(c, retries)
    PROVE  Maps
<1>1. /\ call \in [Calls -> CallState] /\ Placed(c) /\ Counted(c) /\ Quiet
      /\ MaxRetries \in Nat
  BY RetriesAssumption DEF IInv, Rated, TypeOK, Sends, exchange, Quiet
<1>2. /\ call[c].tries \in Nat /\ call[c].retries \in Nat /\ call[c].stage \in Stages
      /\ call[c].tries < MaxRetries + 1
  BY <1>1, CallFields DEF Counted
<1>3. /\ Others(c) /\ Same(c) /\ call'[c].at = "sent" /\ call'[c].tries = call[c].tries + 1
  BY <1>1, SendsRecord
<1>4. CASE call[c].stage = "own"
  <2>1. /\ call[c].kind # "configure" /\ Standing(c) = "open" /\ Standing(c)' = "away"
        /\ Sendings(c) = call[c].tries /\ Sendings(c)' = call[c].tries + 1
    BY <1>1, <1>3, <1>4 DEF Placed, Same, Standing, Sendings
  <2>2. Seen(c)' = [Seen(c) EXCEPT !.attempts = call[c].tries + 1, !.stands = "away"]
    <3>1. Seen(c)' = [kind |-> call[c].kind, stands |-> "away", attempts |-> call[c].tries + 1]
      BY <1>3, <2>1 DEF Same, Seen
    <3>2. Seen(c) = [kind |-> call[c].kind, stands |-> "open", attempts |-> call[c].tries]
      BY <2>1 DEF Seen
    <3> DEFINE more == [Seen(c) EXCEPT !.attempts = call[c].tries + 1]
    <3>3. more = [kind |-> call[c].kind, stands |-> "open", attempts |-> call[c].tries + 1]
      BY <3>2
    <3>4. [more EXCEPT !.stands = "away"]
            = [Seen(c) EXCEPT !.attempts = call[c].tries + 1, !.stands = "away"]
      OBVIOUS
    <3> HIDE DEF more
    <3>5. [more EXCEPT !.stands = "away"]
            = [kind |-> call[c].kind, stands |-> "away", attempts |-> call[c].tries + 1]
      BY <3>3
    <3> QED
      BY <3>1, <3>4, <3>5
  <2>3. Abstract!Attempt(c)
    BY <1>1, <1>2, <1>3, <2>1, <2>2, SeenStep, RequestedOf
       DEF Abstract!Attempt, Abstract!Ready, Quiet
  <2> QED
    BY <2>3 DEF Maps, Abstract!Next
<1>5. CASE call[c].stage \in Fetches
  <2>1. Standing(c) = "open" /\ Standing(c)' = "open" /\ Sendings(c) = 0 /\ Sendings(c)' = 0
    BY <1>3, <1>5 DEF Same, Standing, Sendings, Fetches
  <2> QED
    BY <1>1, <1>3, <2>1, UnseenStep DEF Same
<1> QED
  BY <1>2, <1>4, <1>5 DEF Stages

LEMMA TooManyMaps ==
    ASSUME IInv, NEW c \in Calls, call[c].at = "sent", TooMany(c)
    PROVE  Maps
<1>1. Quiet /\ PausesOrRaises(c, "too_many") /\ "too_many" \in Errors
  BY DEF TooMany, exchange, Quiet, Errors
<1>2. CASE call[c].stage = "own"
  <2>1. Abstract!TurnedAway(c)
    BY <1>1, <1>2, PausesOrRaisesMaps DEF Abstract!TurnedAway, Quiet
  <2> QED
    BY <2>1 DEF Maps, Abstract!Next
<1>3. CASE call[c].stage \in Fetches
  BY <1>1, <1>3, PausesOrRaisesMaps
<1> QED
  BY <1>2, <1>3, SentSeen

\* The execution of a call's own request shows; that of a fetch does not.
LEMMA ExecutesMaps ==
    ASSUME IInv, NEW c \in Calls, Executes(c)
    PROVE  /\ call[c].stage = "own" => Abstract!Happens(c) /\ UNCHANGED abandoned
           /\ call[c].stage \in Fetches => Quiet
BY DEF Executes, Abstract!Happens, Quiet, Fetches

LEMMA FailedMaps ==
    ASSUME IInv, NEW c \in Calls, call[c].at = "sent", Failed(c)
    PROVE  Maps
<1>1. Raises(c, "failed") /\ (Executes(c) \/ UNCHANGED exchange)
  BY DEF Failed
<1>2. CASE call[c].stage = "own"
  <2>1. Abstract!Becomes(c, "failed")
    BY <1>1, <1>2, OwnEnds DEF Raises, Fetches, Results, Errors
  <2>2. Abstract!MayHappen(c) /\ UNCHANGED abandoned
    BY <1>1, <1>2, ExecutesMaps DEF Abstract!MayHappen, exchange
  <2>3. Abstract!Fail(c)
    BY <1>2, <2>1, <2>2, SentSeen, RequestedOf DEF Abstract!Fail, Abstract!Away
  <2> QED
    BY <2>3 DEF Maps, Abstract!Next
<1>3. CASE call[c].stage \in Fetches
  <2>1. Quiet
    BY <1>1, <1>3, ExecutesMaps DEF exchange, Quiet
  <2> QED
    BY <1>1, <1>3, <2>1, FetchRaisesMaps
<1> QED
  BY <1>2, <1>3, SentSeen

LEMMA AnsweredMaps ==
    ASSUME IInv, NEW c \in Calls, call[c].at = "sent", Answered(c)
    PROVE  Maps
<1>1. Executes(c) /\ (Returns(c) \/ Raises(c, "invalid"))
  BY DEF Answered
<1>2. CASE call[c].stage = "own"
  <2>1. Ends(c, "ok") \/ Ends(c, "invalid")
    BY <1>1, <1>2 DEF Returns, Raises, Fetches
  <2>2. Abstract!Becomes(c, "ok") \/ Abstract!Becomes(c, "invalid")
    BY <1>2, <2>1, OwnEnds DEF Results, Errors
  <2>3. Abstract!Answer(c)
    BY <1>1, <1>2, <2>2, ExecutesMaps, SentSeen, RequestedOf
       DEF Abstract!Answer, Abstract!Away
  <2> QED
    BY <2>3 DEF Maps, Abstract!Next
<1>3. CASE call[c].stage \in Fetches
  <2>1. Quiet /\ call \in [Calls -> CallState] /\ Standing(c) = "open" /\ Sendings(c) = 0
    BY <1>1, <1>3, ExecutesMaps, SentSeen
  <2>2. CASE GoesOn(c)
    BY <2>1, <2>2, GoesOnMaps
  <2>3. CASE Enters(c, Fetch(2))
    <3>1. /\ Others(c) /\ call'[c].kind = call[c].kind
          /\ call'[c].at = "entering" /\ call'[c].tries = 0
      BY <2>1, <2>3, EntersRecord DEF Fetch, Stages, Fetches
    <3>2. Standing(c)' = "open" /\ Sendings(c)' = 0
      BY <3>1 DEF Standing, Sendings
    <3> QED
      BY <2>1, <3>1, <3>2, UnseenStep
  <2> QED
    BY <1>1, <1>3, <2>2, <2>3 DEF Returns, Raises, Fetches
<1> QED
  BY <1>2, <1>3, SentSeen

\* Only an attempt of the call itself leaves something behind.
LEMMA AbandonsMaps ==
    ASSUME IInv, NEW c \in Calls, Abandons(c)
    PROVE  /\ Abstract!GivenUp(c)
           /\ call[c].stage \in Fetches => UNCHANGED abandoned
<1>1. call[c].at = "sent" /\ Endpoint(c) = "create"
          <=> Standing(c) = "away" /\ call[c].kind = "create"
  <2>1. Standing(c) = "away" <=> call[c].at = "sent" /\ call[c].stage = "own"
    BY CallFields DEF IInv, Rated, TypeOK, Placed, Standing, Results, Errors
  <2>2. call[c].stage \in Stages
    BY CallFields DEF IInv, TypeOK
  <2> QED
    BY <2>1, <2>2 DEF Endpoint, Stages, Fetches
<1>2. call[c].stage \in Fetches => Endpoint(c) # "create"
  BY DEF Endpoint, Fetches
<1> QED
  BY <1>1, <1>2, RequestedOf DEF Abandons, Abstract!GivenUp, Abstract!Away

LEMMA NetworkErrorMaps ==
    ASSUME IInv, NEW c \in Calls, NetworkError(c)
    PROVE  Maps
<1>1. /\ call[c].at = "sent" /\ Abandons(c) /\ UNCHANGED executed
      /\ PausesOrRaises(c, "network") /\ "network" \in Errors
  BY DEF NetworkError, Errors
<1>2. CASE call[c].stage = "own"
  <2>1. Abstract!Breaks(c)
    BY <1>1, <1>2, AbandonsMaps, PausesOrRaisesMaps DEF Abstract!Breaks
  <2> QED
    BY <2>1 DEF Maps, Abstract!Next
<1>3. CASE call[c].stage \in Fetches
  <2>1. Quiet
    BY <1>1, <1>3, AbandonsMaps DEF Quiet
  <2> QED
    BY <1>1, <1>3, <2>1, PausesOrRaisesMaps
<1> QED
  BY <1>1, <1>2, <1>3, SentSeen

LEMMA CancelMaps ==
    ASSUME IInv, NEW c \in Calls, Cancel(c)
    PROVE  Maps
<1>1. /\ call[c].at \in {"lock", "limiter", "sent", "pause"} /\ Ends(c, "cancelled")
      /\ Abandons(c) /\ UNCHANGED executed
  BY DEF Cancel
<1>2. /\ Others(c) /\ call'[c].at = "done" /\ call'[c].result = "cancelled"
      /\ call'[c].stage = call[c].stage /\ call'[c].kind = call[c].kind
      /\ call'[c].tries = call[c].tries
  BY <1>1, EndsRecord DEF IInv, TypeOK, Results
<1>3. /\ Standing(c) \in {"open", "away"} /\ Standing(c)' = "cancelled"
      /\ Sendings(c)' = Sendings(c)
  BY <1>1, <1>2 DEF Standing, Sendings
<1>4. Abstract!Cancel(c)
  BY <1>1, <1>2, <1>3, StandsStep, AbandonsMaps, RequestedOf
     DEF Abstract!Cancel, Abstract!Ready, Abstract!Away
<1> QED
  BY <1>4 DEF Maps, Abstract!Next

LEMMA LateMaps ==
    ASSUME IInv, NEW c \in Calls, Late(c)
    PROVE  Maps
<1>1. Requested' = Requested
  BY DEF Late, Requested, Seen, Standing, Sendings
<1>2. Abstract!Late(c)
  BY <1>1 DEF Late, Abstract!Late, Abstract!MayHappen, Abstract!Happens
<1> QED
  BY <1>2 DEF Maps, Abstract!Next

LEMMA InitMaps == Init => Abstract!Init
<1> SUFFICES ASSUME Init PROVE Abstract!Init
  OBVIOUS
<1>1. ASSUME NEW c \in Calls
      PROVE  Seen(c) = [kind |-> "none", stands |-> "new", attempts |-> 0]
  BY DEF Init, Seen, Standing, Sendings
<1> QED
  BY <1>1 DEF Init, Abstract!Init, Requested

LEMMA NextMaps == IInv /\ [Next]_vars => Maps
<1> SUFFICES ASSUME IInv, [Next]_vars PROVE Maps
  OBVIOUS
<1>1. CASE UNCHANGED vars
  BY <1>1
     DEF vars, exchange, Maps, Abstract!vars, Requested, Seen, Standing, Sendings
<1>2. ASSUME NEW c \in Calls,
             \/ \E kind \in Kinds : Begin(c, kind)
             \/ AwaitLock(c) \/ Configure(c) \/ Acquire(c) \/ Cancel(c) \/ Late(c)
      PROVE  Maps
  BY <1>2, BeginMaps, AwaitLockMaps, ConfigureMaps, AcquireMaps, CancelMaps, LateMaps
<1>3. ASSUME NEW c \in Calls, Granted(c) PROVE Maps
  BY <1>3, SendsMaps DEF Granted
<1>4. ASSUME NEW c \in Calls, Retry(c) PROVE Maps
  <2>1. call[c].retries + 1 \in Nat
    BY CallFields DEF IInv, TypeOK
  <2> QED
    BY <1>4, <2>1, SendsMaps DEF Retry
<1>5. ASSUME NEW c \in Calls, Receive(c) \/ NetworkError(c) PROVE Maps
  BY <1>5, TooManyMaps, FailedMaps, AnsweredMaps, NetworkErrorMaps DEF Receive
<1> QED
  BY <1>1, <1>2, <1>3, <1>4, <1>5 DEF Next, Entering, Step

\* For any number of calls and of retries: whatever the configuration, the prices and
\* the limiter make of it, a call keeps the promises of RemoteCall
\* (http_client.py 195-356).
THEOREM ImplementsRemoteCall == Spec => Implements
<1>1. Init => Abstract!Init
  BY InitMaps
<1>2. IInv /\ [Next]_vars => [Abstract!Next]_(Abstract!vars)
  BY NextMaps DEF Maps
<1> QED
  BY <1>1, <1>2, InvariantHolds, PTL DEF Spec, Implements, Abstract!Spec

=============================================================================
