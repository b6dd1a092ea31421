-------------------------- MODULE RateLimiterProofs --------------------------
(***************************************************************************)
(* Proofs about RateLimiter, for any keys and callers, any limit, window   *)
(* and length of a second, and any value of the bounds.                    *)
(***************************************************************************)
EXTENDS RateLimiter, SetLemmas, FiniteSetTheorems, TLAPS

LEMMA ConstantsAre ==
    /\ MaxEvents \in Nat /\ MaxEvents > 0 /\ Window \in Nat /\ Window > 0 /\ Second \in Nat /\ Second > 0
    /\ CleanupAt \in Nat /\ MaxTime \in Nat /\ MaxQueue \in Nat
    /\ IsFiniteSet(Callers) /\ Cardinality(Callers) \in Nat /\ Cardinality(Callers) > 0
    /\ Time \subseteq Nat /\ 0 \in Time
<1>1. Cardinality(Callers) \in Nat /\ Cardinality(Callers) # 0
  BY LimiterAssumption, FS_CardinalityType, FS_EmptySet
<1>2. QED
  BY <1>1, LimiterAssumption DEF Time

-----------------------------------------------------------------------------
(* The deques.                                                             *)

\* The deque of a key, whether it has an entry or not.
Held(E, k) == IF k \in DOMAIN E THEN E[k] ELSE <<>>

\* `s` is the end of `q`.
IsEnd(s, q) ==
    /\ s \in Seq(Time) /\ q \in Seq(Time) /\ Len(s) <= Len(q)
    /\ \A i \in 1 .. Len(s) : s[i] = q[Len(q) - Len(s) + i]

\* `s` is the deque `q` of key `k` after a pruning, or a cleanup, at `now`.
Pruned(q, s, k, now) ==
    /\ IsEnd(s, q)
    /\ \A i \in 1 .. Len(q) - Len(s) : Expired(q[i], now) \/ k \in Dropped(now)

LEMMA PruneIs ==
    ASSUME NEW q \in Seq(Time), NEW now \in Time
    PROVE  /\ IsEnd(Prune(q, now), q)
           /\ \A i \in 1 .. Len(q) - Len(Prune(q, now)) : Expired(q[i], now)
           /\ Prune(q, now) # <<>> => ~ Expired(Prune(q, now)[1], now)
<1> DEFINE live == {i \in DOMAIN q : ~ Expired(q[i], now)}
           s == Prune(q, now)
<1>1. Len(q) \in Nat /\ DOMAIN q = 1 .. Len(q) /\ \A i \in 1 .. Len(q) : q[i] \in Time
  OBVIOUS
<1>2. CASE live = {}
  <2>1. s = <<>>
    BY <1>2 DEF Prune
  <2>2. \A i \in 1 .. Len(q) : Expired(q[i], now)
    BY <1>1, <1>2
  <2>3. Len(s) = 0 /\ s \in Seq(Time)
    BY <2>1
  <2> HIDE DEF s
  <2>4. Len(q) - Len(s) = Len(q)
    BY <1>1, <2>3
  <2>5. IsEnd(s, q)
    BY <1>1, <2>3 DEF IsEnd
  <2> USE DEF s
  <2>6. QED
    BY <2>1, <2>2, <2>4, <2>5
<1>3. CASE live # {}
  <2> DEFINE m == Min(live)
  <2>1. live \in SUBSET Nat
    BY <1>1
  <2>2. m \in live /\ \A i \in live : m <= i
    <3> HIDE DEF live
    <3>1. QED
      BY <1>3, <2>1, MinOf
  <2>3. s = SubSeq(q, m, Len(q))
    BY <1>3 DEF Prune
  <2>4. m \in 1 .. Len(q) /\ ~ Expired(q[m], now)
    BY <1>1, <2>2
  <2>5. ASSUME NEW i \in 1 .. m - 1 PROVE Expired(q[i], now)
    <3> HIDE DEF m
    <3>1. i \in DOMAIN q /\ ~ (m <= i)
      BY <1>1, <2>4
    <3>2. i \notin live
      BY <2>2, <3>1
    <3>3. QED
      BY <3>1, <3>2
  <2> HIDE DEF s, m, live
  <2>6. /\ s \in Seq(Time) /\ Len(s) = Len(q) - m + 1
        /\ \A i \in 1 .. Len(s) : s[i] = q[m + i - 1]
    BY <1>1, <2>3, <2>4
  <2>7. Len(q) - Len(s) = m - 1 /\ Len(s) <= Len(q) /\ 1 \in 1 .. Len(s)
    BY <1>1, <2>4, <2>6
  <2>8. \A i \in 1 .. Len(s) : s[i] = q[Len(q) - Len(s) + i]
    BY <1>1, <2>4, <2>6, <2>7
  <2>9. IsEnd(s, q)
    BY <2>6, <2>7, <2>8 DEF IsEnd
  <2>10. s[1] = q[m]
    BY <2>4, <2>6, <2>7
  <2> USE DEF s
  <2>11. QED
    BY <2>4, <2>5, <2>7, <2>9, <2>10
<1>4. QED
  BY <1>2, <1>3

\* What the cleanup leaves of the table.
LEMMA CleanedIs ==
    ASSUME LimiterTypeOK, NEW now \in Time
    PROVE  LET E == Cleaned(events, now) IN
           /\ DOMAIN E \subseteq DOMAIN events /\ \A k \in DOMAIN E : E[k] = events[k]
           /\ \A k \in DOMAIN events \ DOMAIN E :
                 \/ k \in Dropped(now)
                 \/ \A i \in DOMAIN events[k] : Expired(events[k][i], now)
           /\ \A k \in DOMAIN events \ DOMAIN E : Expired(events[k][Len(events[k])], now)
<1> DEFINE E == Cleaned(events, now)
<1>1. /\ DOMAIN E \subseteq DOMAIN events /\ \A k \in DOMAIN E : E[k] = events[k]
      /\ \A k \in DOMAIN events \ DOMAIN E : Expired(events[k][Len(events[k])], now)
  BY DEF Cleaned, StaleKeys
<1>2. \A k \in DOMAIN events \ DOMAIN E :
          k \in Dropped(now) \/ \A i \in DOMAIN events[k] : Expired(events[k][i], now)
  BY DEF Dropped
<1>3. QED
  BY <1>1, <1>2

LEMMA HeldIs ==
    ASSUME LimiterTypeOK, NEW k \in Keys
    PROVE  /\ Held(events, k) \in Seq(Time) /\ Len(Held(events, k)) \in 0 .. MaxQueue
           /\ k \in DOMAIN events => Held(events, k) = events[k]
<1>1. <<>> \in Seq(Time) /\ Len(<<>>) = 0
  OBVIOUS
<1>2. QED
  BY <1>1, ConstantsAre DEF Held, LimiterTypeOK

LEMMA IsEndOfItself ==
    ASSUME NEW q \in Seq(Time)
    PROVE  IsEnd(q, q) /\ IsEnd(<<>>, q)
<1>1. Len(q) \in Nat /\ <<>> \in Seq(Time) /\ Len(<<>>) = 0
  OBVIOUS
<1>2. QED
  BY <1>1 DEF IsEnd

\* The deque a method finds.
LEMMA QueueIs ==
    ASSUME LimiterTypeOK, NEW k \in Keys, NEW now \in Time
    PROVE  LET q == QueueOf(k, now) IN
           /\ Pruned(Held(events, k), q, k, now)
           /\ q \in Seq(Time) /\ Len(q) <= Len(Held(events, k)) /\ Len(q) \in 0 .. MaxQueue
           /\ q # <<>> => ~ Expired(q[1], now)
<1> DEFINE E == Cleaned(events, now)
           q == QueueOf(k, now)
           h == Held(events, k)
<1>1. h \in Seq(Time) /\ Len(h) \in 0 .. MaxQueue /\ (k \in DOMAIN events => h = events[k])
  BY HeldIs
<1>2. CASE k \in DOMAIN E
  <2>1. q = Prune(h, now)
    BY <1>1, <1>2, CleanedIs DEF QueueOf
  <2>2. /\ IsEnd(q, h) /\ (q # <<>> => ~ Expired(q[1], now))
        /\ \A i \in 1 .. Len(h) - Len(q) : Expired(h[i], now)
    BY <1>1, <2>1, PruneIs
  <2> HIDE DEF q, h
  <2>3. Pruned(h, q, k, now)
    BY <2>2 DEF Pruned
  <2>4. q \in Seq(Time) /\ Len(q) <= Len(h) /\ Len(q) \in 0 .. MaxQueue
    BY <1>1, <2>2, ConstantsAre DEF IsEnd
  <2>5. QED
    BY <2>2, <2>3, <2>4 DEF q, h
<1>3. CASE k \notin DOMAIN E
  <2>1. q = <<>>
    BY <1>3 DEF QueueOf
  <2>2. \A i \in 1 .. Len(h) : Expired(h[i], now) \/ k \in Dropped(now)
    <3>1. CASE k \in DOMAIN events
      <4>1. DOMAIN h = 1 .. Len(h) /\ h = events[k]
        BY <1>1, <3>1
      <4>2. QED
        BY <1>3, <3>1, <4>1, CleanedIs
    <3>2. CASE k \notin DOMAIN events
      BY <3>2 DEF Held
    <3>3. QED
      BY <3>1, <3>2
  <2> HIDE DEF q, h
  <2>3. q \in Seq(Time) /\ Len(q) = 0 /\ Len(h) \in Nat /\ MaxQueue \in Nat
    BY <1>1, <2>1, ConstantsAre
  <2>4. Pruned(h, q, k, now)
    BY <1>1, <2>1, <2>2, <2>3, IsEndOfItself DEF Pruned
  <2>5. QED
    BY <1>1, <2>1, <2>3, <2>4 DEF q, h
<1>4. QED
  BY <1>2, <1>3

\* The table that a method leaves, with `s` for its key.
LEMMA StoredIs ==
    ASSUME LimiterTypeOK, NEW k \in Keys, NEW now \in Time, NEW s \in Seq(Time), Len(s) <= MaxQueue,
           NEW E, E = Stored(k, s, now)
    PROVE  /\ Held(E, k) = s
           /\ \A j \in Keys \ {k} : Pruned(Held(events, j), Held(E, j), j, now)
           /\ DOMAIN E \subseteq Keys
           /\ \A j \in DOMAIN E : E[j] \in Seq(Time) /\ Len(E[j]) \in 1 .. MaxQueue
<1> DEFINE C == Cleaned(events, now)
           held == (DOMAIN C \ {k}) \cup (IF s = <<>> THEN {} ELSE {k})
<1>1. E = [j \in held |-> IF j = k THEN s ELSE C[j]]
  BY DEF Stored
<1>2. DOMAIN C \subseteq DOMAIN events /\ \A j \in DOMAIN C : C[j] = events[j]
  BY CleanedIs
<1>3. DOMAIN E = held /\ \A j \in held : E[j] = IF j = k THEN s ELSE C[j]
  BY <1>1
<1>4. Held(E, k) = s
  BY <1>3 DEF Held
<1>5. ASSUME NEW j \in Keys \ {k} PROVE Pruned(Held(events, j), Held(E, j), j, now)
  <2> DEFINE h == Held(events, j)
  <2>1. h \in Seq(Time) /\ Len(h) \in Nat
    BY HeldIs
  <2>2. CASE j \in DOMAIN C
    <3>1. Held(E, j) = h
      BY <1>2, <1>3, <2>2 DEF Held
    <3> HIDE DEF h
    <3>2. IsEnd(h, h) /\ Len(h) - Len(h) = 0
      BY <2>1, IsEndOfItself
    <3>3. Pruned(h, h, j, now)
      BY <3>2 DEF Pruned
    <3>4. QED
      BY <3>1, <3>3 DEF h
  <2>3. CASE j \notin DOMAIN C
    <3>1. Held(E, j) = <<>>
      BY <1>3, <2>3 DEF Held
    <3>2. \A i \in 1 .. Len(h) : Expired(h[i], now) \/ j \in Dropped(now)
      <4>1. CASE j \in DOMAIN events
        <5>1. h = events[j] /\ DOMAIN h = 1 .. Len(h)
          BY <2>1, <4>1 DEF Held
        <5>2. QED
          BY <2>3, <4>1, <5>1, CleanedIs
      <4>2. CASE j \notin DOMAIN events
        BY <4>2 DEF Held
      <4>3. QED
        BY <4>1, <4>2
    <3> HIDE DEF h
    <3>3. Len(h) - Len(<<>>) = Len(h) /\ IsEnd(<<>>, h)
      BY <2>1, IsEndOfItself
    <3>4. Pruned(h, <<>>, j, now)
      BY <3>2, <3>3 DEF Pruned
    <3>5. QED
      BY <3>1, <3>4 DEF h
  <2>4. QED
    BY <2>2, <2>3
<1>6. DOMAIN E \subseteq Keys
  BY <1>2, <1>3 DEF LimiterTypeOK
<1>7. ASSUME NEW j \in DOMAIN E PROVE E[j] \in Seq(Time) /\ Len(E[j]) \in 1 .. MaxQueue
  <2>1. CASE j = k
    <3>1. E[j] = s /\ s # <<>>
      BY <1>3, <1>7, <2>1
    <3>2. Len(s) \in 1 .. MaxQueue
      BY <3>1, ConstantsAre
    <3>3. QED
      BY <3>1, <3>2
  <2>2. CASE j # k
    BY <1>2, <1>3, <1>7, <2>2 DEF LimiterTypeOK
  <2>3. QED
    BY <2>1, <2>2
<1>8. QED
  BY <1>4, <1>5, <1>6, <1>7

-----------------------------------------------------------------------------
(* The methods.                                                            *)

\* The two ways a critical section ends.
Keeps(k, now) ==
    /\ events' = Stored(k, QueueOf(k, now), now) /\ UNCHANGED granted
    /\ dropped' = dropped \cup Dropped(now)

Adds(k, now) ==
    /\ AppendStamp(k, now, QueueOf(k, now))
    /\ dropped' = dropped \cup Dropped(now)

TableTyped(E) ==
    /\ DOMAIN E \subseteq Keys
    /\ \A k \in DOMAIN E : E[k] \in Seq(Time) /\ Len(E[k]) \in 1 .. MaxQueue

LEMMA KeepsIs ==
    ASSUME LimiterTypeOK, NEW k \in Keys, NEW now \in Time, Keeps(k, now)
    PROVE  /\ \A j \in Keys : Pruned(Held(events, j), Held(events', j), j, now)
           /\ Held(events', k) = QueueOf(k, now)
           /\ TableTyped(events') /\ dropped' \subseteq Keys /\ dropped \subseteq dropped'
<1> DEFINE q == QueueOf(k, now)
<1>1. q \in Seq(Time) /\ Len(q) <= MaxQueue /\ Pruned(Held(events, k), q, k, now)
  BY QueueIs, ConstantsAre
<1>2. events' = Stored(k, q, now) /\ dropped' = dropped \cup Dropped(now)
  BY DEF Keeps
<1> HIDE DEF q
<1>3. /\ Held(events', k) = q
      /\ \A j \in Keys \ {k} : Pruned(Held(events, j), Held(events', j), j, now)
      /\ TableTyped(events')
  BY <1>1, <1>2, StoredIs DEF TableTyped
<1>4. Dropped(now) \subseteq Keys /\ dropped \subseteq Keys
  BY DEF Dropped, LimiterTypeOK
<1>5. QED
  BY <1>1, <1>2, <1>3, <1>4 DEF q

LEMMA AddsIs ==
    ASSUME LimiterTypeOK, NEW k \in Keys, NEW now \in Time, Adds(k, now)
    PROVE  /\ \A j \in Keys \ {k} : Pruned(Held(events, j), Held(events', j), j, now)
           /\ Pruned(Held(events, k), QueueOf(k, now), k, now) /\ QueueOf(k, now) \in Seq(Time)
           /\ Held(events', k) = Append(QueueOf(k, now), now)
           /\ granted' = [granted EXCEPT ![k] = Append(granted[k], now)]
           /\ TableTyped(events') /\ dropped' \subseteq Keys /\ dropped \subseteq dropped'
<1> DEFINE q == QueueOf(k, now)
           s == Append(q, now)
<1>1. q \in Seq(Time) /\ Pruned(Held(events, k), q, k, now)
  BY QueueIs
<1>2. /\ events' = Stored(k, s, now) /\ dropped' = dropped \cup Dropped(now) /\ Len(q) < MaxQueue
      /\ granted' = [granted EXCEPT ![k] = Append(granted[k], now)]
  BY DEF Adds, AppendStamp
<1> HIDE DEF q
<1>3. s \in Seq(Time) /\ Len(s) <= MaxQueue
  BY <1>1, <1>2, ConstantsAre
<1> HIDE DEF s
<1>4. /\ Held(events', k) = s
      /\ \A j \in Keys \ {k} : Pruned(Held(events, j), Held(events', j), j, now)
      /\ TableTyped(events')
  BY <1>2, <1>3, StoredIs DEF TableTyped
<1>5. Dropped(now) \subseteq Keys /\ dropped \subseteq Keys
  BY DEF Dropped, LimiterTypeOK
<1>6. QED
  BY <1>1, <1>2, <1>4, <1>5 DEF q, s

LEMMA CallIs ==
    ASSUME LimiterTypeOK, NEW p \in Callers
    PROVE  /\ caller[p].pc \in {"idle", "called", "verifying", "failed"}
           /\ caller[p].pc # "idle" => caller[p].key \in Keys /\ caller[p].now \in Time
BY DEF LimiterTypeOK, Calling, NoCall

\* What a caller is after its step, and the rest of what the step leaves alone.
Turns(p, c) == caller' = [caller EXCEPT ![p] = c] /\ UNCHANGED <<limiter, clock>>

LEMMA TurnsIs ==
    ASSUME LimiterTypeOK, NEW p \in Callers, NEW c, Turns(p, c)
    PROVE  /\ caller'[p] = c /\ \A o \in Callers \ {p} : caller'[o] = caller[o]
           /\ c \in Calling \cup {NoCall} => caller' \in [Callers -> Calling \cup {NoCall}]
           /\ limiter' = limiter /\ clock' = clock
BY DEF LimiterTypeOK, Turns

\* The actions, told by what they do to the table.
LEMMA TryAcquireIs ==
    ASSUME LimiterTypeOK, NEW p \in Callers, TryAcquire(p)
    PROVE  LET k == caller[p].key  now == caller[p].now  q == QueueOf(k, now) IN
           /\ caller[p].pc = "called" /\ limiter \in {"loop", "signup"} /\ k \in Keys /\ now \in Time
           /\ Turns(p, NoCall)
           /\ \/ Full(q) /\ Keeps(k, now) /\ answer' = RetryAfter(q, now)
              \/ ~ Full(q) /\ Adds(k, now) /\ answer' = 0
BY CallIs DEF TryAcquire, Keeps, Adds, Turns

LEMMA BlockedForIs ==
    ASSUME LimiterTypeOK, NEW p \in Callers, BlockedFor(p)
    PROVE  LET k == caller[p].key  now == caller[p].now IN
           /\ caller[p].pc = "called" /\ limiter = "login" /\ k \in Keys /\ now \in Time
           /\ Keeps(k, now) /\ UNCHANGED answer
           /\ \/ Full(QueueOf(k, now)) /\ Turns(p, NoCall)
              \/ ~ Full(QueueOf(k, now)) /\ Turns(p, [pc |-> "verifying", key |-> k, now |-> 0])
BY CallIs DEF BlockedFor, Keeps, Turns

LEMMA RecordIs ==
    ASSUME LimiterTypeOK, NEW p \in Callers, Record(p)
    PROVE  LET k == caller[p].key  now == caller[p].now IN
           /\ caller[p].pc = "failed" /\ k \in Keys /\ now \in Time
           /\ Adds(k, now) /\ UNCHANGED answer /\ Turns(p, NoCall)
BY CallIs DEF Record, Adds, Turns

\* A full deque tells its client to wait.
LEMMA RetryAfterIs ==
    ASSUME LimiterTypeOK, NEW k \in Keys, NEW now \in Time, Full(QueueOf(k, now))
    PROVE  RetryAfter(QueueOf(k, now), now) \in Nat
<1> DEFINE q == QueueOf(k, now)
<1>1. q \in Seq(Time) /\ (q # <<>> => ~ Expired(q[1], now))
  BY QueueIs
<1> HIDE DEF q
<1>2. Len(q) >= 1 /\ q # <<>> /\ q[1] \in Time
  <2>1. Len(q) >= 1
    BY <1>1, ConstantsAre DEF Full, q
  <2>2. QED
    BY <1>1, <2>1
<1> DEFINE x == q[1] + Window - now
<1>3. x \in Nat /\ Second \in Nat /\ Second > 0
  <2>1. q[1] \in Nat /\ now \in Nat /\ Window \in Nat /\ Second \in Nat /\ Second > 0
    BY <1>2, ConstantsAre
  <2>2. ~ (q[1] + Window <= now)
    BY <1>1, <1>2 DEF Expired
  <2>3. QED
    BY <2>1, <2>2
<1> HIDE DEF x
<1>4. SecondsUp(x) \in Nat
  <2> DEFINE y == x + Second - 1
  <2>1. y \in Nat
    BY <1>3
  <2> HIDE DEF y
  <2>2. y \div Second \in Nat
    BY <1>3, <2>1
  <2>3. QED
    BY <2>2 DEF SecondsUp, y
<1>5. QED
  BY <1>4 DEF RetryAfter, q, x

-----------------------------------------------------------------------------
(* Types.                                                                  *)

LEMMA TypesAgain ==
    ASSUME LimiterTypeOK, limiter' = limiter, clock' = clock, TableTyped(events'),
           caller' \in [Callers -> Calling \cup {NoCall}], answer' \in Nat,
           granted' \in [Keys -> Seq(Time)], dropped' \subseteq Keys
    PROVE  LimiterTypeOK'
BY DEF LimiterTypeOK, TableTyped

LEMMA TypeInit == LimiterInit => LimiterTypeOK
<1> SUFFICES ASSUME LimiterInit PROVE LimiterTypeOK
  OBVIOUS
<1>1. 0 \in Time /\ <<>> \in Seq(Time)
  BY ConstantsAre
<1>2. QED
  BY <1>1 DEF LimiterInit, LimiterTypeOK

LEMMA TypeStep ==
    ASSUME LimiterTypeOK, [LimiterNext]_vars
    PROVE  LimiterTypeOK'
<1>1. /\ TableTyped(events) /\ answer \in Nat /\ granted \in [Keys -> Seq(Time)] /\ dropped \subseteq Keys
      /\ caller \in [Callers -> Calling \cup {NoCall}] /\ clock \in Time
      /\ NoCall \in Calling \cup {NoCall} /\ 0 \in Time /\ 0 \in Nat
  BY ConstantsAre DEF LimiterTypeOK, TableTyped
<1>2. CASE UNCHANGED vars
  BY <1>2 DEF vars, LimiterTypeOK
<1>3. CASE Tick
  <2>1. clock' \in Time
    BY <1>1, <1>3, ConstantsAre DEF Tick, Time
  <2>2. QED
    BY <1>3, <2>1 DEF Tick, LimiterTypeOK
<1>4. ASSUME NEW p \in Callers, Call(p) PROVE LimiterTypeOK'
  <2>1. PICK k \in Keys : Turns(p, [pc |-> "called", key |-> k, now |-> clock])
    BY <1>4 DEF Call, Turns
  <2>2. [pc |-> "called", key |-> k, now |-> clock] \in Calling
    BY <1>1 DEF Calling
  <2>3. caller' \in [Callers -> Calling \cup {NoCall}] /\ limiter' = limiter /\ clock' = clock
    BY <2>1, <2>2, TurnsIs
  <2>4. QED
    BY <1>1, <1>4, <2>3, TypesAgain DEF Call
<1>5. ASSUME NEW k \in Keys, NEW now \in Time, Keeps(k, now) \/ Adds(k, now)
      PROVE  TableTyped(events') /\ dropped' \subseteq Keys /\ granted' \in [Keys -> Seq(Time)]
  <2>1. CASE Keeps(k, now)
    BY <1>1, <2>1, KeepsIs DEF Keeps
  <2>2. CASE Adds(k, now)
    <3>1. granted[k] \in Seq(Time)
      BY <1>1
    <3>2. Append(granted[k], now) \in Seq(Time)
      BY <3>1
    <3>3. granted' = [granted EXCEPT ![k] = Append(granted[k], now)]
      BY <2>2, AddsIs
    <3> DEFINE s == Append(granted[k], now)
    <3> HIDE DEF s
    <3>4. granted' \in [Keys -> Seq(Time)]
      <4>1. granted' = [granted EXCEPT ![k] = s] /\ s \in Seq(Time)
        BY <3>2, <3>3 DEF s
      <4>2. QED
        BY <1>1, <4>1
    <3>5. QED
      BY <2>2, <3>4, AddsIs
  <2>3. QED
    BY <1>5, <2>1, <2>2
<1>6. ASSUME NEW p \in Callers, TryAcquire(p) PROVE LimiterTypeOK'
  <2> DEFINE k == caller[p].key
             now == caller[p].now
  <2>1. /\ k \in Keys /\ now \in Time /\ Turns(p, NoCall)
        /\ \/ Full(QueueOf(k, now)) /\ Keeps(k, now) /\ answer' = RetryAfter(QueueOf(k, now), now)
           \/ Adds(k, now) /\ answer' = 0
    BY <1>6, TryAcquireIs
  <2> HIDE DEF k, now
  <2>2. caller' \in [Callers -> Calling \cup {NoCall}] /\ limiter' = limiter /\ clock' = clock
    BY <1>1, <2>1, TurnsIs
  <2>3. answer' \in Nat
    BY <1>1, <2>1, RetryAfterIs
  <2>4. QED
    BY <1>5, <2>1, <2>2, <2>3, TypesAgain
<1>7. ASSUME NEW p \in Callers, BlockedFor(p) PROVE LimiterTypeOK'
  <2> DEFINE k == caller[p].key
             now == caller[p].now
             c == [pc |-> "verifying", key |-> k, now |-> 0]
  <2>1. k \in Keys /\ now \in Time /\ Keeps(k, now) /\ answer' = answer /\ (Turns(p, NoCall) \/ Turns(p, c))
    BY <1>7, BlockedForIs
  <2>2. c \in Calling
    BY <1>1, <2>1 DEF Calling
  <2> HIDE DEF k, now, c
  <2>3. caller' \in [Callers -> Calling \cup {NoCall}] /\ limiter' = limiter /\ clock' = clock
    BY <1>1, <2>1, <2>2, TurnsIs
  <2>4. QED
    BY <1>1, <1>5, <2>1, <2>3, TypesAgain
<1>8. ASSUME NEW p \in Callers, Fail(p) PROVE LimiterTypeOK'
  <2> DEFINE c == [pc |-> "failed", key |-> caller[p].key, now |-> clock]
  <2>1. Turns(p, c) /\ UNCHANGED <<events, answer, granted, dropped>>
    BY <1>8 DEF Fail, Turns
  <2>2. c \in Calling
    BY <1>1, <1>8, CallIs DEF Calling, Fail
  <2> HIDE DEF c
  <2>3. caller' \in [Callers -> Calling \cup {NoCall}] /\ limiter' = limiter /\ clock' = clock
    BY <2>1, <2>2, TurnsIs
  <2>4. QED
    BY <1>1, <2>1, <2>3, TypesAgain
<1>9. ASSUME NEW p \in Callers, Record(p) PROVE LimiterTypeOK'
  <2> DEFINE k == caller[p].key
             now == caller[p].now
  <2>1. k \in Keys /\ now \in Time /\ Adds(k, now) /\ answer' = answer /\ Turns(p, NoCall)
    BY <1>9, RecordIs
  <2> HIDE DEF k, now
  <2>2. caller' \in [Callers -> Calling \cup {NoCall}] /\ limiter' = limiter /\ clock' = clock
    BY <1>1, <2>1, TurnsIs
  <2>3. QED
    BY <1>1, <1>5, <2>1, <2>2, TypesAgain
<1>10. ASSUME NEW p \in Callers, Clear(p) PROVE LimiterTypeOK'
  <2> DEFINE k == caller[p].key
  <2>1. /\ Turns(p, NoCall) /\ events' = WithoutKey(k) /\ UNCHANGED <<answer, dropped>>
        /\ granted' = [granted EXCEPT ![k] = <<>>]
    BY <1>10 DEF Clear, Turns
  <2>2. caller' \in [Callers -> Calling \cup {NoCall}] /\ limiter' = limiter /\ clock' = clock
    BY <1>1, <2>1, TurnsIs
  <2>3. TableTyped(events') /\ granted' \in [Keys -> Seq(Time)]
    <3>1. <<>> \in Seq(Time)
      OBVIOUS
    <3>2. QED
      BY <1>1, <2>1, <3>1 DEF WithoutKey, TableTyped
  <2>4. QED
    BY <1>1, <2>1, <2>2, <2>3, TypesAgain
<1>11. QED
  BY <1>2, <1>3, <1>4, <1>6, <1>7, <1>8, <1>9, <1>10 DEF LimiterNext

\* The table holds no empty deque, so that the cleanup may look at a last stamp and
\* Retry-After at a first one; a refused client waits a number of seconds.
THEOREM LimiterTypeCorrect == LimiterSpec => []LimiterTypeOK
BY TypeInit, TypeStep, PTL DEF LimiterSpec

-----------------------------------------------------------------------------
(* What the table has lost of the history.                                 *)

\* The places of the stamps of `q` that its end `s` does not hold.
Lost(q, s) == 1 .. Len(q) - Len(s)

LEMMA EndOfEnd ==
    ASSUME NEW g, NEW h, NEW s, NEW k, NEW now, IsEnd(h, g), Pruned(h, s, k, now)
    PROVE  /\ IsEnd(s, g)
           /\ \A i \in Lost(g, s) :
                i \in DOMAIN g /\ (i \in Lost(g, h) \/ Expired(g[i], now) \/ k \in Dropped(now))
<1>1. /\ g \in Seq(Time) /\ Len(g) \in Nat /\ DOMAIN g = 1 .. Len(g)
      /\ h \in Seq(Time) /\ Len(h) \in Nat /\ s \in Seq(Time) /\ Len(s) \in Nat
      /\ Len(h) <= Len(g) /\ Len(s) <= Len(h)
  BY DEF IsEnd, Pruned
<1>2. \A i \in 1 .. Len(h) : h[i] = g[Len(g) - Len(h) + i]
  BY DEF IsEnd
<1>3. \A i \in 1 .. Len(s) : s[i] = h[Len(h) - Len(s) + i]
  BY DEF IsEnd, Pruned
<1>4. ASSUME NEW i \in 1 .. Len(s) PROVE s[i] = g[Len(g) - Len(s) + i]
  <2>1. Len(h) - Len(s) + i \in 1 .. Len(h)
    BY <1>1
  <2>2. Len(g) - Len(h) + (Len(h) - Len(s) + i) = Len(g) - Len(s) + i
    BY <1>1
  <2>3. QED
    BY <1>2, <1>3, <2>1, <2>2
<1>5. IsEnd(s, g)
  BY <1>1, <1>4 DEF IsEnd
<1>6. ASSUME NEW i \in Lost(g, s), i \notin Lost(g, h) PROVE Expired(g[i], now) \/ k \in Dropped(now)
  <2> DEFINE m == i - (Len(g) - Len(h))
  <2>1. m \in 1 .. Len(h) - Len(s) /\ m \in 1 .. Len(h) /\ Len(g) - Len(h) + m = i
    BY <1>1, <1>6 DEF Lost
  <2>2. h[m] = g[i]
    BY <1>2, <2>1
  <2>3. Expired(h[m], now) \/ k \in Dropped(now)
    BY <2>1 DEF Pruned
  <2>4. QED
    BY <2>2, <2>3
<1>7. Lost(g, s) \subseteq DOMAIN g
  BY <1>1 DEF Lost
<1>8. QED
  BY <1>5, <1>6, <1>7

LEMMA EndAppended ==
    ASSUME NEW g, NEW s, NEW n \in Time, IsEnd(s, g)
    PROVE  /\ IsEnd(Append(s, n), Append(g, n))
           /\ Lost(Append(g, n), Append(s, n)) = Lost(g, s)
           /\ \A i \in DOMAIN g : Append(g, n)[i] = g[i]
<1>1. /\ g \in Seq(Time) /\ Len(g) \in Nat /\ DOMAIN g = 1 .. Len(g)
      /\ s \in Seq(Time) /\ Len(s) \in Nat /\ Len(s) <= Len(g)
      /\ \A i \in 1 .. Len(s) : s[i] = g[Len(g) - Len(s) + i]
  BY DEF IsEnd
<1> DEFINE G == Append(g, n)
           S == Append(s, n)
<1>2. /\ G \in Seq(Time) /\ Len(G) = Len(g) + 1 /\ G[Len(g) + 1] = n
      /\ \A i \in 1 .. Len(g) : G[i] = g[i]
  BY <1>1
<1>3. /\ S \in Seq(Time) /\ Len(S) = Len(s) + 1 /\ S[Len(s) + 1] = n
      /\ \A i \in 1 .. Len(s) : S[i] = s[i]
  BY <1>1
<1> HIDE DEF G, S
<1>4. Len(S) <= Len(G) /\ Len(G) - Len(S) = Len(g) - Len(s)
  BY <1>1, <1>2, <1>3
<1>5. ASSUME NEW i \in 1 .. Len(S) PROVE S[i] = G[Len(G) - Len(S) + i]
  <2>1. CASE i \in 1 .. Len(s)
    <3>1. Len(g) - Len(s) + i \in 1 .. Len(g)
      BY <1>1, <2>1
    <3>2. QED
      BY <1>1, <1>2, <1>3, <1>4, <2>1, <3>1
  <2>2. CASE i = Len(s) + 1
    <3>1. Len(G) - Len(S) + i = Len(g) + 1
      BY <1>1, <1>4, <2>2
    <3>2. QED
      BY <1>2, <1>3, <2>2, <3>1
  <2>3. QED
    BY <1>1, <1>3, <2>1, <2>2
<1>6. IsEnd(S, G) /\ Lost(G, S) = Lost(g, s)
  BY <1>2, <1>3, <1>4, <1>5 DEF IsEnd, Lost
<1>7. QED
  BY <1>1, <1>2, <1>6 DEF G, S

\* The table holds the end of the history of every key.
HeldIsEnd == \A k \in Keys : IsEnd(Held(events, k), granted[k])

\* What a critical section of key `k` at `now` may lose of the history of key `j`.
LosesExpired(j, now) ==
    /\ IsEnd(Held(events', j), granted'[j])
    /\ \A i \in Lost(granted'[j], Held(events', j)) :
          /\ i \in DOMAIN granted[j] /\ granted'[j][i] = granted[j][i]
          /\ i \in Lost(granted[j], Held(events, j)) \/ Expired(granted[j][i], now) \/ j \in Dropped(now)

LEMMA SectionLoses ==
    ASSUME LimiterTypeOK, HeldIsEnd, NEW k \in Keys, NEW now \in Time, Keeps(k, now) \/ Adds(k, now),
           NEW j \in Keys
    PROVE  LosesExpired(j, now)
<1> DEFINE g == granted[j]
           h == Held(events, j)
           s == Held(events', j)
<1>1. IsEnd(h, g)
  BY DEF HeldIsEnd
<1>2. CASE Pruned(h, s, j, now) /\ granted'[j] = g
  <2> HIDE DEF g, h, s
  <2>1. /\ IsEnd(s, g)
        /\ \A i \in Lost(g, s) : i \in DOMAIN g /\ (i \in Lost(g, h) \/ Expired(g[i], now) \/ j \in Dropped(now))
    BY <1>1, <1>2, EndOfEnd
  <2>2. QED
    BY <1>2, <2>1 DEF LosesExpired, g, h, s
<1>3. CASE Adds(k, now) /\ j = k
  <2> DEFINE q == QueueOf(k, now)
             G == Append(g, now)
             S == Append(q, now)
  <2>1. /\ Pruned(h, q, j, now) /\ s = S
        /\ granted' = [granted EXCEPT ![k] = Append(granted[k], now)]
    BY <1>3, AddsIs
  <2>2. granted'[j] = G
    BY <1>3, <2>1 DEF LimiterTypeOK
  <2> HIDE DEF g, h, s, q
  <2>3. /\ IsEnd(q, g)
        /\ \A i \in Lost(g, q) : i \in DOMAIN g /\ (i \in Lost(g, h) \/ Expired(g[i], now) \/ j \in Dropped(now))
    BY <1>1, <2>1, EndOfEnd
  <2>4. IsEnd(S, G) /\ Lost(G, S) = Lost(g, q) /\ \A i \in DOMAIN g : G[i] = g[i]
    BY <2>3, EndAppended
  <2> HIDE DEF G, S
  <2>5. QED
    BY <2>1, <2>2, <2>3, <2>4 DEF LosesExpired, g, h, s
<1>4. QED
  <2>1. CASE Keeps(k, now)
    BY <1>2, <2>1, KeepsIs DEF Keeps
  <2>2. CASE Adds(k, now) /\ j # k
    <3>1. /\ Pruned(h, s, j, now)
          /\ granted' = [granted EXCEPT ![k] = Append(granted[k], now)]
      BY <2>2, AddsIs
    <3>2. granted'[j] = g
      BY <2>2, <3>1 DEF LimiterTypeOK
    <3>3. QED
      BY <1>2, <3>1, <3>2
  <2>3. QED
    BY <1>3, <2>1, <2>2

-----------------------------------------------------------------------------
(* Counting.                                                               *)

InWindow(stamp, t) == stamp <= t /\ t < stamp + Window

\* The places of the stamps of `q` that count at time `t`.
Live(q, t) == {i \in DOMAIN q : InWindow(q[i], t)}

Count(q, t) == Cardinality(Live(q, t))

LEMMA WithinIs == \A g, k, t : Ideal!Within(g, k, t) = Count(g[k], t)
<1>1. ASSUME NEW g, NEW k, NEW t PROVE Ideal!Within(g, k, t) = Count(g[k], t)
  BY Zenon DEF Ideal!Within, Ideal!Cardinality, Cardinality, Count, Live, InWindow
<1>2. QED
  BY <1>1

LEMMA CountIsNat ==
    ASSUME NEW q \in Seq(Time), NEW t
    PROVE  IsFiniteSet(Live(q, t)) /\ Count(q, t) \in Nat /\ Count(q, t) <= Len(q)
<1>1. Len(q) \in Nat /\ DOMAIN q = 1 .. Len(q)
  OBVIOUS
<1>2. IsFiniteSet(1 .. Len(q)) /\ Cardinality(1 .. Len(q)) = Len(q)
  <2>1. 1 \in Int /\ Len(q) \in Int
    BY <1>1
  <2>2. QED
    BY <1>1, <2>1, FS_Interval
<1>3. Live(q, t) \subseteq 1 .. Len(q)
  BY <1>1 DEF Live
<1>4. QED
  BY <1>1, <1>2, <1>3, FS_Subset, FS_CardinalityType DEF Count

\* One admission more is one more in the windows it falls in.
LEMMA CountAppended ==
    ASSUME NEW q \in Seq(Time), NEW n \in Time, NEW t
    PROVE  Count(Append(q, n), t) = IF InWindow(n, t) THEN Count(q, t) + 1 ELSE Count(q, t)
<1> DEFINE Q == Append(q, n)
           last == Len(q) + 1
<1>1. /\ Len(q) \in Nat /\ DOMAIN q = 1 .. Len(q) /\ DOMAIN Q = 1 .. Len(q) + 1
      /\ Q[Len(q) + 1] = n /\ \A i \in 1 .. Len(q) : Q[i] = q[i]
  OBVIOUS
<1>2. DOMAIN Q = DOMAIN q \cup {last} /\ last \notin DOMAIN q
  BY <1>1
<1>3. Live(Q, t) = IF InWindow(n, t) THEN Live(q, t) \cup {last} ELSE Live(q, t)
  <2> HIDE DEF Q, last
  <2>1. Q[last] = n /\ \A i \in DOMAIN q : Q[i] = q[i]
    BY <1>1 DEF last
  <2>2. QED
    BY <1>2, <2>1 DEF Live
<1>4. last \notin Live(q, t) /\ IsFiniteSet(Live(q, t))
  BY <1>2, CountIsNat DEF Live
<1> HIDE DEF Q, last
<1>5. Cardinality(Live(q, t) \cup {last}) = Cardinality(Live(q, t)) + 1
  BY <1>4, FS_AddElement
<1>6. QED
  BY <1>3, <1>5 DEF Count, Q

\* When every stamp that the table lost is out of the window, the window holds no more
\* stamps than the table.
LEMMA CountIsHeld ==
    ASSUME NEW g, NEW h, NEW t, IsEnd(h, g), \A i \in Lost(g, h) : ~ InWindow(g[i], t)
    PROVE  /\ Live(g, t) \subseteq Len(g) - Len(h) + 1 .. Len(g)
           /\ IsFiniteSet(Len(g) - Len(h) + 1 .. Len(g))
           /\ Cardinality(Len(g) - Len(h) + 1 .. Len(g)) = Len(h)
           /\ Count(g, t) <= Len(h)
<1>1. /\ g \in Seq(Time) /\ Len(g) \in Nat /\ DOMAIN g = 1 .. Len(g)
      /\ Len(h) \in Nat /\ Len(h) <= Len(g)
  BY DEF IsEnd
<1> DEFINE places == Len(g) - Len(h) + 1 .. Len(g)
<1>2. Live(g, t) \subseteq places
  BY <1>1 DEF Live, Lost
<1>3. IsFiniteSet(places) /\ Cardinality(places) = Len(h)
  <2> DEFINE a == Len(g) - Len(h) + 1
  <2>1. a \in Int /\ Len(g) \in Int
    BY <1>1
  <2>2. (IF a > Len(g) THEN 0 ELSE Len(g) - a + 1) = Len(h)
    BY <1>1
  <2> HIDE DEF a
  <2>3. IsFiniteSet(a .. Len(g)) /\ Cardinality(a .. Len(g)) = Len(h)
    BY <2>1, <2>2, FS_Interval
  <2>4. QED
    BY <2>3 DEF a
<1> HIDE DEF places
<1>4. Count(g, t) <= Len(h)
  BY <1>2, <1>3, FS_Subset DEF Count
<1>5. QED
  BY <1>2, <1>3, <1>4 DEF places

-----------------------------------------------------------------------------
(* The invariant: what the table holds, and who is in the middle of a call. *)

\* try_acquire is one critical section: only logins do something between two.
OnlyLoginsVerify == limiter # "login" => \A p \in Callers : caller[p].pc \in {"idle", "called"}

NoCallFromLater == \A p \in Callers : caller[p].pc # "idle" => caller[p].now <= clock

NeverOverfull == limiter # "login" => \A k \in Keys : Len(Held(events, k)) <= MaxEvents

LimiterInv == LimiterTypeOK /\ HeldIsEnd /\ OnlyLoginsVerify /\ NoCallFromLater /\ NeverOverfull

\* A critical section of caller `p`.
Section(p) ==
    LET k == caller[p].key  now == caller[p].now IN
    /\ caller[p].pc \in {"called", "failed"} /\ k \in Keys /\ now \in Time
    /\ Keeps(k, now) \/ Adds(k, now)
    /\ limiter # "login" => Keeps(k, now) \/ ~ Full(QueueOf(k, now))

LEMMA StepIs ==
    ASSUME LimiterInv, [LimiterNext]_vars
    PROVE  \/ UNCHANGED <<events, granted, dropped>>
           \/ \E p \in Callers : Section(p) \/ Clear(p)
<1>1. LimiterTypeOK /\ OnlyLoginsVerify
  BY DEF LimiterInv
<1>2. CASE UNCHANGED vars \/ Tick
  BY <1>2 DEF vars, Tick
<1>3. ASSUME NEW p \in Callers, Call(p) \/ Fail(p) PROVE UNCHANGED <<events, granted, dropped>>
  BY <1>3 DEF Call, Fail
<1>4. ASSUME NEW p \in Callers, TryAcquire(p) PROVE Section(p)
  BY <1>1, <1>4, TryAcquireIs DEF Section
<1>5. ASSUME NEW p \in Callers, BlockedFor(p) PROVE Section(p)
  BY <1>1, <1>5, BlockedForIs DEF Section
<1>6. ASSUME NEW p \in Callers, Record(p) PROVE Section(p)
  BY <1>1, <1>6, RecordIs DEF Section, OnlyLoginsVerify
<1>7. QED
  BY <1>2, <1>3, <1>4, <1>5, <1>6 DEF LimiterNext

LEMMA ClearIs ==
    ASSUME LimiterTypeOK, NEW p \in Callers, Clear(p)
    PROVE  /\ caller[p].pc = "verifying" /\ caller[p].key \in Keys
           /\ Held(events', caller[p].key) = <<>> /\ granted'[caller[p].key] = <<>>
           /\ \A j \in Keys \ {caller[p].key} :
                Held(events', j) = Held(events, j) /\ granted'[j] = granted[j]
           /\ Turns(p, NoCall) /\ dropped' = dropped
<1> DEFINE k == caller[p].key
<1>1. /\ caller[p].pc = "verifying" /\ k \in Keys /\ Turns(p, NoCall) /\ dropped' = dropped
      /\ events' = WithoutKey(k) /\ granted' = [granted EXCEPT ![k] = <<>>]
  BY CallIs DEF Clear, Turns
<1> HIDE DEF k
<1>2. DOMAIN events' = DOMAIN events \ {k} /\ \A j \in DOMAIN events' : events'[j] = events[j]
  BY <1>1 DEF WithoutKey
<1>3. Held(events', k) = <<>> /\ \A j \in Keys \ {k} : Held(events', j) = Held(events, j)
  BY <1>2 DEF Held
<1>4. granted'[k] = <<>> /\ \A j \in Keys \ {k} : granted'[j] = granted[j]
  BY <1>1 DEF LimiterTypeOK
<1>5. QED
  BY <1>1, <1>3, <1>4 DEF k

LEMMA HeldIsEndStep ==
    ASSUME LimiterInv, [LimiterNext]_vars
    PROVE  HeldIsEnd'
<1>1. LimiterTypeOK /\ HeldIsEnd
  BY DEF LimiterInv
<1>2. CASE UNCHANGED <<events, granted, dropped>>
  BY <1>1, <1>2 DEF HeldIsEnd, Held
<1>3. ASSUME NEW p \in Callers, Section(p) PROVE HeldIsEnd'
  <2>1. \A j \in Keys : LosesExpired(j, caller[p].now)
    BY <1>1, <1>3, SectionLoses DEF Section
  <2>2. QED
    BY <2>1 DEF LosesExpired, HeldIsEnd, Held
<1>4. ASSUME NEW p \in Callers, Clear(p) PROVE HeldIsEnd'
  <2>1. <<>> \in Seq(Time)
    OBVIOUS
  <2>2. IsEnd(<<>>, <<>>)
    BY <2>1, IsEndOfItself
  <2>3. \A j \in Keys : IsEnd(Held(events', j), granted'[j])
    BY <1>1, <1>4, <2>2, ClearIs DEF HeldIsEnd
  <2>4. QED
    BY <2>3 DEF HeldIsEnd, Held
<1>5. QED
  BY <1>2, <1>3, <1>4, StepIs

LEMMA NeverOverfullStep ==
    ASSUME LimiterInv, [LimiterNext]_vars
    PROVE  NeverOverfull'
<1>1. LimiterTypeOK /\ NeverOverfull /\ OnlyLoginsVerify
  BY DEF LimiterInv
<1>2. limiter' = limiter
  BY DEF LimiterNext, vars, Tick, Call, TryAcquire, BlockedFor, Fail, Record, Clear
<1> SUFFICES ASSUME limiter # "login", NEW j \in Keys PROVE Len(Held(events', j)) <= MaxEvents
  BY <1>2 DEF NeverOverfull, Held
<1>3. Len(Held(events, j)) <= MaxEvents /\ Len(Held(events, j)) \in Nat
  BY <1>1, HeldIs, ConstantsAre DEF NeverOverfull
<1>4. CASE UNCHANGED <<events, granted, dropped>>
  BY <1>3, <1>4 DEF Held
<1>5. ASSUME NEW p \in Callers, Section(p) PROVE Len(Held(events', j)) <= MaxEvents
  <2> DEFINE k == caller[p].key
             now == caller[p].now
             q == QueueOf(k, now)
  <2>1. /\ k \in Keys /\ now \in Time
        /\ Keeps(k, now) \/ (Adds(k, now) /\ ~ Full(q))
    BY <1>5 DEF Section
  <2> HIDE DEF k, now, q
  <2>2. CASE Pruned(Held(events, j), Held(events', j), j, now)
    BY <1>3, <2>2, ConstantsAre DEF Pruned, IsEnd
  <2>3. CASE Held(events', j) = Append(q, now) /\ ~ Full(q) /\ q \in Seq(Time)
    <3>1. Len(q) \in Nat /\ ~ (Len(q) >= MaxEvents) /\ Len(Append(q, now)) = Len(q) + 1
      BY <2>3 DEF Full
    <3>2. QED
      BY <2>3, <3>1, ConstantsAre
  <2>4. CASE Keeps(k, now)
    BY <1>1, <2>1, <2>2, <2>4, KeepsIs
  <2>5. CASE Adds(k, now) /\ ~ Full(q)
    BY <1>1, <2>1, <2>2, <2>3, <2>5, AddsIs DEF q
  <2>6. QED
    BY <2>1, <2>4, <2>5
<1>6. ASSUME NEW p \in Callers, Clear(p) PROVE Len(Held(events', j)) <= MaxEvents
  BY <1>1, <1>6, ClearIs DEF OnlyLoginsVerify
<1>7. QED
  BY <1>4, <1>5, <1>6, StepIs

LEMMA CallersStep ==
    ASSUME LimiterInv, [LimiterNext]_vars
    PROVE  OnlyLoginsVerify' /\ NoCallFromLater'
<1>1. /\ LimiterTypeOK /\ OnlyLoginsVerify /\ NoCallFromLater
      /\ clock \in Nat /\ \A p \in Callers : caller[p].pc # "idle" => caller[p].now \in Nat
  BY CallIs, ConstantsAre DEF LimiterInv, LimiterTypeOK
<1>2. CASE UNCHANGED vars
  BY <1>1, <1>2 DEF OnlyLoginsVerify, NoCallFromLater, vars
<1>3. CASE Tick
  BY <1>1, <1>3 DEF OnlyLoginsVerify, NoCallFromLater, Tick
<1>4. ASSUME NEW p \in Callers, NEW c, Turns(p, c), c.pc # "idle" => c.now <= clock,
             limiter # "login" => c.pc \in {"idle", "called"}
      PROVE  OnlyLoginsVerify' /\ NoCallFromLater'
  <2>1. /\ caller'[p] = c /\ \A o \in Callers \ {p} : caller'[o] = caller[o]
        /\ limiter' = limiter /\ clock' = clock
    BY <1>1, <1>4, TurnsIs
  <2>2. QED
    BY <1>1, <1>4, <2>1 DEF OnlyLoginsVerify, NoCallFromLater
<1>5. NoCall.pc = "idle"
  BY DEF NoCall
<1>6. ASSUME NEW p \in Callers, Call(p) PROVE OnlyLoginsVerify' /\ NoCallFromLater'
  <2>1. PICK k \in Keys : Turns(p, [pc |-> "called", key |-> k, now |-> clock])
    BY <1>6 DEF Call, Turns
  <2>2. QED
    BY <1>1, <1>4, <2>1
<1>7. ASSUME NEW p \in Callers, TryAcquire(p) PROVE OnlyLoginsVerify' /\ NoCallFromLater'
  BY <1>1, <1>4, <1>5, <1>7, TryAcquireIs
<1>8. ASSUME NEW p \in Callers, BlockedFor(p) PROVE OnlyLoginsVerify' /\ NoCallFromLater'
  <2> DEFINE c == [pc |-> "verifying", key |-> caller[p].key, now |-> 0]
  <2>1. limiter = "login" /\ (Turns(p, NoCall) \/ Turns(p, c))
    BY <1>1, <1>8, BlockedForIs
  <2>2. c.now = 0 /\ 0 <= clock
    BY <1>1
  <2> HIDE DEF c
  <2>3. QED
    BY <1>4, <1>5, <2>1, <2>2
<1>9. ASSUME NEW p \in Callers, Fail(p) PROVE OnlyLoginsVerify' /\ NoCallFromLater'
  <2> DEFINE c == [pc |-> "failed", key |-> caller[p].key, now |-> clock]
  <2>1. Turns(p, c) /\ limiter = "login"
    BY <1>1, <1>9 DEF Fail, Turns, OnlyLoginsVerify
  <2>2. c.now <= clock
    BY <1>1
  <2> HIDE DEF c
  <2>3. QED
    BY <1>4, <2>1, <2>2
<1>10. ASSUME NEW p \in Callers, Record(p) PROVE OnlyLoginsVerify' /\ NoCallFromLater'
  BY <1>1, <1>4, <1>5, <1>10, RecordIs
<1>11. ASSUME NEW p \in Callers, Clear(p) PROVE OnlyLoginsVerify' /\ NoCallFromLater'
  BY <1>1, <1>4, <1>5, <1>11, ClearIs
<1>12. QED
  BY <1>2, <1>3, <1>6, <1>7, <1>8, <1>9, <1>10, <1>11 DEF LimiterNext

LEMMA InvInit == LimiterInit => LimiterInv
<1> SUFFICES ASSUME LimiterInit PROVE LimiterInv
  OBVIOUS
<1>1. LimiterTypeOK
  BY TypeInit
<1>2. \A k \in Keys : Held(events, k) = <<>> /\ granted[k] = <<>>
  BY DEF LimiterInit, Held
<1>3. <<>> \in Seq(Time) /\ Len(<<>>) = 0
  OBVIOUS
<1>4. HeldIsEnd
  BY <1>2, <1>3, IsEndOfItself DEF HeldIsEnd
<1>5. NeverOverfull
  BY <1>2, <1>3, ConstantsAre DEF NeverOverfull
<1>6. OnlyLoginsVerify /\ NoCallFromLater
  BY DEF LimiterInit, NoCall, OnlyLoginsVerify, NoCallFromLater
<1>7. QED
  BY <1>1, <1>4, <1>5, <1>6 DEF LimiterInv

LEMMA InvStep ==
    ASSUME LimiterInv, [LimiterNext]_vars
    PROVE  LimiterInv'
<1>1. LimiterTypeOK'
  BY TypeStep DEF LimiterInv
<1>2. HeldIsEnd' /\ NeverOverfull' /\ OnlyLoginsVerify' /\ NoCallFromLater'
  BY HeldIsEndStep, NeverOverfullStep, CallersStep
<1>3. QED
  BY <1>1, <1>2 DEF LimiterInv

-----------------------------------------------------------------------------
(* In worker threads: how far the limit is exceeded.                       *)

\* The callers that may yet add a stamp that counts at `t` for key `k`.
Pending(k, t) ==
    {p \in Callers :
        /\ caller[p].pc # "idle" /\ caller[p].key = k
        /\ \/ limiter # "login" /\ caller[p].now <= t
           \/ limiter = "login" /\ caller[p].pc = "failed" /\ caller[p].now <= t
           \/ limiter = "login" /\ caller[p].pc = "verifying" /\ clock <= t}

\* What the table has lost of the history of `k` does not count at `t`.
OutOfWindow(k, t) ==
    \A i \in Lost(granted[k], Held(events, k)) : ~ InWindow(granted[k][i], t)

Bounded(k, t) ==
    Count(granted[k], t) + Cardinality(Pending(k, t)) <= MaxEvents + Cardinality(Callers) - 1

\* The limiter decides on the stamps it holds.  It may have dropped one that counts at `t`
\* only when the time is past `t`, and from then on no new caller counts at `t`.
Overlap(k, t) ==
    /\ OutOfWindow(k, t) \/ (clock > t /\ Bounded(k, t))
    /\ limiter = "login" => Bounded(k, t)

OverlapInv == \A k \in Keys \ dropped, t \in Time : Overlap(k, t)

\* Numbers of callers.
LEMMA PendingIs ==
    ASSUME NEW P \in SUBSET Callers, NEW Q \in SUBSET Callers
    PROVE  /\ Cardinality(P) \in Nat /\ Cardinality(P) <= Cardinality(Callers)
           /\ Q \subseteq P => Cardinality(Q) <= Cardinality(P)
           /\ \A p \in P : Q \subseteq P /\ p \notin Q => Cardinality(Q) <= Cardinality(P) - 1
           /\ \A p \in Callers : p \notin Q => Cardinality(Q) <= Cardinality(Callers) - 1
<1>1. IsFiniteSet(Callers) /\ IsFiniteSet(P)
  BY ConstantsAre, FS_Subset
<1>2. /\ Cardinality(P) \in Nat /\ Cardinality(P) <= Cardinality(Callers)
      /\ Q \subseteq P => Cardinality(Q) <= Cardinality(P)
  BY <1>1, FS_Subset, FS_CardinalityType
<1>3. ASSUME NEW S \in SUBSET Callers, NEW p \in S, Q \subseteq S, p \notin Q
      PROVE  Cardinality(Q) <= Cardinality(S) - 1
  <2>1. IsFiniteSet(S)
    BY <1>1, FS_Subset
  <2>2. IsFiniteSet(S \ {p}) /\ Cardinality(S \ {p}) = Cardinality(S) - 1
    BY <2>1, FS_RemoveElement
  <2>3. Q \in SUBSET (S \ {p})
    BY <1>3
  <2>4. Cardinality(Q) <= Cardinality(S \ {p})
    BY <2>2, <2>3, FS_Subset
  <2>5. QED
    BY <2>2, <2>4
<1>4. QED
  BY <1>2, <1>3

\* A step that leaves the history of `k` alone, and nobody more to count at `t`.
LEMMA OverlapKept ==
    ASSUME NEW k, NEW t, Overlap(k, t), t \in Nat, clock \in Nat, clock' \in Nat,
           clock <= clock', limiter' = limiter,
           granted'[k] = granted[k], Held(events', k) = Held(events, k),
           Count(granted[k], t) \in Nat,
           Pending(k, t)' \subseteq Pending(k, t)
    PROVE  Overlap(k, t)'
<1>1. Cardinality(Pending(k, t)') <= Cardinality(Pending(k, t))
      /\ Cardinality(Pending(k, t)') \in Nat /\ Cardinality(Pending(k, t)) \in Nat
  <2>1. Pending(k, t) \in SUBSET Callers /\ Pending(k, t)' \in SUBSET Callers
    BY DEF Pending
  <2>2. QED
    BY <2>1, PendingIs
<1>2. Bounded(k, t) => Bounded(k, t)'
  BY <1>1, ConstantsAre DEF Bounded, Count, Live
<1>3. OutOfWindow(k, t) => OutOfWindow(k, t)'
  BY DEF OutOfWindow, Held
<1>4. QED
  BY <1>2, <1>3 DEF Overlap

\* A critical section loses nothing that counts when it ends, or later.
LEMMA SectionKeepsOut ==
    ASSUME LimiterInv, NEW j \in Keys, NEW now \in Time, Keeps(j, now) \/ Adds(j, now),
           NEW k \in Keys \ dropped', NEW t \in Time, OutOfWindow(k, t), now <= t
    PROVE  OutOfWindow(k, t)'
<1>1. LimiterTypeOK /\ HeldIsEnd /\ dropped' = dropped \cup Dropped(now)
  BY DEF LimiterInv, Keeps, Adds
<1>2. LosesExpired(k, now) /\ k \notin Dropped(now)
  BY <1>1, SectionLoses
<1>3. ASSUME NEW i \in Lost(granted'[k], Held(events', k))
      PROVE  ~ InWindow(granted'[k][i], t)
  <2>1. /\ i \in DOMAIN granted[k] /\ granted'[k][i] = granted[k][i]
        /\ i \in Lost(granted[k], Held(events, k)) \/ Expired(granted[k][i], now)
    BY <1>2, <1>3 DEF LosesExpired
  <2>2. CASE i \in Lost(granted[k], Held(events, k))
    BY <2>1, <2>2 DEF OutOfWindow
  <2>3. CASE Expired(granted[k][i], now)
    <3>1. granted[k] \in Seq(Time)
      BY <1>1 DEF LimiterTypeOK
    <3>2. granted[k][i] \in Time
      <4> DEFINE g == granted[k]
      <4>1. g \in Seq(Time) /\ i \in DOMAIN g
        BY <2>1, <3>1
      <4> HIDE DEF g
      <4>2. g[i] \in Time
        BY <4>1
      <4>3. QED
        BY <4>2 DEF g
    <3>3. granted[k][i] \in Nat /\ now \in Nat /\ t \in Nat /\ Window \in Nat
      BY <3>2, ConstantsAre
    <3>4. QED
      BY <2>1, <2>3, <3>3 DEF Expired, InWindow
  <2>4. QED
    BY <2>1, <2>2, <2>3
<1>4. QED
  BY <1>3 DEF OutOfWindow, Held

\* While nothing that counts is lost, the window holds what the table holds.
LEMMA OutIsBounded ==
    ASSUME LimiterInv, NEW k \in Keys, NEW t, OutOfWindow(k, t)
    PROVE  Count(granted[k], t) <= Len(Held(events, k))
BY CountIsHeld DEF LimiterInv, HeldIsEnd, OutOfWindow

\* How a critical section changes the count of key `k`.
LEMMA SectionCounts ==
    ASSUME LimiterTypeOK, NEW j \in Keys, NEW now \in Time, Keeps(j, now) \/ Adds(j, now),
           NEW k \in Keys, NEW t \in Time
    PROVE  /\ Count(granted[k], t) \in Nat /\ Count(granted'[k], t) \in Nat
           /\ \/ Count(granted'[k], t) = Count(granted[k], t)
              \/ /\ Adds(j, now) /\ k = j /\ now <= t
                 /\ Count(granted'[k], t) = Count(granted[k], t) + 1
<1>1. granted[k] \in Seq(Time) /\ granted \in [Keys -> Seq(Time)]
  BY DEF LimiterTypeOK
<1>2. Count(granted[k], t) \in Nat
  BY <1>1, CountIsNat
<1>3. CASE granted'[k] = granted[k]
  BY <1>2, <1>3
<1>4. CASE Adds(j, now) /\ k = j
  <2>1. granted' = [granted EXCEPT ![j] = Append(granted[j], now)]
    BY <1>4, AddsIs
  <2>2. granted'[k] = Append(granted[k], now)
    BY <1>1, <1>4, <2>1
  <2>3. Count(granted'[k], t) = IF InWindow(now, t) THEN Count(granted[k], t) + 1 ELSE Count(granted[k], t)
    BY <1>1, <2>2, CountAppended
  <2>4. QED
    BY <1>2, <1>4, <2>3 DEF InWindow
<1>5. QED
  <2>1. CASE Keeps(j, now)
    BY <1>3, <2>1 DEF Keeps
  <2>2. CASE Adds(j, now) /\ k # j
    <3>1. granted' = [granted EXCEPT ![j] = Append(granted[j], now)]
      BY <2>2, AddsIs
    <3>2. QED
      BY <1>1, <1>3, <2>2, <3>1
  <2>3. QED
    BY <1>4, <2>1, <2>2

\* A critical section that ends the call of `p`: what it adds was pending.
LEMMA SectionBounded ==
    ASSUME LimiterInv, NEW p \in Callers, caller[p].pc \in {"called", "failed"},
           NEW j, j = caller[p].key, NEW now, now = caller[p].now, j \in Keys, now \in Time,
           Keeps(j, now) \/ Adds(j, now), limiter = "login" /\ Adds(j, now) => caller[p].pc = "failed",
           Turns(p, NoCall),
           NEW k \in Keys, NEW t \in Time
    PROVE  /\ Bounded(k, t) => Bounded(k, t)'
           /\ Count(granted[k], t) <= MaxEvents /\ now > t => Bounded(k, t)'
<1>1. LimiterTypeOK /\ limiter' = limiter /\ clock' = clock /\ caller'[p] = NoCall
      /\ \A o \in Callers \ {p} : caller'[o] = caller[o]
  BY TurnsIs DEF LimiterInv
<1>2. p \notin Pending(k, t)' /\ Pending(k, t)' \subseteq Pending(k, t)
  BY <1>1 DEF Pending, NoCall
<1>3. Adds(j, now) /\ k = j /\ now <= t => p \in Pending(k, t)
  BY DEF Pending
<1>4. Pending(k, t) \in SUBSET Callers /\ Pending(k, t)' \in SUBSET Callers
  BY DEF Pending
<1> DEFINE P == Cardinality(Pending(k, t))
           Q == Cardinality(Pending(k, t)')
           C == Cardinality(Callers)
           m == Count(granted[k], t)
           n == Count(granted'[k], t)
<1>5. /\ P \in Nat /\ Q \in Nat /\ Q <= P /\ Q <= C - 1
      /\ p \in Pending(k, t) => Q <= P - 1
  BY <1>2, <1>4, PendingIs
<1>6. /\ m \in Nat /\ n \in Nat
      /\ n = m \/ (Adds(j, now) /\ k = j /\ now <= t /\ n = m + 1)
  BY <1>1, SectionCounts
<1>7. C \in Nat /\ MaxEvents \in Nat /\ now \in Nat /\ t \in Nat
  BY ConstantsAre
<1>8. (Bounded(k, t) <=> m + P <= MaxEvents + C - 1) /\ (Bounded(k, t)' <=> n + Q <= MaxEvents + C - 1)
  BY DEF Bounded, Count, Live
<1> HIDE DEF P, Q, C, m, n
<1>9. m + P <= MaxEvents + C - 1 => n + Q <= MaxEvents + C - 1
  <2>1. CASE n = m
    BY <1>5, <1>6, <1>7, <2>1
  <2>2. CASE n = m + 1 /\ p \in Pending(k, t)
    BY <1>5, <1>6, <1>7, <2>2
  <2>3. QED
    BY <1>3, <1>6, <2>1, <2>2
<1>10. m <= MaxEvents /\ now > t => n + Q <= MaxEvents + C - 1
  BY <1>5, <1>6, <1>7
<1>11. QED
  BY <1>8, <1>9, <1>10 DEF m

LEMMA OverlapByTryAcquire ==
    ASSUME LimiterInv, NEW p \in Callers, TryAcquire(p),
           NEW k \in Keys \ dropped', NEW t \in Time, Overlap(k, t)
    PROVE  Overlap(k, t)'
<1> DEFINE j == caller[p].key
           now == caller[p].now
<1>1. /\ LimiterTypeOK /\ caller[p].pc = "called" /\ limiter # "login" /\ j \in Keys /\ now \in Time
      /\ Turns(p, NoCall) /\ (Keeps(j, now) \/ Adds(j, now))
  BY TryAcquireIs DEF LimiterInv
<1>2. now <= clock /\ clock \in Nat /\ now \in Nat /\ t \in Nat /\ limiter' = limiter /\ clock' = clock
  BY <1>1, ConstantsAre DEF LimiterInv, NoCallFromLater, LimiterTypeOK, Turns
<1> HIDE DEF j, now
<1>3. OutOfWindow(k, t) /\ now <= t => OutOfWindow(k, t)'
  BY <1>1, SectionKeepsOut
<1>4. OutOfWindow(k, t) => Count(granted[k], t) <= MaxEvents
  <2>1. Len(Held(events, k)) \in Nat /\ Len(Held(events, k)) <= MaxEvents
    BY <1>1, HeldIs, ConstantsAre DEF LimiterInv, NeverOverfull
  <2>2. Count(granted[k], t) \in Nat
    BY <1>1, SectionCounts
  <2>3. QED
    BY <2>1, <2>2, OutIsBounded, ConstantsAre
<1>5. /\ Bounded(k, t) => Bounded(k, t)'
      /\ Count(granted[k], t) <= MaxEvents /\ now > t => Bounded(k, t)'
  BY <1>1, SectionBounded DEF j, now
<1>6. QED
  <2>1. CASE OutOfWindow(k, t) /\ now <= t
    BY <1>1, <1>2, <1>3, <2>1 DEF Overlap
  <2>2. CASE OutOfWindow(k, t) /\ now > t
    BY <1>1, <1>2, <1>4, <1>5, <2>2 DEF Overlap
  <2>3. CASE clock > t /\ Bounded(k, t)
    BY <1>1, <1>2, <1>5, <2>3 DEF Overlap
  <2>4. QED
    BY <1>2, <2>1, <2>2, <2>3 DEF Overlap

LEMMA OverlapByRecord ==
    ASSUME LimiterInv, NEW p \in Callers, Record(p),
           NEW k \in Keys \ dropped', NEW t \in Time, Overlap(k, t)
    PROVE  Overlap(k, t)'
<1> DEFINE j == caller[p].key
           now == caller[p].now
<1>1. /\ LimiterTypeOK /\ caller[p].pc = "failed" /\ limiter = "login" /\ j \in Keys /\ now \in Time
      /\ Turns(p, NoCall) /\ Adds(j, now)
  BY RecordIs DEF LimiterInv, OnlyLoginsVerify, LimiterTypeOK
<1>2. now <= clock /\ clock \in Nat /\ now \in Nat /\ t \in Nat /\ limiter' = limiter /\ clock' = clock
  BY <1>1, ConstantsAre DEF LimiterInv, NoCallFromLater, LimiterTypeOK, Turns
<1> HIDE DEF j, now
<1>3. OutOfWindow(k, t) /\ now <= t => OutOfWindow(k, t)'
  BY <1>1, SectionKeepsOut
<1>4. Bounded(k, t)'
  <2>1. Bounded(k, t)
    BY <1>1 DEF Overlap
  <2>2. QED
    BY <1>1, <2>1, SectionBounded DEF j, now
<1>5. clock <= t => OutOfWindow(k, t)'
  BY <1>2, <1>3 DEF Overlap
<1>6. QED
  BY <1>2, <1>4, <1>5 DEF Overlap

LEMMA OverlapByBlockedFor ==
    ASSUME LimiterInv, NEW p \in Callers, BlockedFor(p),
           NEW k \in Keys \ dropped', NEW t \in Time, Overlap(k, t)
    PROVE  Overlap(k, t)'
<1> DEFINE j == caller[p].key
           now == caller[p].now
           c == [pc |-> "verifying", key |-> j, now |-> 0]
<1>1. /\ LimiterTypeOK /\ caller[p].pc = "called" /\ limiter = "login" /\ j \in Keys /\ now \in Time
      /\ Keeps(j, now)
      /\ Turns(p, NoCall) \/ (Turns(p, c) /\ ~ Full(QueueOf(j, now)))
  BY BlockedForIs DEF LimiterInv
<1>2. now <= clock /\ clock \in Nat /\ now \in Nat /\ t \in Nat /\ limiter' = limiter /\ clock' = clock
  BY <1>1, ConstantsAre DEF LimiterInv, NoCallFromLater, LimiterTypeOK, Turns
<1>3. Bounded(k, t)
  BY <1>1 DEF Overlap
<1>4. clock <= t => OutOfWindow(k, t)'
  <2> HIDE DEF j, now
  <2>1. OutOfWindow(k, t) /\ now <= t => OutOfWindow(k, t)'
    BY <1>1, SectionKeepsOut
  <2>2. QED
    BY <1>2, <2>1 DEF Overlap
<1>5. /\ Count(granted[k], t) \in Nat
      /\ Bounded(k, t) <=> Count(granted[k], t) + Cardinality(Pending(k, t)) <= MaxEvents + Cardinality(Callers) - 1
      /\ Bounded(k, t)' <=> Count(granted[k], t) + Cardinality(Pending(k, t)') <= MaxEvents + Cardinality(Callers) - 1
  <2>1. Count(granted[k], t) \in Nat
    BY <1>1, SectionCounts
  <2>2. granted' = granted
    BY <1>1 DEF Keeps
  <2>3. QED
    BY <2>1, <2>2 DEF Bounded, Count, Live
<1>6. /\ Pending(k, t) \in SUBSET Callers /\ Pending(k, t)' \in SUBSET Callers
  BY DEF Pending
<1>7. /\ Cardinality(Pending(k, t)) \in Nat /\ Cardinality(Pending(k, t)') \in Nat
      /\ Cardinality(Pending(k, t)') <= Cardinality(Callers)
      /\ Pending(k, t)' \subseteq Pending(k, t) => Cardinality(Pending(k, t)') <= Cardinality(Pending(k, t))
  BY <1>6, PendingIs
<1>8. Bounded(k, t)'
  <2>1. CASE Pending(k, t)' \subseteq Pending(k, t)
    BY <1>3, <1>5, <1>7, <2>1, ConstantsAre
  <2>2. CASE Turns(p, c) /\ ~ Full(QueueOf(j, now)) /\ k = j /\ clock <= t
    <3>1. Count(granted'[k], t) <= Len(Held(events', k))
      <4>1. LimiterInv'
        <5>1. [LimiterNext]_vars
          BY DEF LimiterNext
        <5>2. QED
          BY <5>1, InvStep
      <4>2. /\ IsEnd(Held(events', k), granted'[k])
            /\ \A i \in Lost(granted'[k], Held(events', k)) : ~ InWindow(granted'[k][i], t)
        BY <1>4, <2>2, <4>1 DEF LimiterInv, HeldIsEnd, OutOfWindow, Held
      <4>3. QED
        BY <4>2, CountIsHeld
    <3>2. Held(events', k) = QueueOf(j, now) /\ Len(QueueOf(j, now)) \in Nat /\ granted' = granted
      <4>1. Held(events', j) = QueueOf(j, now) /\ granted' = granted
        BY <1>1, KeepsIs DEF Keeps
      <4>2. QueueOf(j, now) \in Seq(Time)
        BY <1>1, QueueIs
      <4>3. QED
        BY <2>2, <4>1, <4>2
    <3>3. ~ (Len(QueueOf(j, now)) >= MaxEvents)
      BY <2>2 DEF Full
    <3> HIDE DEF j, now, c
    <3>4. Count(granted[k], t) <= MaxEvents - 1
      BY <1>5, <3>1, <3>2, <3>3, ConstantsAre
    <3>5. QED
      BY <1>5, <1>7, <3>4, ConstantsAre
  <2>3. CASE Turns(p, NoCall)
    <3>1. caller'[p] = NoCall /\ \A o \in Callers \ {p} : caller'[o] = caller[o]
      BY <1>1, <2>3, TurnsIs
    <3>2. Pending(k, t)' \subseteq Pending(k, t)
      BY <1>2, <3>1 DEF Pending, NoCall
    <3>3. QED
      BY <2>1, <3>2
  <2>4. CASE Turns(p, c) /\ ~ (k = j /\ clock <= t)
    <3>1. caller'[p] = c /\ \A o \in Callers \ {p} : caller'[o] = caller[o]
      BY <1>1, <2>4, TurnsIs
    <3>2. c.pc = "verifying" /\ c.key = j /\ limiter = "login"
      BY <1>1
    <3> HIDE DEF c, j
    <3>3. Pending(k, t)' \subseteq Pending(k, t)
      BY <1>2, <2>4, <3>1, <3>2 DEF Pending
    <3>4. QED
      BY <2>1, <3>3
  <2>5. QED
    BY <1>1, <2>2, <2>3, <2>4
<1>9. QED
  BY <1>2, <1>4, <1>8 DEF Overlap

LEMMA OverlapByClear ==
    ASSUME LimiterInv, NEW p \in Callers, Clear(p),
           NEW k \in Keys \ dropped', NEW t \in Time, Overlap(k, t)
    PROVE  Overlap(k, t)'
<1> DEFINE j == caller[p].key
<1>1. /\ LimiterTypeOK /\ j \in Keys /\ Turns(p, NoCall) /\ limiter = "login"
      /\ Held(events', j) = <<>> /\ granted'[j] = <<>>
      /\ \A i \in Keys \ {j} : Held(events', i) = Held(events, i) /\ granted'[i] = granted[i]
  BY ClearIs DEF LimiterInv, OnlyLoginsVerify
<1>2. /\ caller'[p] = NoCall /\ \A o \in Callers \ {p} : caller'[o] = caller[o]
      /\ limiter' = limiter /\ clock' = clock
  BY <1>1, TurnsIs
<1>3. Pending(k, t)' \subseteq Pending(k, t) /\ p \notin Pending(k, t)'
  BY <1>2 DEF Pending, NoCall
<1>4. clock \in Nat /\ t \in Nat /\ Count(granted[k], t) \in Nat
  BY <1>1, CountIsNat, ConstantsAre DEF LimiterTypeOK
<1>5. CASE k # j
  <2>1. Held(events', k) = Held(events, k) /\ granted'[k] = granted[k]
    BY <1>1, <1>5
  <2>2. QED
    BY <1>2, <1>3, <1>4, <2>1, OverlapKept
<1>6. CASE k = j
  <2> HIDE DEF j
  <2>1. granted'[k] = <<>> /\ Held(events', k) = <<>>
    BY <1>1, <1>6
  <2>2. OutOfWindow(k, t)'
    <3>1. Lost(granted'[k], Held(events', k)) = {}
      BY <2>1 DEF Lost
    <3>2. QED
      BY <3>1 DEF OutOfWindow, Held
  <2>3. Count(granted'[k], t) = 0
    <3>1. Live(granted'[k], t) = {}
      BY <2>1 DEF Live
    <3>2. QED
      BY <3>1, FS_EmptySet DEF Count
  <2>4. Pending(k, t)' \in SUBSET Callers
    BY DEF Pending
  <2>5. Cardinality(Pending(k, t)') \in Nat /\ Cardinality(Pending(k, t)') <= Cardinality(Callers) - 1
    BY <1>3, <2>4, PendingIs
  <2>6. Bounded(k, t)'
    BY <2>3, <2>5, ConstantsAre DEF Bounded, Count, Live
  <2>7. QED
    BY <2>2, <2>6 DEF Overlap
<1>7. QED
  BY <1>5, <1>6

LEMMA OverlapByCall ==
    ASSUME LimiterInv, NEW p \in Callers, Call(p),
           NEW k \in Keys \ dropped', NEW t \in Time, Overlap(k, t)
    PROVE  Overlap(k, t)'
<1>1. LimiterTypeOK /\ caller[p].pc = "idle" /\ UNCHANGED <<limiter, clock, events, granted>>
  BY DEF LimiterInv, Call
<1>2. PICK j \in Keys : Turns(p, [pc |-> "called", key |-> j, now |-> clock])
  BY DEF Call, Turns
<1> DEFINE c == [pc |-> "called", key |-> j, now |-> clock]
<1>3. caller'[p] = c /\ \A o \in Callers \ {p} : caller'[o] = caller[o]
  BY <1>1, <1>2, TurnsIs
<1>4. c.pc = "called" /\ c.key = j /\ c.now = clock
  OBVIOUS
<1> HIDE DEF c
<1>5. clock \in Nat /\ t \in Nat /\ Count(granted[k], t) \in Nat
  BY <1>1, CountIsNat, ConstantsAre DEF LimiterTypeOK
<1>6. CASE limiter = "login" \/ clock > t
  <2>1. Pending(k, t)' \subseteq Pending(k, t)
    BY <1>1, <1>3, <1>4, <1>5, <1>6 DEF Pending
  <2>2. Held(events', k) = Held(events, k)
    BY <1>1
  <2>3. QED
    BY <1>1, <1>5, <2>1, <2>2, OverlapKept
<1>7. CASE ~ (limiter = "login" \/ clock > t)
  <2>1. OutOfWindow(k, t)
    BY <1>7 DEF Overlap
  <2>2. OutOfWindow(k, t)'
    BY <1>1, <2>1 DEF OutOfWindow, Held
  <2>3. QED
    BY <1>1, <1>7, <2>2 DEF Overlap
<1>8. QED
  BY <1>6, <1>7

LEMMA OverlapByFail ==
    ASSUME LimiterInv, NEW p \in Callers, Fail(p),
           NEW k \in Keys \ dropped', NEW t \in Time, Overlap(k, t)
    PROVE  Overlap(k, t)'
<1> DEFINE c == [pc |-> "failed", key |-> caller[p].key, now |-> clock]
<1>1. LimiterTypeOK /\ caller[p].pc = "verifying" /\ UNCHANGED <<limiter, clock, events, granted>>
      /\ limiter = "login" /\ Turns(p, c)
  BY DEF LimiterInv, Fail, OnlyLoginsVerify, Turns
<1>2. caller'[p] = c /\ \A o \in Callers \ {p} : caller'[o] = caller[o]
  BY <1>1, TurnsIs
<1>3. c.pc = "failed" /\ c.key = caller[p].key /\ c.now = clock
  OBVIOUS
<1> HIDE DEF c
<1>4. clock \in Nat /\ t \in Nat /\ Count(granted[k], t) \in Nat
  BY <1>1, CountIsNat, ConstantsAre DEF LimiterTypeOK
<1>5. Pending(k, t)' \subseteq Pending(k, t)
  BY <1>1, <1>2, <1>3, <1>4 DEF Pending
<1>6. Held(events', k) = Held(events, k)
  BY <1>1
<1>7. QED
  BY <1>1, <1>4, <1>5, <1>6, OverlapKept

LEMMA OverlapByTime ==
    ASSUME LimiterInv, Tick \/ UNCHANGED vars,
           NEW k \in Keys \ dropped', NEW t \in Time, Overlap(k, t)
    PROVE  Overlap(k, t)'
<1>1. /\ LimiterTypeOK /\ UNCHANGED <<limiter, events, caller, granted>>
      /\ clock \in Nat /\ clock' \in Nat /\ clock <= clock' /\ t \in Nat
  BY ConstantsAre DEF LimiterInv, LimiterTypeOK, Tick, vars
<1>2. Count(granted[k], t) \in Nat
  BY <1>1, CountIsNat DEF LimiterTypeOK
<1>3. Pending(k, t)' \subseteq Pending(k, t)
  BY <1>1 DEF Pending
<1>4. Held(events', k) = Held(events, k)
  BY <1>1
<1>5. QED
  BY <1>1, <1>2, <1>3, <1>4, OverlapKept

LEMMA OverlapStep ==
    ASSUME LimiterInv, OverlapInv, [LimiterNext]_vars
    PROVE  OverlapInv'
<1> SUFFICES ASSUME NEW k \in Keys \ dropped', NEW t \in Time PROVE Overlap(k, t)'
  BY DEF OverlapInv
<1>1. dropped \subseteq dropped'
  BY DEF LimiterNext, vars, Tick, Call, TryAcquire, BlockedFor, Fail, Record, Clear
<1>2. Overlap(k, t)
  BY <1>1 DEF OverlapInv
<1>3. QED
  BY <1>2, OverlapByTime, OverlapByCall, OverlapByTryAcquire, OverlapByBlockedFor, OverlapByFail,
     OverlapByRecord, OverlapByClear DEF LimiterNext

LEMMA OverlapInit == LimiterInit => OverlapInv
<1> SUFFICES ASSUME LimiterInit, NEW k \in Keys, NEW t \in Time PROVE Overlap(k, t)
  BY DEF OverlapInv
<1>1. granted[k] = <<>> /\ Held(events, k) = <<>>
  BY DEF LimiterInit, Held
<1>2. Lost(granted[k], Held(events, k)) = {} /\ Live(granted[k], t) = {}
  BY <1>1 DEF Lost, Live
<1>3. Pending(k, t) = {}
  BY DEF LimiterInit, NoCall, Pending
<1>4. Count(granted[k], t) = 0 /\ Cardinality(Pending(k, t)) = 0
  BY <1>2, <1>3, FS_EmptySet DEF Count
<1>5. QED
  BY <1>2, <1>4, ConstantsAre DEF Overlap, OutOfWindow, Bounded

LEMMA OverlapBounds ==
    ASSUME LimiterInv, OverlapInv
    PROVE  ExceededByOverlapOnly
<1> SUFFICES ASSUME NEW k \in Keys \ dropped, NEW t \in Time
             PROVE  Count(granted[k], t) <= MaxEvents + Cardinality(Callers) - 1
  BY WithinIs DEF ExceededByOverlapOnly
<1>1. Count(granted[k], t) \in Nat /\ Cardinality(Pending(k, t)) \in Nat
  <2>1. Pending(k, t) \in SUBSET Callers
    BY DEF Pending
  <2>2. QED
    BY <2>1, CountIsNat, PendingIs DEF LimiterInv, LimiterTypeOK
<1>2. CASE Bounded(k, t)
  BY <1>1, <1>2, ConstantsAre DEF Bounded
<1>3. CASE limiter # "login" /\ OutOfWindow(k, t)
  <2>1. Len(Held(events, k)) \in Nat /\ Len(Held(events, k)) <= MaxEvents
    BY <1>3, HeldIs, ConstantsAre DEF LimiterInv, NeverOverfull
  <2>2. QED
    BY <1>1, <1>3, <2>1, OutIsBounded, ConstantsAre
<1>4. QED
  BY <1>2, <1>3 DEF OverlapInv, Overlap

\* However the worker threads interleave between reading the time and taking the lock,
\* each call in progress besides the one that decides adds at most one to the limit, and
\* a failed login was let through only while there was room for it.
THEOREM OverlapIsAllThatExceeds == LimiterSpec => []ExceededByOverlapOnly
<1>1. LimiterInit => LimiterInv /\ OverlapInv
  BY InvInit, OverlapInit
<1>2. LimiterInv /\ OverlapInv /\ [LimiterNext]_vars => (LimiterInv /\ OverlapInv)'
  BY InvStep, OverlapStep
<1>3. LimiterInv /\ OverlapInv => ExceededByOverlapOnly
  BY OverlapBounds
<1>4. QED
  BY <1>1, <1>2, <1>3, PTL DEF LimiterSpec

-----------------------------------------------------------------------------
(* On the event loop: the window, exactly.                                 *)

\* Ticks rounded up to seconds are the least seconds that are no fewer ticks.
LEMMA SecondsUpIs ==
    ASSUME NEW x \in Nat, x > 0
    PROVE  /\ SecondsUp(x) \in 1 .. x
           /\ x <= SecondsUp(x) * Second
           /\ \A m \in Nat : m < SecondsUp(x) => m * Second < x
<1> DEFINE y == x + Second - 1
           n == y \div Second
<1>1. Second \in Nat /\ Second > 0 /\ y \in Nat
  BY ConstantsAre
<1>2. n \in Nat /\ n * Second <= y /\ y < n * Second + Second
  <2> HIDE DEF y
  <2>1. n \in Nat
    BY <1>1
  <2>2. n * Second <= y /\ y < n * Second + Second
    BY <1>1
  <2>3. QED
    BY <2>1, <2>2
<1>3. SecondsUp(x) = n
  BY DEF SecondsUp
<1> HIDE DEF n
<1>4. n * Second \in Nat
  BY <1>1, <1>2
<1>5. x <= n * Second
  BY <1>1, <1>2, <1>4 DEF y
<1>6. n >= 1
  <2>1. n = 0 => n * Second = 0
    BY <1>1, <1>2
  <2>2. QED
    BY <1>2, <1>5, <2>1
<1>7. ASSUME NEW m \in Nat, m < n PROVE m * Second < x
  <2>1. PICK d \in Nat : n = m + 1 + d
    <3>1. n - m - 1 \in Nat /\ n = m + 1 + (n - m - 1)
      BY <1>2, <1>7
    <3>2. QED
      BY <3>1
  <2>2. n * Second = m * Second + Second + d * Second
    BY <1>1, <1>2, <2>1
  <2>3. m * Second \in Nat /\ d * Second \in Nat
    BY <1>1, <2>1
  <2>4. QED
    BY <1>1, <1>2, <1>4, <2>2, <2>3 DEF y
<1>8. n <= x
  <2>1. x * Second >= x
    BY <1>1
  <2>2. x < n => x * Second < x
    BY <1>7
  <2>3. x * Second \in Nat
    BY <1>1
  <2>4. QED
    BY <1>2, <2>1, <2>2, <2>3
<1>9. QED
  BY <1>2, <1>3, <1>5, <1>6, <1>7, <1>8

Sorted(q) == \A i, j \in DOMAIN q : i <= j => q[i] <= q[j]

\* Every admission is in the past, in order, and what the table lost of them is expired.
LoopKey(k) ==
    /\ Sorted(granted[k]) /\ \A i \in DOMAIN granted[k] : granted[k][i] <= clock
    /\ \A i \in Lost(granted[k], Held(events, k)) : Expired(granted[k][i], clock)

\* ... and a call is over before the time passes.
LoopInv ==
    limiter = "loop" =>
        /\ \A p \in Callers : caller[p].pc # "idle" => caller[p].now = clock
        /\ \A k \in Keys : LoopKey(k)

\* The last stamp of a key is its latest: the cleanup drops nothing that counts.
LEMMA CleanupLosesNothing ==
    ASSUME LimiterInv, LoopInv, limiter = "loop"
    PROVE  Dropped(clock) = {}
<1> SUFFICES ASSUME NEW k \in Dropped(clock) PROVE FALSE
  OBVIOUS
<1>1. LimiterTypeOK /\ clock \in Time
  BY DEF LimiterInv, LimiterTypeOK
<1>2. PICK i \in DOMAIN events[k] : ~ Expired(events[k][i], clock)
  BY DEF Dropped
<1>3. k \in DOMAIN events /\ k \in Keys /\ Expired(events[k][Len(events[k])], clock)
  BY <1>1, CleanedIs DEF Dropped, LimiterTypeOK
<1> DEFINE h == events[k]
           g == granted[k]
<1>4. h = Held(events, k) /\ LoopKey(k) /\ IsEnd(Held(events, k), g)
  BY <1>3 DEF Held, LoopInv, LimiterInv, HeldIsEnd
<1>5. /\ h \in Seq(Time) /\ g \in Seq(Time) /\ Len(g) \in Nat /\ Len(h) \in Nat /\ Len(h) <= Len(g)
      /\ DOMAIN g = 1 .. Len(g) /\ DOMAIN h = 1 .. Len(h)
      /\ \A m \in 1 .. Len(h) : h[m] = g[Len(g) - Len(h) + m]
  BY <1>4 DEF IsEnd
<1> HIDE DEF g
<1>6. Sorted(g) /\ i \in DOMAIN h /\ ~ Expired(h[i], clock) /\ Expired(h[Len(h)], clock)
  BY <1>2, <1>3, <1>4 DEF LoopKey, g
<1> HIDE DEF h
<1>7. i \in 1 .. Len(h) /\ Len(h) \in 1 .. Len(h)
  BY <1>5, <1>6
<1>8. h[i] <= h[Len(h)]
  <2> DEFINE a == Len(g) - Len(h) + i
  <2>1. a \in DOMAIN g /\ Len(g) \in DOMAIN g /\ a <= Len(g)
    BY <1>5, <1>7
  <2>2. Len(g) - Len(h) + Len(h) = Len(g)
    BY <1>5
  <2>3. h[i] = g[a] /\ h[Len(h)] = g[Len(g)]
    BY <1>5, <1>7, <2>2
  <2>4. QED
    BY <1>6, <2>1, <2>3 DEF Sorted
<1>9. h[i] \in Time /\ h[Len(h)] \in Time
  BY <1>5, <1>7
<1>10. QED
  <2>1. h[i] \in Nat /\ h[Len(h)] \in Nat /\ clock \in Nat /\ Window \in Nat
    BY <1>1, <1>9, ConstantsAre
  <2>2. ~ (h[i] + Window <= clock) /\ h[Len(h)] + Window <= clock
    BY <1>6 DEF Expired
  <2>3. QED
    BY <1>8, <2>1, <2>2

\* The deque of key `k`, pruned, is the window of its admissions; and it goes on being
\* the window, if nobody asks, until its first stamp expires.
LEMMA QueueIsWindow ==
    ASSUME LimiterInv, LoopInv, limiter = "loop", NEW k \in Keys, NEW q, q = QueueOf(k, clock)
    PROVE  /\ Len(q) \in Nat /\ Count(granted[k], clock) = Len(q)
           /\ q # <<>> => q[1] \in Nat /\ q[1] <= clock /\ clock < q[1] + Window
           /\ \A t \in Nat : t >= clock /\ q # <<>> =>
                /\ t < q[1] + Window => Count(granted[k], t) = Len(q)
                /\ q[1] + Window <= t => Count(granted[k], t) < Len(q)
<1> DEFINE g == granted[k]
           h == Held(events, k)
           d == Len(g) - Len(q)
<1>1. LimiterTypeOK /\ clock \in Time /\ clock \in Nat /\ Window \in Nat
  BY ConstantsAre DEF LimiterInv, LimiterTypeOK
<1>2. /\ IsEnd(h, g) /\ Sorted(g) /\ \A i \in DOMAIN g : g[i] <= clock
      /\ \A i \in Lost(g, h) : Expired(g[i], clock)
  BY DEF LimiterInv, HeldIsEnd, LoopInv, LoopKey
<1>3. Pruned(h, q, k, clock) /\ (q # <<>> => ~ Expired(q[1], clock)) /\ k \notin Dropped(clock)
  BY <1>1, QueueIs, CleanupLosesNothing
<1> HIDE DEF h
<1>4. IsEnd(q, g) /\ \A i \in Lost(g, q) : i \in DOMAIN g /\ Expired(g[i], clock)
  BY <1>2, <1>3, EndOfEnd
<1> HIDE DEF g
<1>5. /\ g \in Seq(Time) /\ Len(g) \in Nat /\ DOMAIN g = 1 .. Len(g) /\ q \in Seq(Time) /\ Len(q) \in Nat
      /\ Len(q) <= Len(g) /\ \A i \in 1 .. Len(q) : q[i] = g[Len(g) - Len(q) + i]
      /\ \A i \in DOMAIN g : g[i] \in Nat
  <2>1. g \in Seq(Time)
    BY <1>4 DEF IsEnd
  <2>2. \A i \in DOMAIN g : g[i] \in Time
    BY <2>1
  <2>3. \A i \in DOMAIN g : g[i] \in Nat
    BY <2>2, ConstantsAre
  <2>4. Len(g) \in Nat /\ DOMAIN g = 1 .. Len(g)
    BY <2>1
  <2>5. QED
    BY <1>4, <2>3, <2>4 DEF IsEnd
<1>6. ASSUME NEW t \in Nat, t >= clock
      PROVE  /\ Live(g, t) \subseteq d + 1 .. Len(g) /\ IsFiniteSet(d + 1 .. Len(g))
             /\ Cardinality(d + 1 .. Len(g)) = Len(q) /\ Count(g, t) <= Len(q)
  <2>1. \A i \in Lost(g, q) : ~ InWindow(g[i], t)
    BY <1>1, <1>4, <1>5, <1>6 DEF Expired, InWindow
  <2>2. QED
    BY <1>4, <2>1, CountIsHeld
<1>7. ASSUME q # <<>>
      PROVE  /\ d + 1 \in DOMAIN g /\ q[1] = g[d + 1] /\ q[1] \in Nat /\ q[1] <= clock
             /\ clock < q[1] + Window
  <2>1. Len(q) >= 1
    BY <1>5, <1>7
  <2>2. d + 1 \in DOMAIN g /\ q[1] = g[d + 1]
    BY <1>5, <2>1
  <2> HIDE DEF d
  <2>3. q[1] \in Nat /\ q[1] <= clock
    BY <1>2, <1>5, <2>2
  <2>4. QED
    BY <1>1, <1>3, <1>7, <2>2, <2>3 DEF Expired
<1>8. ASSUME NEW t \in Nat, t >= clock, q # <<>>, t < q[1] + Window
      PROVE  Count(g, t) = Len(q)
  <2>1. ASSUME NEW i \in d + 1 .. Len(g) PROVE i \in Live(g, t)
    <3>1. i \in DOMAIN g /\ d + 1 <= i
      BY <1>5
    <3> HIDE DEF d
    <3>2. q[1] <= g[i] /\ g[i] <= clock /\ g[i] \in Nat /\ q[1] \in Nat
      BY <1>2, <1>5, <1>7, <1>8, <3>1 DEF Sorted
    <3>3. InWindow(g[i], t)
      BY <1>1, <1>8, <3>2 DEF InWindow
    <3>4. QED
      BY <3>1, <3>3 DEF Live
  <2>2. Live(g, t) = d + 1 .. Len(g)
    BY <1>6, <1>8, <2>1
  <2>3. QED
    BY <1>6, <1>8, <2>2 DEF Count
<1>9. ASSUME NEW t \in Nat, t >= clock, q # <<>>, q[1] + Window <= t
      PROVE  Count(g, t) < Len(q)
  <2> DEFINE S == d + 1 .. Len(g)
  <2>1. d + 1 \notin Live(g, t)
    <3>1. q[1] = g[d + 1] /\ q[1] \in Nat
      BY <1>7, <1>9
    <3> HIDE DEF d
    <3>2. ~ InWindow(g[d + 1], t)
      BY <1>1, <1>9, <3>1 DEF InWindow
    <3>3. QED
      BY <3>2 DEF Live
  <2>2. d + 1 \in S
    BY <1>5, <1>7, <1>9
  <2>3. Live(g, t) \subseteq S /\ IsFiniteSet(S) /\ Cardinality(S) = Len(q)
    BY <1>6, <1>9
  <2> HIDE DEF S, d
  <2>4. IsFiniteSet(S \ {d + 1}) /\ Cardinality(S \ {d + 1}) = Len(q) - 1
    BY <2>2, <2>3, FS_RemoveElement
  <2>5. Live(g, t) \in SUBSET (S \ {d + 1})
    BY <2>1, <2>3
  <2>6. Cardinality(Live(g, t)) <= Len(q) - 1
    BY <2>4, <2>5, FS_Subset
  <2>7. Count(g, t) \in Nat
    BY <1>5, CountIsNat
  <2>8. QED
    BY <1>5, <2>6, <2>7 DEF Count
<1>10. Count(g, clock) = Len(q)
  <2>1. CASE q = <<>>
    <3>1. Len(q) = 0
      BY <2>1
    <3>2. Count(g, clock) <= 0 /\ Count(g, clock) \in Nat
      BY <1>1, <1>5, <1>6, <3>1, CountIsNat
    <3>3. QED
      BY <3>1, <3>2
  <2>2. CASE q # <<>>
    BY <1>1, <1>7, <1>8, <2>2
  <2>3. QED
    BY <2>1, <2>2
<1>11. QED
  BY <1>5, <1>7, <1>8, <1>9, <1>10 DEF g

\* Append keeps a history in order when it adds the current time.
LEMMA SortedAppended ==
    ASSUME NEW g \in Seq(Time), NEW n \in Time, Sorted(g), \A i \in DOMAIN g : g[i] <= n
    PROVE  /\ Sorted(Append(g, n))
           /\ \A i \in DOMAIN Append(g, n) : Append(g, n)[i] <= n
<1> DEFINE G == Append(g, n)
<1>1. /\ Len(g) \in Nat /\ DOMAIN g = 1 .. Len(g) /\ DOMAIN G = 1 .. Len(g) + 1
      /\ G[Len(g) + 1] = n /\ \A i \in 1 .. Len(g) : G[i] = g[i]
  OBVIOUS
<1>2. n \in Nat
  BY ConstantsAre
<1> HIDE DEF G
<1>3. \A i \in DOMAIN G : G[i] <= n
  BY <1>1, <1>2
<1>4. ASSUME NEW i \in DOMAIN G, NEW j \in DOMAIN G, i <= j PROVE G[i] <= G[j]
  <2>1. CASE j = Len(g) + 1
    BY <1>1, <1>3, <2>1
  <2>2. CASE j \in 1 .. Len(g)
    <3>1. i \in 1 .. Len(g)
      BY <1>1, <1>4, <2>2
    <3>2. QED
      BY <1>1, <1>4, <2>2, <3>1 DEF Sorted
  <2>3. QED
    BY <1>1, <2>1, <2>2
<1>5. Sorted(G)
  BY <1>4 DEF Sorted
<1>6. QED
  BY <1>3, <1>5 DEF G

\* On the event loop a caller enters the critical section at the time it read.
LEMMA LoopAcquireIs ==
    ASSUME LimiterInv, LoopInv, limiter = "loop", NEW p \in Callers, TryAcquire(p)
    PROVE  LET k == caller[p].key  q == QueueOf(k, clock) IN
           /\ k \in Keys /\ clock \in Time /\ Turns(p, NoCall)
           /\ \/ Full(q) /\ Keeps(k, clock) /\ answer' = RetryAfter(q, clock)
              \/ ~ Full(q) /\ Adds(k, clock) /\ answer' = 0
<1>1. LimiterTypeOK /\ caller[p].pc = "called" /\ clock \in Time
  BY TryAcquireIs DEF LimiterInv, LimiterTypeOK
<1>2. caller[p].now = clock
  BY <1>1 DEF LoopInv
<1>3. QED
  BY <1>1, <1>2, TryAcquireIs

LEMMA LoopStep ==
    ASSUME LimiterInv, LoopInv, [LimiterNext]_vars
    PROVE  LoopInv'
<1>1. LimiterTypeOK /\ OnlyLoginsVerify /\ clock \in Nat /\ granted \in [Keys -> Seq(Time)]
  BY ConstantsAre DEF LimiterInv, LimiterTypeOK
<1>2. limiter' = limiter
  BY DEF LimiterNext, vars, Tick, Call, TryAcquire, BlockedFor, Fail, Record, Clear
<1> SUFFICES ASSUME limiter = "loop" PROVE LoopInv'
  BY <1>2 DEF LoopInv
<1>3. /\ \A p \in Callers : caller[p].pc # "idle" => caller[p].now = clock
      /\ \A k \in Keys : LoopKey(k)
  BY DEF LoopInv
<1>4. CASE UNCHANGED vars
  BY <1>4 DEF LoopInv, LoopKey, Held, vars
<1>5. CASE Tick
  <2>1. clock' = clock + 1 /\ UNCHANGED <<events, caller, granted>> /\ \A p \in Callers : caller[p].pc = "idle"
    BY <1>5 DEF Tick
  <2>2. ASSUME NEW k \in Keys PROVE LoopKey(k)'
    <3> DEFINE g == granted[k]
               h == Held(events, k)
    <3>1. /\ Sorted(g) /\ \A i \in DOMAIN g : g[i] <= clock
          /\ \A i \in Lost(g, h) : i \in DOMAIN g /\ Expired(g[i], clock)
      <4>1. LoopKey(k) /\ IsEnd(h, g)
        BY <1>3 DEF LimiterInv, HeldIsEnd
      <4>2. Lost(g, h) \subseteq DOMAIN g
        <5> HIDE DEF g, h
        <5>1. Len(g) \in Nat /\ Len(h) \in Nat /\ DOMAIN g = 1 .. Len(g)
          BY <4>1 DEF IsEnd
        <5>2. QED
          BY <5>1 DEF Lost
      <4>3. QED
        BY <4>1, <4>2 DEF LoopKey
    <3>2. \A i \in DOMAIN g : g[i] \in Nat
      <4>1. g \in Seq(Time)
        BY <1>1
      <4> HIDE DEF g
      <4>2. \A i \in DOMAIN g : g[i] \in Time
        BY <4>1
      <4>3. QED
        BY <4>2, ConstantsAre
    <3>3. granted'[k] = g /\ Held(events', k) = h
      BY <2>1
    <3> HIDE DEF g, h
    <3>4. \A i \in DOMAIN g : g[i] <= clock'
      BY <1>1, <2>1, <3>1, <3>2
    <3>5. \A i \in Lost(g, h) : Expired(g[i], clock')
      BY <1>1, <2>1, <3>1, <3>2, ConstantsAre DEF Expired
    <3>6. QED
      BY <3>1, <3>3, <3>4, <3>5 DEF LoopKey, Held
  <2>3. QED
    BY <2>1, <2>2 DEF LoopInv
<1>6. ASSUME NEW p \in Callers, NEW c, Turns(p, c), c.pc # "idle" => c.now = clock
      PROVE  clock' = clock /\ \A o \in Callers : caller'[o].pc # "idle" => caller'[o].now = clock'
  BY <1>1, <1>3, <1>6, TurnsIs
<1>7. ASSUME NEW p \in Callers, Call(p) PROVE LoopInv'
  <2>1. PICK k \in Keys : Turns(p, [pc |-> "called", key |-> k, now |-> clock])
    BY <1>7 DEF Call, Turns
  <2>2. clock' = clock /\ \A o \in Callers : caller'[o].pc # "idle" => caller'[o].now = clock'
    BY <1>6, <2>1
  <2>3. \A k1 \in Keys : LoopKey(k1)'
    BY <1>3, <1>7 DEF Call, LoopKey, Held
  <2>4. QED
    BY <2>2, <2>3 DEF LoopInv
<1>8. ASSUME NEW p \in Callers, TryAcquire(p) PROVE LoopInv'
  <2> DEFINE j == caller[p].key
  <2>1. j \in Keys /\ clock \in Time /\ Turns(p, NoCall) /\ (Keeps(j, clock) \/ Adds(j, clock))
    BY <1>8, LoopAcquireIs
  <2> HIDE DEF j
  <2>2. NoCall.pc = "idle"
    BY DEF NoCall
  <2>3. clock' = clock /\ \A o \in Callers : caller'[o].pc # "idle" => caller'[o].now = clock'
    BY <1>6, <2>1, <2>2
  <2>4. ASSUME NEW k \in Keys PROVE LoopKey(k)'
    <3>1. LosesExpired(k, clock) /\ k \notin Dropped(clock)
      BY <2>1, SectionLoses, CleanupLosesNothing DEF LimiterInv
    <3>2. LoopKey(k) /\ granted[k] \in Seq(Time)
      BY <1>1, <1>3
    <3>3. \A i \in Lost(granted'[k], Held(events', k)) : Expired(granted'[k][i], clock)
      BY <3>1, <3>2 DEF LosesExpired, LoopKey
    <3>4. granted'[k] = granted[k] \/ granted'[k] = Append(granted[k], clock)
      <4>1. CASE Keeps(j, clock)
        BY <4>1 DEF Keeps
      <4>2. CASE Adds(j, clock)
        <5>1. granted' = [granted EXCEPT ![j] = Append(granted[j], clock)]
          BY <1>1, <2>1, <4>2, AddsIs
        <5>2. QED
          BY <1>1, <5>1
      <4>3. QED
        BY <2>1, <4>1, <4>2
    <3>5. Sorted(granted'[k]) /\ \A i \in DOMAIN granted'[k] : granted'[k][i] <= clock
      <4>1. Sorted(granted[k]) /\ \A i \in DOMAIN granted[k] : granted[k][i] <= clock
        BY <3>2 DEF LoopKey
      <4>2. CASE granted'[k] = granted[k]
        BY <4>1, <4>2
      <4>3. CASE granted'[k] = Append(granted[k], clock)
        BY <2>1, <3>2, <4>1, <4>3, SortedAppended
      <4>4. QED
        BY <3>4, <4>2, <4>3
    <3>6. QED
      BY <2>3, <3>3, <3>5 DEF LoopKey, Held
  <2>5. QED
    BY <2>3, <2>4 DEF LoopInv
<1>9. ASSUME NEW p \in Callers PROVE ~ BlockedFor(p) /\ ~ Fail(p) /\ ~ Record(p) /\ ~ Clear(p)
  BY <1>1 DEF BlockedFor, Fail, Record, Clear, OnlyLoginsVerify
<1>10. QED
  BY <1>4, <1>5, <1>7, <1>8, <1>9 DEF LimiterNext

LEMMA LoopInit == LimiterInit => LoopInv
<1> SUFFICES ASSUME LimiterInit PROVE LoopInv
  OBVIOUS
<1>1. \A p \in Callers : caller[p].pc = "idle"
  BY DEF LimiterInit, NoCall
<1>2. ASSUME NEW k \in Keys PROVE LoopKey(k)
  <2>1. granted[k] = <<>> /\ Held(events, k) = <<>>
    BY DEF LimiterInit, Held
  <2>2. QED
    BY <2>1 DEF LoopKey, Sorted, Lost
<1>3. QED
  BY <1>1, <1>2 DEF LoopInv

\* A refused client is told the least number of seconds after which there is room.
LEMMA RetryAfterIsLeast ==
    ASSUME LimiterInv, LoopInv, limiter = "loop", NEW k \in Keys, Full(QueueOf(k, clock))
    PROVE  RetryAfter(QueueOf(k, clock), clock) = Ideal!LeastWait(k)
<1> DEFINE q == QueueOf(k, clock)
           x == q[1] + Window - clock
           w == SecondsUp(x)
           RoomAfter(n) == Count(granted[k], clock + n * Second) < MaxEvents
<1>1. clock \in Nat /\ clock \in Time /\ LimiterTypeOK
  BY ConstantsAre DEF LimiterInv, LimiterTypeOK
<1>2. /\ Len(q) \in Nat
      /\ q # <<>> => q[1] \in Nat /\ q[1] <= clock /\ clock < q[1] + Window
      /\ \A t \in Nat : t >= clock /\ q # <<>> =>
            /\ t < q[1] + Window => Count(granted[k], t) = Len(q)
            /\ q[1] + Window <= t => Count(granted[k], t) < Len(q)
  BY QueueIsWindow
<1>3. Len(q) = MaxEvents /\ q # <<>>
  <2>1. Len(Held(events, k)) \in Nat /\ Len(Held(events, k)) <= MaxEvents
    BY <1>1, HeldIs, ConstantsAre DEF LimiterInv, NeverOverfull
  <2>2. Len(q) <= Len(Held(events, k))
    BY <1>1, QueueIs
  <2>3. Len(q) >= MaxEvents
    BY DEF Full
  <2>4. q = <<>> => Len(q) = 0
    OBVIOUS
  <2> HIDE DEF q
  <2>5. QED
    BY <1>2, <2>1, <2>2, <2>3, <2>4, ConstantsAre
<1> HIDE DEF q
<1>4. x \in Nat /\ x > 0 /\ x <= Window
  BY <1>1, <1>2, <1>3, ConstantsAre
<1>5. ASSUME NEW n \in Nat PROVE RoomAfter(n) <=> x <= n * Second
  <2>1. n * Second \in Nat
    BY ConstantsAre
  <2> DEFINE t == clock + n * Second
  <2>2. t \in Nat /\ t >= clock
    BY <1>1, <2>1
  <2>3. q[1] + Window <= t <=> x <= n * Second
    BY <1>1, <1>2, <1>3, <2>1, ConstantsAre
  <2>4. q[1] + Window <= t \/ t < q[1] + Window
    BY <1>1, <1>2, <1>3, <2>2, ConstantsAre
  <2> HIDE DEF t
  <2>5. Count(granted[k], t) < MaxEvents <=> q[1] + Window <= t
    <3>1. CASE q[1] + Window <= t
      BY <1>2, <1>3, <2>2, <3>1
    <3>2. CASE ~ (q[1] + Window <= t)
      BY <1>2, <1>3, <2>2, <2>4, <3>2, ConstantsAre
    <3>3. QED
      BY <3>1, <3>2
  <2>6. QED
    BY <2>3, <2>5 DEF t
<1> HIDE DEF x, RoomAfter
<1>6. /\ w \in 1 .. x /\ x <= w * Second
      /\ \A m \in Nat : m < w => m * Second < x
  BY <1>4, SecondsUpIs
<1> HIDE DEF w
<1>7. w \in Nat /\ w >= 1 /\ w \in 1 .. Window + 1 /\ RoomAfter(w)
  BY <1>4, <1>5, <1>6, ConstantsAre
<1>8. \A m \in 1 .. w - 1 : ~ RoomAfter(m)
  <2> SUFFICES ASSUME NEW m \in 1 .. w - 1 PROVE ~ RoomAfter(m)
    OBVIOUS
  <2>1. m \in Nat /\ m < w
    BY <1>7
  <2>2. m * Second < x /\ m * Second \in Nat
    BY <1>6, <2>1, ConstantsAre
  <2>3. QED
    BY <1>4, <1>5, <2>1, <2>2
<1> DEFINE Least(n) == RoomAfter(n) /\ \A m \in 1 .. n - 1 : ~ RoomAfter(m)
<1>9. Least(w)
  BY <1>7, <1>8
<1>10. ASSUME NEW n \in 1 .. Window + 1, Least(n) PROVE n = w
  <2>1. n \in Nat /\ n >= 1
    BY <1>10, ConstantsAre
  <2>2. ~ (n < w)
    BY <1>7, <1>8, <1>10, <2>1
  <2>3. ~ (w < n)
    BY <1>7, <1>10, <2>1
  <2>4. QED
    BY <1>7, <2>1, <2>2, <2>3
<1> HIDE DEF Least
<1>11. w = CHOOSE n \in 1 .. Window + 1 : Least(n)
  BY <1>7, <1>9, <1>10
<1>12. ASSUME NEW n \in 1 .. Window + 1
       PROVE  Least(n) <=>
              /\ Ideal!Within(granted, k, clock + n * Second) < MaxEvents
              /\ \A m \in 1 .. n - 1 : Ideal!Within(granted, k, clock + m * Second) >= MaxEvents
  <2>1. \A t : Ideal!Within(granted, k, t) = Count(granted[k], t) /\ Count(granted[k], t) \in Nat
    <3>1. granted[k] \in Seq(Time)
      BY <1>1 DEF LimiterTypeOK
    <3>2. QED
      BY <3>1, WithinIs, CountIsNat
  <2>2. MaxEvents \in Nat
    BY ConstantsAre
  <2>3. \A m : RoomAfter(m) <=> Ideal!Within(granted, k, clock + m * Second) < MaxEvents
    BY <2>1 DEF RoomAfter
  <2>4. \A m : ~ RoomAfter(m) <=> Ideal!Within(granted, k, clock + m * Second) >= MaxEvents
    BY <2>1, <2>2 DEF RoomAfter
  <2>5. QED
    BY <2>3, <2>4 DEF Least
<1>13. Ideal!LeastWait(k) = CHOOSE n \in 1 .. Window + 1 : Least(n)
  BY <1>12, Zenon DEF Ideal!LeastWait
<1>14. RetryAfter(QueueOf(k, clock), clock) = w
  <2>1. RetryAfter(q, clock) = IF w < 1 THEN 1 ELSE w
    BY DEF RetryAfter, w, x
  <2>2. QED
    BY <1>7, <2>1 DEF q
<1>15. QED
  BY <1>11, <1>13, <1>14

LEMMA ImplementsStep ==
    ASSUME LimiterInv, LoopInv, limiter = "loop", [LimiterNext]_vars
    PROVE  [Ideal!WindowNext]_(Ideal!windowVars)
<1>1. LimiterTypeOK /\ OnlyLoginsVerify /\ clock \in Nat /\ MaxEvents \in Nat
  BY ConstantsAre DEF LimiterInv, LimiterTypeOK
<1>2. CASE UNCHANGED vars
  BY <1>2 DEF vars, Ideal!windowVars
<1>3. CASE Tick
  <2>1. Ideal!TimePasses
    BY <1>3 DEF Tick, Ideal!TimePasses
  <2>2. QED
    BY <2>1 DEF Ideal!WindowNext
<1>4. ASSUME NEW p \in Callers, Call(p) PROVE UNCHANGED Ideal!windowVars
  BY <1>4 DEF Call, Ideal!windowVars
<1>5. ASSUME NEW p \in Callers, TryAcquire(p) PROVE Ideal!WindowNext
  <2> DEFINE k == caller[p].key
             q == QueueOf(k, clock)
  <2>1. /\ k \in Keys /\ clock \in Time /\ Turns(p, NoCall)
        /\ \/ Full(q) /\ Keeps(k, clock) /\ answer' = RetryAfter(q, clock)
           \/ ~ Full(q) /\ Adds(k, clock) /\ answer' = 0
    BY <1>5, LoopAcquireIs
  <2> HIDE DEF k
  <2>2. Len(q) \in Nat /\ Ideal!Within(granted, k, clock) = Len(q)
    BY <2>1, QueueIsWindow, WithinIs
  <2>3. clock' = clock
    BY <2>1 DEF Turns
  <2>4. CASE Full(q) /\ Keeps(k, clock) /\ answer' = RetryAfter(q, clock)
    <3>1. answer' = Ideal!LeastWait(k)
      BY <2>1, <2>4, RetryAfterIsLeast
    <3>2. Ideal!RefuseFor(k)
      BY <2>2, <2>3, <2>4, <3>1 DEF Full, Keeps, Ideal!RefuseFor
    <3>3. QED
      BY <2>1, <3>2 DEF Ideal!WindowNext
  <2>5. CASE ~ Full(q) /\ Adds(k, clock) /\ answer' = 0
    <3>1. granted' = [granted EXCEPT ![k] = Append(granted[k], clock)]
      BY <1>1, <2>1, <2>5, AddsIs
    <3>2. Ideal!Within(granted, k, clock) < MaxEvents
      BY <1>1, <2>2, <2>5 DEF Full
    <3>3. Ideal!Admit(k)
      BY <2>3, <2>5, <3>1, <3>2 DEF Ideal!Admit
    <3>4. QED
      BY <2>1, <3>3 DEF Ideal!WindowNext
  <2>6. QED
    BY <2>1, <2>4, <2>5
<1>6. ASSUME NEW p \in Callers PROVE ~ BlockedFor(p) /\ ~ Fail(p) /\ ~ Record(p) /\ ~ Clear(p)
  BY <1>1 DEF BlockedFor, Fail, Record, Clear, OnlyLoginsVerify
<1>7. QED
  BY <1>2, <1>3, <1>4, <1>5, <1>6 DEF LimiterNext

\* On the event loop a deque per key, its pruning and the cleanup of whole keys are the
\* sliding window, step by step: the same requests are admitted and the same wait is told.
THEOREM LoopImplementsWindow == LimiterSpec => ImplementsWindow
<1>1. LimiterInit => LimiterInv /\ LoopInv
  BY InvInit, LoopInit
<1>2. LimiterInv /\ LoopInv /\ [LimiterNext]_vars => (LimiterInv /\ LoopInv)'
  BY InvStep, LoopStep
<1>3. LimiterInv /\ LoopInv /\ [LimiterNext]_vars =>
        [limiter = "loop" => [Ideal!WindowNext]_(Ideal!windowVars)]_vars
  BY ImplementsStep
<1>4. QED
  BY <1>1, <1>2, <1>3, PTL DEF LimiterSpec, ImplementsWindow

=============================================================================
