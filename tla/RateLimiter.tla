----------------------------- MODULE RateLimiter -----------------------------
(***************************************************************************)
(* SlidingWindowLimiter (src/app/services/rate_limit.py), one instance of  *)
(* it: a table of deques of time stamps, each method one critical section  *)
(* of the limiter's lock.  A method reads the time BEFORE it takes the     *)
(* lock, so two worker threads may enter in the other order than they read *)
(* the time.  `limiter` says who the callers are:                          *)
(*                                                                         *)
(*   "loop"    chat_limiter and password_reset_ip_limiter: try_acquire,    *)
(*             called on the event loop, so one call at a time             *)
(*   "signup"  signup_ip_limiter: try_acquire, called in worker threads    *)
(*   "login"   login_limiter: blocked_for, then the password check, then   *)
(*             record or clear, in worker threads (routers/auth.py login)  *)
(*                                                                         *)
(* Definitions marked "Fault" are no part of the model: each is what a      *)
(* plausible slip would make of the definition after it.                   *)
(***************************************************************************)
EXTENDS Naturals, FiniteSets, Sequences, FiniteSetsExt

CONSTANTS
    Keys, Callers,
    MaxEvents,  \* max_events; 0 switches the limiter off and is not modelled
    Window,     \* window_seconds, in ticks
    Second,     \* ticks per second
    CleanupAt,  \* the number of keys at which _maybe_cleanup runs: 500
    MaxTime,    \* bound: the last tick of a behaviour
    MaxQueue    \* bound: stamps in one deque

ASSUME LimiterAssumption ==
    /\ {MaxEvents, Window, Second} \subseteq Nat \ {0}
    /\ {CleanupAt, MaxTime, MaxQueue} \subseteq Nat
    /\ IsFiniteSet(Callers) /\ IsFiniteSet(Keys) /\ Callers # {}

Limiters == {"loop", "signup", "login"}
Time == 0 .. MaxTime

\* "called": the time is read, the lock not yet taken, for try_acquire (loop,
\* signup) or blocked_for (login).  "failed": the same, for record.
Calling == [pc : {"called", "verifying", "failed"}, key : Keys, now : Time]

NoCall == [pc |-> "idle"]

VARIABLES
    limiter,  \* which of the instances this is
    clock,    \* the current tick
    events,   \* the table _events: a function on the keys it holds
    caller,   \* [Callers -> the call in progress]
    answer,   \* what the latest try_acquire returned
    granted,  \* history: [Keys -> the stamps of all admissions (login: failures), in the
              \* order they were stored in, since the last clear of the key]
    dropped   \* history: the keys whose unexpired stamps a cleanup dropped

vars == <<limiter, clock, events, caller, answer, granted, dropped>>

LimiterInit ==
    /\ limiter \in Limiters
    /\ clock = 0
    /\ events = [k \in {} |-> <<>>]
    /\ caller = [p \in Callers |-> NoCall]
    /\ answer = 0
    /\ granted = [k \in Keys |-> <<>>]
    /\ dropped = {}

-----------------------------------------------------------------------------
(* What a method does to the table.                                        *)

Expired(stamp, now) == stamp + Window <= now

\* The `while` of _prune: stamps leave from the left, up to the first live one.
Prune(q, now) ==
    LET live == {i \in DOMAIN q : ~ Expired(q[i], now)}
    IN  IF live = {} THEN <<>> ELSE SubSeq(q, Min(live), Len(q))

\* Fault: a key is stale when its first stamp is.
StaleByFirst(E, now) == {k \in DOMAIN E : Expired(E[k][1], now)}

StaleKeys(E, now) == {k \in DOMAIN E : Expired(E[k][Len(E[k])], now)}

\* _maybe_cleanup.
Cleaned(E, now) ==
    IF Cardinality(DOMAIN E) < CleanupAt
    THEN E
    ELSE [k \in DOMAIN E \ StaleKeys(E, now) |-> E[k]]

\* _prune: the deque of `k` and ...
QueueOf(k, now) ==
    LET E == Cleaned(events, now)
    IN  IF k \in DOMAIN E THEN Prune(E[k], now) ELSE <<>>

\* Fault: an empty deque keeps its entry.
StoredEmpty(k, q, now) ==
    LET E == Cleaned(events, now)
    IN  [j \in DOMAIN E \cup {k} |-> IF j = k THEN q ELSE E[j]]

\* ... the table, with deque `q` stored for `k`, or no entry when it is empty.
Stored(k, q, now) ==
    LET E == Cleaned(events, now)
        held == (DOMAIN E \ {k}) \cup (IF q = <<>> THEN {} ELSE {k})
    IN  [j \in held |-> IF j = k THEN q ELSE E[j]]

SecondsUp(ticks) == (ticks + Second - 1) \div Second

\* _retry_after of a deque that is not empty.
RetryAfter(q, now) == LET n == SecondsUp(q[1] + Window - now) IN IF n < 1 THEN 1 ELSE n

\* History: the live stamps a cleanup at `now` loses.
Dropped(now) ==
    {k \in DOMAIN events \ DOMAIN Cleaned(events, now) :
        \E i \in DOMAIN events[k] : ~ Expired(events[k][i], now)}

-----------------------------------------------------------------------------
(* The methods.                                                            *)

\* Fault: `>` for `>=`.
OverFull(q) == Len(q) > MaxEvents

Full(q) == Len(q) >= MaxEvents

\* A caller reads the time.  On the event loop nothing else runs until it is done.
Call(p) ==
    /\ caller[p].pc = "idle"
    /\ limiter = "loop" => \A o \in Callers : caller[o].pc = "idle"
    /\ \E k \in Keys : caller' = [caller EXCEPT ![p] = [pc |-> "called", key |-> k, now |-> clock]]
    /\ UNCHANGED <<limiter, clock, events, answer, granted, dropped>>

\* Bound: MaxQueue.
AppendStamp(k, now, q) ==
    /\ Len(q) < MaxQueue
    /\ events' = Stored(k, Append(q, now), now)
    /\ granted' = [granted EXCEPT ![k] = Append(@, now)]

TryAcquire(p) ==
    LET k == caller[p].key  now == caller[p].now  q == QueueOf(k, now) IN
    /\ limiter \in {"loop", "signup"}
    /\ caller[p].pc = "called"
    /\ IF Full(q)
       THEN /\ events' = Stored(k, q, now)
            /\ answer' = RetryAfter(q, now)
            /\ UNCHANGED granted
       ELSE /\ AppendStamp(k, now, q)
            /\ answer' = 0
    /\ dropped' = dropped \cup Dropped(now)
    /\ caller' = [caller EXCEPT ![p] = NoCall]
    /\ UNCHANGED <<limiter, clock>>

\* Login: when the key is blocked the request ends with 429.  The time it read is
\* of no use after this.
BlockedFor(p) ==
    LET k == caller[p].key  now == caller[p].now  q == QueueOf(k, now) IN
    /\ limiter = "login"
    /\ caller[p].pc = "called"
    /\ events' = Stored(k, q, now)
    /\ dropped' = dropped \cup Dropped(now)
    /\ IF Full(q)
       THEN caller' = [caller EXCEPT ![p] = NoCall]
       ELSE caller' = [caller EXCEPT ![p] = [pc |-> "verifying", key |-> k, now |-> 0]]
    /\ UNCHANGED <<limiter, clock, answer, granted>>

\* The password is wrong, and record reads the time.
Fail(p) ==
    /\ caller[p].pc = "verifying"
    /\ caller' = [caller EXCEPT ![p] = [pc |-> "failed", key |-> caller[p].key, now |-> clock]]
    /\ UNCHANGED <<limiter, clock, events, answer, granted, dropped>>

Record(p) ==
    LET k == caller[p].key  now == caller[p].now IN
    /\ caller[p].pc = "failed"
    /\ AppendStamp(k, now, QueueOf(k, now))
    /\ dropped' = dropped \cup Dropped(now)
    /\ caller' = [caller EXCEPT ![p] = NoCall]
    /\ UNCHANGED <<limiter, clock, answer>>

WithoutKey(k) == [j \in DOMAIN events \ {k} |-> events[j]]

\* The password is right, and clear takes the lock.
Clear(p) ==
    LET k == caller[p].key IN
    /\ caller[p].pc = "verifying"
    /\ events' = WithoutKey(k)
    /\ granted' = [granted EXCEPT ![k] = <<>>]
    /\ caller' = [caller EXCEPT ![p] = NoCall]
    /\ UNCHANGED <<limiter, clock, answer, dropped>>

\* On the event loop a call takes no time that anybody could tell.
Tick ==
    /\ clock < MaxTime
    /\ limiter = "loop" => \A p \in Callers : caller[p].pc = "idle"
    /\ clock' = clock + 1
    /\ UNCHANGED <<limiter, events, caller, answer, granted, dropped>>

LimiterNext ==
    \/ Tick
    \/ \E p \in Callers :
          Call(p) \/ TryAcquire(p) \/ BlockedFor(p) \/ Fail(p) \/ Record(p) \/ Clear(p)

LimiterSpec == LimiterInit /\ [][LimiterNext]_vars

-----------------------------------------------------------------------------
(* Properties.                                                             *)

LimiterTypeOK ==
    /\ limiter \in Limiters
    /\ clock \in Time
    /\ DOMAIN events \subseteq Keys
    /\ \A k \in DOMAIN events :
          events[k] \in Seq(Time) /\ Len(events[k]) \in 1 .. MaxQueue
    /\ caller \in [Callers -> Calling \cup {NoCall}]
    /\ answer \in Nat
    /\ granted \in [Keys -> Seq(Time)]
    /\ dropped \subseteq Keys

Ideal == INSTANCE SlidingWindow

\* On the event loop the deques, with their pruning and the cleanup of whole
\* keys, decide exactly as the count of admissions in the window does, and the
\* Retry-After of a refusal is the least that suffices (03-feature-spec.md: exact
\* with a single worker).
ImplementsWindow ==
    [][limiter = "loop" => [Ideal!WindowNext]_(Ideal!windowVars)]_vars

\* In worker threads the limit is exceeded by calls that overlap and by no others:
\* a window holds at most one admission (or failed login, since the last success)
\* more than the limit for each other call in progress.
ExceededByOverlapOnly ==
    \A k \in Keys \ dropped, t \in Time :
        Ideal!Within(granted, k, t) <= MaxEvents + Cardinality(Callers) - 1

=============================================================================
