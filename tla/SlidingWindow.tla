---------------------------- MODULE SlidingWindow ----------------------------
(***************************************************************************)
(* What a rate limiter promises: in any `Window` of time at most MaxEvents *)
(* requests of a key are admitted, none is refused without need, and a      *)
(* refused client is told the least number of whole seconds after which its *)
(* next request would be admitted if nobody else asked.                    *)
(***************************************************************************)
EXTENDS Naturals, FiniteSets, Sequences

CONSTANTS
    Keys,       \* what is counted by: a user, an address, an e-mail
    MaxEvents,  \* admitted per window
    Window,     \* its length, in ticks
    Second,     \* ticks per second
    MaxTime     \* bound: the last tick of a behaviour

Time == 0 .. MaxTime

VARIABLES
    clock,    \* the current tick
    granted,  \* [Keys -> the ticks of the requests that were admitted, in order]
    answer    \* what the latest request was told: 0: admitted; n > 0: wait n seconds

windowVars == <<clock, granted, answer>>

\* The admissions of key `k` that count at time `t`.
Within(g, k, t) == Cardinality({i \in DOMAIN g[k] : g[k][i] <= t /\ t < g[k][i] + Window})

LeastWait(k) ==
    CHOOSE n \in 1 .. Window + 1 :
        /\ Within(granted, k, clock + n * Second) < MaxEvents
        /\ \A m \in 1 .. n - 1 : Within(granted, k, clock + m * Second) >= MaxEvents

WindowInit ==
    /\ clock = 0
    /\ granted = [k \in Keys |-> <<>>]
    /\ answer = 0

Admit(k) ==
    /\ Within(granted, k, clock) < MaxEvents
    /\ granted' = [granted EXCEPT ![k] = Append(@, clock)]
    /\ answer' = 0
    /\ UNCHANGED clock

RefuseFor(k) ==
    /\ Within(granted, k, clock) >= MaxEvents
    /\ answer' = LeastWait(k)
    /\ UNCHANGED <<clock, granted>>

TimePasses ==
    /\ clock < MaxTime
    /\ clock' = clock + 1
    /\ UNCHANGED <<granted, answer>>

WindowNext ==
    \/ TimePasses
    \/ \E k \in Keys : Admit(k) \/ RefuseFor(k)

WindowSpec == WindowInit /\ [][WindowNext]_windowVars

=============================================================================
