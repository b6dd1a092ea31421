------------------------------ MODULE AiOutcome ------------------------------
(***************************************************************************)
(* What a chat (module ChatService) expects of an AI call: it ends, once,  *)
(* with an answer, an error, an exception nobody catches or a time-out;    *)
(* once its budget has expired it ends with a time-out, never with an      *)
(* answer that came late; a request whose client has left is cancelled and *)
(* is not taken for a time-out, which would be stored and answered.        *)
(***************************************************************************)
EXTENDS Naturals

CONSTANTS
    Budget,  \* settings.ai_timeout_sec, in ticks
    Limit    \* the shortest time-out of one phase of an attempt, in ticks

VARIABLES
    elapsed,  \* ticks since the chat opened its budget
    expired,  \* the budget's timer has fired
    left,     \* the client has gone
    outcome   \* how the call ended, or "pending"

outcomeVars == <<elapsed, expired, left, outcome>>

OutcomeInit ==
    elapsed = 0 /\ expired = FALSE /\ left = FALSE /\ outcome = "pending"

Passes ==
    /\ outcome = "pending"
    /\ elapsed' = elapsed + 1
    /\ UNCHANGED <<expired, left, outcome>>

Expires ==
    /\ outcome = "pending" /\ elapsed >= Budget
    /\ expired' = TRUE
    /\ UNCHANGED <<elapsed, left, outcome>>

Leaves ==
    /\ outcome = "pending" /\ ~ left
    /\ left' = TRUE
    /\ UNCHANGED <<elapsed, expired, outcome>>

Ends ==
    /\ outcome = "pending"
    /\ \/ ~ left /\ ~ expired /\ outcome' \in {"success", "error", "raised"}
       \/ ~ left /\ elapsed >= Limit /\ outcome' = "timeout"
       \/ left /\ outcome' = "cancelled"
    /\ UNCHANGED <<elapsed, expired, left>>

OutcomeNext == Passes \/ Expires \/ Leaves \/ Ends

\* What may happen, and what must: the call ends.
OutcomeSafety == OutcomeInit /\ [][OutcomeNext]_outcomeVars
OutcomeSpec == OutcomeSafety /\ WF_outcomeVars(Ends)

=============================================================================
