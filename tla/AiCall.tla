-------------------------------- MODULE AiCall --------------------------------
(***************************************************************************)
(* One AI call of a chat: OpenAICompatClient.generate and its attempts     *)
(* (src/app/services/ai_client.py), inside the chat's own time budget      *)
(* (src/app/routers/chat.py), or the provider for demonstrations.          *)
(*                                                                         *)
(* The two budgets are asyncio.timeout blocks of the same length, one      *)
(* inside the other.  When a timer fires, or the client leaves, the task   *)
(* is asked to cancel; the exception that then unwinds the blocks becomes  *)
(* a time-out only if every cancellation asked for was a timer's.  A loop  *)
(* that is late may run the task before a timer that is due: what counts   *)
(* is that the timer has fired, not that the budget is over.               *)
(*                                                                         *)
(* Definitions marked "Fault" are no part of the model: each is what a     *)
(* plausible slip would make of the definition after it.                   *)
(***************************************************************************)
EXTENDS Naturals, FiniteSets

CONSTANTS
    MaxRetries,  \* settings.ai_max_retries
    Budget,      \* settings.ai_timeout_sec, in ticks
    Limit,       \* ticks after which a phase of an attempt may time out
    Pause,       \* ticks between two attempts: half a second
    MaxTime      \* bound: ticks of a behaviour; the loop may run late by the rest

ASSUME AiAssumption ==
    /\ {MaxRetries, Pause, MaxTime} \subseteq Nat
    /\ {Budget, Limit} \subseteq Nat \ {0}
    /\ Limit <= Budget /\ Budget <= MaxTime

\* A part of an answer's content: a string is one part that is text or blank; a part
\* of a list may also have no "text", or not be what it should.
Part == {"text", "blank", "other", "bad"}

\* choices[0].message: not there, an object, or anything else (null, a list, a text).
Message == {"absent", "object", "other"}

\* A 200's body: its message, the parts of the message's content, and whether
\* finish_reason is "length".
Body == [message : Message, parts : SUBSET Part, cut : BOOLEAN]

\* What one attempt may come to, from the client's view: "unknown" is an exception of
\* httpx that is no HTTPError (InvalidURL, of a mistyped AI_BASE_URL).
Reply == {"body", "refused", "transient", "timeout", "unknown"}

VARIABLES
    keyed,    \* settings.ai_api_key is set
    clock,    \* ticks since the chat opened its budget
    pc,       \* what the call awaits: "posting", "pausing" or "faking"
    attempt,  \* the loop variable of _attempts
    since,    \* when the current attempt or pause began
    reply,    \* the latest reply
    body,     \* the latest body, when that is the reply
    timers,   \* of {"outer", "inner"}: those that fired
    left,     \* the client has gone: uvicorn cancels the request's task
    outcome   \* how the call ended for the chat, or "pending"

vars == <<keyed, clock, pc, attempt, since, reply, body, timers, left, outcome>>

NoBody == [message |-> "absent", parts |-> {}, cut |-> FALSE]

AiInit ==
    /\ keyed \in BOOLEAN
    /\ clock = 0 /\ since = 0 /\ attempt = 0
    /\ pc = IF keyed THEN "posting" ELSE "faking"
    /\ reply = "none" /\ body = NoBody
    /\ timers = {} /\ left = FALSE
    /\ outcome = "pending"

\* Cancellations the task has been asked for and has not handled.
Cancelling == Cardinality(timers) + (IF left THEN 1 ELSE 0)

Pending == outcome = "pending"

\* The task takes a step: it was not asked to cancel.
Runs == Pending /\ Cancelling = 0

-----------------------------------------------------------------------------
(* The answer and the attempts.                                            *)

\* extract_content returns a text.
HasContent(b) == b.message = "object" /\ "bad" \notin b.parts /\ "text" \in b.parts

\* Otherwise it raises: the AttributeError of a message without a `get` is none of the
\* exceptions that _attempts and the chat catch; the ValueErrors become an AIError.
EndOfBody(b) ==
    CASE HasContent(b) -> "success"
      [] b.message = "other" -> "raised"
      [] OTHER -> "error"

\* A 429, a 5xx or a failure to reach the provider, not a time-out.
Retryable(r) == r = "transient"

\* Fault: the range ends one attempt early, or late.
LastByCount(n) == n + 1 >= MaxRetries
LastTooLate(n) == n > MaxRetries

IsLastAttempt(n) == n >= MaxRetries

Ended(o) == outcome' = o /\ UNCHANGED <<pc, attempt, since>>

\* One post of _attempts and what the loop makes of its reply.
Post(r, b) ==
    /\ Runs
    /\ pc = "posting"
    /\ r = "timeout" => clock - since >= Limit
    /\ r # "body" => b = NoBody
    /\ reply' = r /\ body' = b
    /\ \/ r = "body" /\ Ended(EndOfBody(b))
       \/ r = "timeout" /\ Ended("timeout")
       \/ r = "unknown" /\ Ended("raised")
       \/ /\ r \in {"refused", "transient"}
          /\ ~ Retryable(r) \/ IsLastAttempt(attempt)
          /\ Ended("error")
       \/ /\ Retryable(r) /\ ~ IsLastAttempt(attempt)
          /\ pc' = "pausing" /\ attempt' = attempt + 1 /\ since' = clock
          /\ UNCHANGED outcome
    /\ UNCHANGED <<keyed, clock, timers, left>>

\* The pause is over, the next attempt begins.
Resume ==
    /\ Runs
    /\ pc = "pausing" /\ clock - since >= Pause
    /\ pc' = "posting" /\ since' = clock
    /\ UNCHANGED <<keyed, clock, attempt, reply, body, timers, left, outcome>>

\* FakeAIProvider.generate.
Fake ==
    /\ Runs
    /\ pc = "faking"
    /\ Ended("success")
    /\ UNCHANGED <<keyed, clock, reply, body, timers, left>>

-----------------------------------------------------------------------------
(* Time and cancellation.                                                  *)

\* The chat's timer was set first; the client's is never due before it.
TimerFires(t) ==
    /\ Pending /\ clock >= Budget
    /\ t \notin timers
    /\ t = "inner" => "outer" \in timers /\ keyed
    /\ timers' = timers \cup {t}
    /\ UNCHANGED <<keyed, clock, pc, attempt, since, reply, body, left, outcome>>

ClientLeaves ==
    /\ Pending /\ ~ left
    /\ left' = TRUE
    /\ UNCHANGED <<keyed, clock, pc, attempt, since, reply, body, timers, outcome>>

\* Fault: a block whose timer fired makes a time-out of any cancellation.
BecomesTimeoutAnyway(t, n) == t \in timers

\* The end of an asyncio.timeout block, with `n` cancellations not yet handled.
BecomesTimeout(t, n) == t \in timers /\ n = 1

\* The exception unwinds the inner block, then the outer.
Unwind ==
    /\ Pending /\ Cancelling > 0
    /\ LET n == IF "inner" \in timers THEN Cancelling - 1 ELSE Cancelling
       IN  Ended(IF BecomesTimeout("inner", Cancelling) \/ BecomesTimeout("outer", n)
                 THEN "timeout" ELSE "cancelled")
    /\ UNCHANGED <<keyed, clock, reply, body, timers, left>>

Tick ==
    /\ Pending /\ clock < MaxTime
    /\ clock' = clock + 1
    /\ UNCHANGED <<keyed, pc, attempt, since, reply, body, timers, left, outcome>>

AiNext ==
    \/ \E r \in Reply, b \in Body : Post(r, b)
    \/ Resume \/ Fake
    \/ \E t \in {"outer", "inner"} : TimerFires(t)
    \/ ClientLeaves \/ Unwind \/ Tick

\* Time passes, due timers fire and a cancelled task runs.  Nothing is assumed of the
\* provider or of the client.
AiSpec ==
    AiInit /\ [][AiNext]_vars
    /\ WF_vars(Tick) /\ WF_vars(TimerFires("outer")) /\ WF_vars(Unwind)

-----------------------------------------------------------------------------
(* What makes it correct.                                                  *)

\* The state has its type: the attempts are counted from 0 to MaxRetries.
AiTypeOK ==
    /\ keyed \in BOOLEAN /\ left \in BOOLEAN
    /\ clock \in 0 .. MaxTime /\ since \in 0 .. clock
    /\ pc \in {"posting", "pausing", "faking"}
    /\ attempt \in 0 .. MaxRetries
    /\ reply \in Reply \cup {"none"} /\ body \in Body
    /\ timers \subseteq {"outer", "inner"}
    /\ outcome \in {"pending", "success", "error", "raised", "timeout", "cancelled"}

\* The chat is told why: an answer is a text; an error is a reply that is of no use or
\* the last of all the attempts (the budget is never reported as an error); what is not
\* caught is a message that is no object or an exception no handler names, never a
\* failure to reach the provider; and the attempts have waited their pauses, so they
\* cannot run through the budget unseen.
OutcomeExplained ==
    /\ outcome = "success" /\ keyed =>
        /\ reply = "body" /\ body.message = "object"
        /\ "text" \in body.parts /\ "bad" \notin body.parts
    /\ outcome = "error" =>
        \/ reply = "body" /\ body.message = "absent"
        \/ reply = "body" /\ body.message = "object"
           /\ ("bad" \in body.parts \/ "text" \notin body.parts)
        \/ reply = "refused" /\ attempt <= MaxRetries
        \/ reply = "transient" /\ attempt = MaxRetries
    /\ outcome = "raised" =>
        \/ reply = "body" /\ body.message = "other"
        \/ reply = "unknown"
    /\ attempt > 0 /\ pc = "posting" => clock >= attempt * Pause

\* Inductive parts of the two properties around it: each attempt and each pause began
\* after all the pauses before it, ...
Paced ==
    /\ keyed <=> pc # "faking"
    /\ pc = "faking" => attempt = 0
    /\ pc = "posting" => since >= attempt * Pause
    /\ pc = "pausing" => attempt > 0 /\ since >= (attempt - 1) * Pause

\* ... and the timers fire in their order, none early.
TimersInOrder ==
    /\ timers # {} => clock >= Budget
    /\ "inner" \in timers => "outer" \in timers

\* The call is what ChatService takes it for: AiAnswers, AiFails, AiRaises, AiTimeout
\* and Cancel there are the five ends of AiOutcome; once the budget's timer has fired
\* no answer or error is taken any more, and every call comes to one of the ends
\* although the provider may never answer.
Outcome == INSTANCE AiOutcome WITH elapsed <- clock, expired <- timers # {}

ImplementsOutcome == Outcome!OutcomeSpec

-----------------------------------------------------------------------------
(* What API.md promises and the code does not keep; refuted by a run.       *)

\* Every 200 that holds no answer is an AIError, which the chat stores and answers
\* with 502 (API.md: a reply of the wrong form is a 502 / AI_ERROR).
MalformedReplyIsAnError ==
    outcome # "pending" /\ reply = "body" /\ ~ HasContent(body) => outcome = "error"

=============================================================================
