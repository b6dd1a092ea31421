----------------------------- MODULE AiCallProofs -----------------------------
(***************************************************************************)
(* Proofs about AiCall, for any budget, number of retries and time-outs.   *)
(***************************************************************************)
EXTENDS AiCall, FiniteSetTheorems, TLAPS

\* A task that runs has not been asked to cancel by anybody.
LEMMA RunsUncancelled ==
    ASSUME AiTypeOK
    PROVE  /\ Runs => timers = {} /\ ~ left
           /\ timers = {} => Cancelling = IF left THEN 1 ELSE 0
           /\ timers = {"outer"} => Cancelling = IF left THEN 2 ELSE 1
           /\ timers = {"outer", "inner"} => Cancelling = IF left THEN 3 ELSE 2
<1>1. Cardinality({}) = 0 /\ Cardinality({"outer"}) = 1 /\ Cardinality({"inner"}) = 1
  BY FS_EmptySet, FS_Singleton
<1>2. Cardinality({"outer", "inner"}) = 2
  <2>1. {"outer", "inner"} = {"outer"} \cup {"inner"} /\ "inner" \notin {"outer"}
    OBVIOUS
  <2>2. Cardinality({"outer"} \cup {"inner"}) = Cardinality({"outer"}) + 1
    BY <2>1, FS_Singleton, FS_AddElement
  <2>3. QED
    BY <1>1, <2>1, <2>2
<1>3. timers \in {{}, {"outer"}, {"inner"}, {"outer", "inner"}}
  BY DEF AiTypeOK
<1>4. left \in BOOLEAN
  BY DEF AiTypeOK
<1>5. /\ timers = {} => Cancelling = IF left THEN 1 ELSE 0
      /\ timers = {"outer"} => Cancelling = IF left THEN 2 ELSE 1
      /\ timers = {"inner"} => Cancelling = IF left THEN 2 ELSE 1
      /\ timers = {"outer", "inner"} => Cancelling = IF left THEN 3 ELSE 2
  BY <1>1, <1>2, <1>4 DEF Cancelling
<1>6. ASSUME Runs PROVE timers = {} /\ ~ left
  BY <1>3, <1>4, <1>5, <1>6 DEF Runs
<1>7. QED
  BY <1>5, <1>6

\* The state of a call keeps its type; the attempts stay within MaxRetries.
THEOREM AiTypeCorrect == AiSpec => []AiTypeOK
<1> USE AiAssumption
<1>1. AiInit => AiTypeOK
  <2> SUFFICES ASSUME AiInit PROVE AiTypeOK
    OBVIOUS
  <2>1. NoBody \in Body
    BY DEF NoBody, Body, Message
  <2>2. MaxRetries \in Nat /\ MaxTime \in Nat
    OBVIOUS
  <2>3. 0 \in 0 .. MaxRetries /\ 0 \in 0 .. MaxTime /\ 0 \in 0 .. 0
    BY <2>2
  <2>4. pc \in {"posting", "pausing", "faking"}
    BY DEF AiInit
  <2>5. QED
    BY <2>1, <2>3, <2>4 DEF AiInit, AiTypeOK
<1>2. AiTypeOK /\ [AiNext]_vars => AiTypeOK'
  <2> SUFFICES ASSUME AiTypeOK, [AiNext]_vars PROVE AiTypeOK'
    OBVIOUS
  <2>1. ASSUME NEW r \in Reply, NEW b \in Body, Post(r, b) PROVE AiTypeOK'
    BY <2>1 DEF AiTypeOK, Post, Ended, EndOfBody, Reply, IsLastAttempt
  <2>2. CASE Resume
    BY <2>2 DEF AiTypeOK, Resume
  <2>3. CASE Fake
    BY <2>3 DEF AiTypeOK, Fake, Ended
  <2>4. ASSUME NEW t \in {"outer", "inner"}, TimerFires(t) PROVE AiTypeOK'
    BY <2>4 DEF AiTypeOK, TimerFires
  <2>5. CASE ClientLeaves
    BY <2>5 DEF AiTypeOK, ClientLeaves
  <2>6. CASE Unwind
    BY <2>6 DEF AiTypeOK, Unwind, Ended
  <2>7. CASE Tick
    BY <2>7 DEF AiTypeOK, Tick
  <2>8. CASE UNCHANGED vars
    BY <2>8 DEF AiTypeOK, vars
  <2>9. QED
    BY <2>1, <2>2, <2>3, <2>4, <2>5, <2>6, <2>7, <2>8 DEF AiNext
<1>3. QED
  BY <1>1, <1>2, PTL DEF AiSpec

\* The pauses before an attempt add up.
LEMMA PacedStep ==
    ASSUME AiTypeOK, Paced, [AiNext]_vars
    PROVE  Paced'
<1> USE AiAssumption
<1>0. /\ attempt \in Nat /\ Pause \in Nat /\ clock \in Nat /\ since \in Nat /\ since <= clock
      /\ attempt * Pause \in Nat /\ attempt + 1 \in Nat
      /\ (attempt + 1 - 1) * Pause = attempt * Pause
      /\ attempt > 0 => (attempt - 1) * Pause + Pause = attempt * Pause
  BY DEF AiTypeOK
<1>1. ASSUME NEW r \in Reply, NEW b \in Body, Post(r, b) PROVE Paced'
  <2>1. CASE UNCHANGED <<pc, attempt, since>>
    BY <1>1, <2>1 DEF Paced, Post
  <2>2. CASE pc' = "pausing" /\ attempt' = attempt + 1 /\ since' = clock
    <3>1. keyed' = keyed /\ pc = "posting"
      BY <1>1 DEF Post
    <3>2. QED
      BY <1>0, <2>2, <3>1 DEF Paced
  <2>3. QED
    BY <1>1, <2>1, <2>2 DEF Post, Ended
<1>2. CASE Resume
  <2>1. /\ pc = "pausing" /\ pc' = "posting" /\ since' = clock /\ clock - since >= Pause
        /\ UNCHANGED <<keyed, attempt>>
    BY <1>2 DEF Resume
  <2>2. clock >= attempt * Pause
    BY <1>0, <2>1 DEF Paced
  <2>3. QED
    BY <2>1, <2>2 DEF Paced
<1>3. CASE Fake
  BY <1>3 DEF Paced, Fake, Ended
<1>4. ASSUME NEW t \in {"outer", "inner"}, TimerFires(t) PROVE Paced'
  BY <1>4 DEF Paced, TimerFires
<1>5. CASE ClientLeaves
  BY <1>5 DEF Paced, ClientLeaves
<1>6. CASE Unwind
  BY <1>6 DEF Paced, Unwind, Ended
<1>7. CASE Tick
  BY <1>7 DEF Paced, Tick
<1>8. CASE UNCHANGED vars
  BY <1>8 DEF Paced, vars
<1>9. QED
  BY <1>1, <1>2, <1>3, <1>4, <1>5, <1>6, <1>7, <1>8 DEF AiNext

\* The end of a call is explained by its last reply.
LEMMA OutcomeExplainedStep ==
    ASSUME AiTypeOK, Paced, OutcomeExplained, AiTypeOK', Paced', [AiNext]_vars
    PROVE  OutcomeExplained'
<1> USE AiAssumption
<1>0. ASSUME pc' = "posting" PROVE clock' >= attempt' * Pause
  <2>1. /\ since' \in Nat /\ clock' \in Nat /\ since' <= clock'
        /\ attempt' \in Nat /\ Pause \in Nat
    BY DEF AiTypeOK
  <2>2. \A a \in Nat : a * Pause \in Nat
    OBVIOUS
  <2>3. PICK n : n = attempt' * Pause
    OBVIOUS
  <2>4. n \in Nat
    BY <2>1, <2>2, <2>3
  <2>5. since' >= n
    BY <1>0, <2>3 DEF Paced
  <2>6. clock' >= n
    BY <2>1, <2>4, <2>5
  <2>7. QED
    BY <2>3, <2>6, Zenon
<1>1. ASSUME NEW r \in Reply, NEW b \in Body, Post(r, b) PROVE OutcomeExplained'
  <2>1. keyed' = keyed /\ reply' = r /\ body' = b /\ attempt \in Nat /\ attempt <= MaxRetries
    BY <1>1 DEF Post, AiTypeOK
  <2>2. CASE r = "body" /\ Ended(EndOfBody(b))
    <3>1. b.message \in {"absent", "object", "other"}
      BY DEF Body, Message
    <3>2. /\ outcome' \in {"success", "error", "raised"}
          /\ outcome' = "success" => HasContent(b)
          /\ outcome' = "error" => ~ HasContent(b) /\ b.message # "other"
          /\ outcome' = "raised" => b.message = "other"
      BY <2>2 DEF EndOfBody, Ended
    <3>3. QED
      BY <1>0, <2>1, <2>2, <3>1, <3>2 DEF OutcomeExplained, HasContent
  <2>3. CASE r = "timeout" /\ Ended("timeout")
    BY <1>0, <1>1, <2>1, <2>3 DEF OutcomeExplained, Ended
  <2>7. CASE r = "unknown" /\ Ended("raised")
    BY <1>0, <1>1, <2>1, <2>7 DEF OutcomeExplained, Ended
  <2>4. CASE /\ r \in {"refused", "transient"}
             /\ ~ Retryable(r) \/ IsLastAttempt(attempt)
             /\ Ended("error")
    BY <1>0, <1>1, <2>1, <2>4 DEF OutcomeExplained, Ended, Retryable, IsLastAttempt
  <2>5. CASE pc' = "pausing" /\ UNCHANGED outcome
    BY <1>1, <2>5 DEF OutcomeExplained, Post, Runs, Pending
  <2>6. QED
    BY <1>1, <2>2, <2>3, <2>4, <2>5, <2>7 DEF Post
<1>2. CASE Resume
  BY <1>0, <1>2 DEF OutcomeExplained, Resume, Runs, Pending
<1>3. CASE Fake
  BY <1>0, <1>3 DEF OutcomeExplained, Fake, Ended, Paced
<1>4. ASSUME NEW t \in {"outer", "inner"}, TimerFires(t) PROVE OutcomeExplained'
  BY <1>0, <1>4 DEF OutcomeExplained, TimerFires
<1>5. CASE ClientLeaves
  BY <1>0, <1>5 DEF OutcomeExplained, ClientLeaves
<1>6. CASE Unwind
  BY <1>0, <1>6 DEF OutcomeExplained, Unwind, Ended
<1>7. CASE Tick
  BY <1>0, <1>7 DEF OutcomeExplained, Tick, Pending
<1>8. CASE UNCHANGED vars
  BY <1>0, <1>8 DEF OutcomeExplained, vars
<1>9. QED
  BY <1>1, <1>2, <1>3, <1>4, <1>5, <1>6, <1>7, <1>8 DEF AiNext

\* The chat is told why a call ended: an answer has a text, an error is a reply of no
\* use or the last of all the attempts, an exception that is not caught is that of a
\* message that is no object or one no handler names, and the attempts have waited
\* their pauses.
THEOREM CallsAreExplained == AiSpec => []OutcomeExplained
<1>1. AiInit => Paced /\ OutcomeExplained
  <2> SUFFICES ASSUME AiInit PROVE Paced /\ OutcomeExplained
    OBVIOUS
  <2>1. attempt * Pause = 0
    BY AiAssumption DEF AiInit
  <2>2. Paced
    BY <2>1 DEF AiInit, Paced
  <2>3. OutcomeExplained
    BY DEF AiInit, OutcomeExplained
  <2>4. QED
    BY <2>2, <2>3
<1>2. AiTypeOK /\ Paced /\ [AiNext]_vars => Paced'
  BY PacedStep
<1>3. AiTypeOK /\ Paced /\ OutcomeExplained /\ AiTypeOK' /\ Paced' /\ [AiNext]_vars
         => OutcomeExplained'
  BY OutcomeExplainedStep
<1>4. QED
  BY <1>1, <1>2, <1>3, AiTypeCorrect, PTL DEF AiSpec

-----------------------------------------------------------------------------
(* The call does what the chat expects of it, as far as safety goes.        *)

\* Every step keeps the timers in their order.
LEMMA TimersInOrderStep ==
    ASSUME AiTypeOK, TimersInOrder, [AiNext]_vars
    PROVE  TimersInOrder'
<1>0. clock \in Nat /\ Budget \in Nat
  BY AiAssumption DEF AiTypeOK
<1>1. ASSUME NEW r \in Reply, NEW b \in Body, Post(r, b) PROVE TimersInOrder'
  BY <1>1 DEF TimersInOrder, Post
<1>2. CASE Resume \/ Fake \/ ClientLeaves \/ Unwind
  BY <1>2 DEF TimersInOrder, Resume, Fake, ClientLeaves, Unwind
<1>3. ASSUME NEW t \in {"outer", "inner"}, TimerFires(t) PROVE TimersInOrder'
  BY <1>3 DEF TimersInOrder, TimerFires
<1>4. CASE Tick
  BY <1>0, <1>4 DEF TimersInOrder, Tick
<1>5. CASE UNCHANGED vars
  BY <1>5 DEF TimersInOrder, vars
<1>6. QED
  BY <1>1, <1>2, <1>3, <1>4, <1>5 DEF AiNext

\* A cancellation becomes a time-out exactly when the client has not left.
LEMMA UnwindTells ==
    ASSUME AiTypeOK, TimersInOrder, Unwind
    PROVE  IF left THEN outcome' = "cancelled"
           ELSE outcome' = "timeout" /\ clock >= Budget
<1>1. Cancelling > 0 /\ timers \in {{}, {"outer"}, {"inner"}, {"outer", "inner"}} /\ left \in BOOLEAN
  BY DEF Unwind, AiTypeOK
<1>2. timers # {"inner"}
  BY DEF TimersInOrder
<1>3. CASE timers = {}
  <2>1. left /\ Cancelling = 1
    BY <1>1, <1>3, RunsUncancelled
  <2>2. outcome' = "cancelled"
    BY <1>3 DEF Unwind, BecomesTimeout, Ended
  <2>3. QED
    BY <2>1, <2>2
<1>4. CASE timers = {"outer"}
  <2>1. Cancelling = IF left THEN 2 ELSE 1
    BY <1>4, RunsUncancelled
  <2>2. outcome' = IF Cancelling = 1 THEN "timeout" ELSE "cancelled"
    BY <1>4 DEF Unwind, BecomesTimeout, Ended
  <2>3. QED
    BY <1>1, <1>4, <2>1, <2>2 DEF TimersInOrder
<1>5. CASE timers = {"outer", "inner"}
  <2>1. Cancelling = IF left THEN 3 ELSE 2
    BY <1>5, RunsUncancelled
  <2>2. outcome' = IF Cancelling = 1 \/ Cancelling - 1 = 1 THEN "timeout" ELSE "cancelled"
    BY <1>5 DEF Unwind, BecomesTimeout, Ended
  <2>3. QED
    BY <1>1, <1>5, <2>1, <2>2 DEF TimersInOrder
<1>6. QED
  BY <1>1, <1>2, <1>3, <1>4, <1>5

\* Every step is one the chat expects.
LEMMA OutcomeStep ==
    ASSUME AiTypeOK, TimersInOrder, [AiNext]_vars
    PROVE  Outcome!OutcomeNext \/ UNCHANGED Outcome!outcomeVars
<1> USE DEF Outcome!OutcomeNext, Outcome!Ends, Outcome!outcomeVars, Pending
<1>0. /\ clock \in Nat /\ Budget \in Nat /\ Limit \in Nat /\ Limit <= Budget /\ since \in Nat
      /\ Runs => timers = {} /\ ~ left
  BY AiAssumption, RunsUncancelled DEF AiTypeOK
<1>1. ASSUME NEW r \in Reply, NEW b \in Body, Post(r, b)
      PROVE  Outcome!OutcomeNext \/ UNCHANGED Outcome!outcomeVars
  <2>1. outcome = "pending" /\ timers = {} /\ ~ left /\ UNCHANGED <<clock, timers, left>>
    BY <1>0, <1>1 DEF Post, Runs
  <2>2. \/ outcome' \in {"success", "error", "raised"}
        \/ outcome' = "timeout" /\ clock - since >= Limit
        \/ UNCHANGED outcome
    BY <1>1 DEF Post, Ended, EndOfBody
  <2>3. QED
    BY <1>0, <2>1, <2>2
<1>2. CASE Resume
  BY <1>2 DEF Resume
<1>3. CASE Fake
  BY <1>0, <1>3 DEF Fake, Ended, Runs
<1>4. ASSUME NEW t \in {"outer", "inner"}, TimerFires(t) PROVE Outcome!OutcomeNext
  <2>1. timers' # {}
    BY <1>4 DEF TimerFires
  <2>2. QED
    BY <1>4, <2>1 DEF TimerFires, Outcome!Expires
<1>5. CASE ClientLeaves
  BY <1>5 DEF ClientLeaves, Outcome!Leaves
<1>6. CASE Unwind
  <2>1. outcome = "pending" /\ UNCHANGED <<clock, timers, left>>
    BY <1>6 DEF Unwind
  <2>2. QED
    BY <1>0, <1>6, <2>1, UnwindTells DEF AiTypeOK
<1>7. CASE Tick
  BY <1>7 DEF Tick, Outcome!Passes
<1>8. CASE UNCHANGED vars
  BY <1>8 DEF vars
<1>9. QED
  BY <1>1, <1>2, <1>3, <1>4, <1>5, <1>6, <1>7, <1>8 DEF AiNext

\* A call ends once: with an answer, an error or an uncaught exception only while the
\* budget's timer has not fired, which it does not do early; with a time-out no earlier
\* than a phase of an attempt may time out; and cancelled exactly when the client has
\* left.
THEOREM OutcomeIsAsExpected == AiSpec => Outcome!OutcomeSafety
<1>1. AiInit => Outcome!OutcomeInit /\ TimersInOrder
  BY DEF AiInit, Outcome!OutcomeInit, TimersInOrder
<1>2. AiTypeOK /\ TimersInOrder /\ [AiNext]_vars => TimersInOrder'
  BY TimersInOrderStep
<1>3. AiTypeOK /\ TimersInOrder /\ [AiNext]_vars
         => [Outcome!OutcomeNext]_(Outcome!outcomeVars)
  BY OutcomeStep
<1>4. QED
  BY <1>1, <1>2, <1>3, AiTypeCorrect, PTL DEF AiSpec, Outcome!OutcomeSafety

=============================================================================
