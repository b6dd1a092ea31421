---------------------------- MODULE ChatPageProofs ----------------------------
(***************************************************************************)
(* Proofs about ChatPage, for any texts and any value of the bounds.       *)
(***************************************************************************)
EXTENDS ChatPage, SetLemmas, TLAPS

LEMMA BoundsAreNat ==
    /\ Known \in Nat /\ MaxThreads \in Nat /\ MaxAsks \in Nat /\ MaxTasks \in Nat
    /\ Known <= MaxThreads /\ MaxTasks > 0
    /\ None \notin Texts /\ None \notin Nat /\ None \notin Threads /\ None \notin Asks
BY PageAssumption DEF Threads, Asks

-----------------------------------------------------------------------------
(* What the actions do, field by field.                                    *)

\* The types that PageTypeOK states.
PageTypes ==
    /\ threads \subseteq 1 .. made /\ made \in 0 .. MaxThreads
    /\ asks \in [Asks -> Ask]
    /\ current \in Threads \cup {None} /\ cache \subseteq Threads
    /\ window \subseteq Bubble
    /\ disabled \in BOOLEAN
    /\ mishaps \subseteq {"reenabled", "rechosen", "blind"}
    /\ inflight \in [thread : Threads \cup {None}, text : Texts, ask : Asks] \cup {None}
    /\ tasks \in [Tasks -> Task] /\ started \in Tasks /\ losses \in 0 .. MaxTasks

PageSound == PageTypes /\ AsksFiled /\ TasksSound

\* A kind and a stage of it.
Fits(k, s) ==
    \/ k = "none" /\ s = "ended"
    \/ k = "init" /\ s \in {"list", "history", "finding", "waiting", "polling", "refreshing"}
    \/ k = "send" /\ s \in {"asking", "refreshing"}
    \/ k = "history" /\ s = "history"
    \/ k = "list" /\ s = "list"
    \/ k = "create" /\ s = "creating"
    \/ k = "delete" /\ s \in {"deleting", "list"}

LEMMA StagesAre ==
    ASSUME NEW k \in {"none", "init", "send", "history", "list", "create", "delete"}, NEW s
    PROVE  s \in StagesOf[k] <=> Fits(k, s)
<1>1. /\ StagesOf["none"] = {"ended"}
      /\ StagesOf["init"] = {"list", "history", "finding", "waiting", "polling", "refreshing"}
      /\ StagesOf["send"] = {"asking", "refreshing"}
      /\ StagesOf["history"] = {"history"}
      /\ StagesOf["list"] = {"list"}
      /\ StagesOf["create"] = {"creating"}
      /\ StagesOf["delete"] = {"deleting", "list"}
  BY Zenon DEF StagesOf
<1>2. QED
  BY <1>1 DEF Fits

\* What is known of a task, with its parts named for the proofs.
LEMMA TaskIs ==
    ASSUME PageSound, NEW i \in Tasks
    PROVE  /\ tasks[i] \in Task
           /\ Fits(tasks[i].kind, tasks[i].stage)
           /\ i > started => tasks[i].stage = "ended"
BY StagesAre DEF PageSound, PageTypes, TasksSound, Task

\* All tasks but one are as they were.
Only(i) ==
    /\ tasks' \in [Tasks -> Task]
    /\ \A j \in Tasks : j # i => tasks'[j] = tasks[j]

\* Task `i` goes on, ...
Went(t, q, stage, scope) ==
    /\ q \in Task
    /\ q.kind = t.kind /\ q.stage = stage /\ q.ask = t.ask /\ q.scope = scope
    /\ q.reply = "none" /\ q.seen = {} /\ (q.moved <=> t.moved)

GoesTo(i, stage, scope) == Only(i) /\ Went(tasks[i], tasks'[i], stage, scope)

\* ... or stops, ...
Blank(t) ==
    /\ t.kind = "none" /\ t.stage = "ended" /\ t.ask = None /\ t.scope = None
    /\ t.reply = "none" /\ t.seen = {} /\ ~ t.moved

Stops(i) == Only(i) /\ Blank(tasks'[i])

\* ... or starts.
Fresh(t, kind, stage, scope) ==
    /\ t.kind = kind /\ t.stage = stage /\ t.ask = None /\ t.scope = scope
    /\ t.reply = "none" /\ t.seen = {} /\ ~ t.moved

LEMMA GoesIs ==
    ASSUME PageTypes, NEW i \in Tasks, NEW stage \in Stage, NEW scope \in Threads \cup {None},
           Goes(i, stage, scope)
    PROVE  GoesTo(i, stage, scope)
<1>1. tasks[i] \in Task /\ tasks \in [Tasks -> Task]
  BY DEF PageTypes
<1> DEFINE r == [tasks[i] EXCEPT !.stage = stage, !.scope = scope, !.reply = "none", !.seen = {}]
<1>2. tasks' = [tasks EXCEPT ![i] = r]
  BY <1>1 DEF Goes
<1>3. ASSUME NEW t \in Task, NEW q,
             q = [t EXCEPT !.stage = stage, !.scope = scope, !.reply = "none", !.seen = {}]
      PROVE  Went(t, q, stage, scope)
  <2>1. q = [kind |-> t.kind, stage |-> stage, ask |-> t.ask, scope |-> scope,
             reply |-> "none", seen |-> {}, moved |-> t.moved]
    BY <1>3 DEF Task
  <2>2. QED
    BY <2>1 DEF Task, Went
<1>4. Went(tasks[i], r, stage, scope)
  BY <1>1, <1>3, Zenon
<1> HIDE DEF r
<1>5. r \in Task
  BY <1>4 DEF Went
<1>6. QED
  BY <1>1, <1>2, <1>4, <1>5 DEF GoesTo, Only

LEMMA EndedIs == Ended \in Task /\ Blank(Ended)
BY DEF Ended, Task, Stage, Blank

LEMMA EndsIs ==
    ASSUME PageTypes, NEW i \in Tasks, Ends(i)
    PROVE  Stops(i)
BY EndedIs DEF PageTypes, Ends, Stops, Only

Kind == {"none", "init", "send", "history", "list", "create", "delete"}

LEMMA NewTaskIs ==
    ASSUME NEW kind \in Kind, NEW stage \in Stage, NEW scope \in Threads \cup {None}
    PROVE  /\ NewTask(kind, stage, scope) \in Task
           /\ Fresh(NewTask(kind, stage, scope), kind, stage, scope)
<1>1. ASSUME NEW t \in Task, Blank(t), NEW q,
             q = [t EXCEPT !.kind = kind, !.stage = stage, !.scope = scope]
      PROVE  q \in Task /\ Fresh(q, kind, stage, scope)
  <2>1. q = [kind |-> kind, stage |-> stage, ask |-> t.ask, scope |-> scope,
             reply |-> t.reply, seen |-> t.seen, moved |-> t.moved]
    BY <1>1 DEF Task
  <2>2. QED
    BY <1>1, <2>1 DEF Task, Blank, Fresh, Kind
<1>2. QED
  BY <1>1, EndedIs, Zenon DEF NewTask

What == {"question", "answer", "error", "loading"}

\* A bubble of task `i` about question `n`.
Says(b, what, n, scope, i, moved) ==
    /\ b \in Bubble
    /\ b.what = what /\ b.ask = n /\ b.scope = scope /\ b.task = i /\ (b.moved <=> moved)
    /\ what = "answer" => b.upto = started

LEMMA NewBubbleIs ==
    ASSUME NEW i \in Tasks, NEW what \in What, NEW from \in Stage,
           NEW n \in Asks \cup {None}, NEW scope \in Threads \cup {None}, what # "answer"
    PROVE  Says(NewBubble(i, what, from, n, scope), what, n, scope, i, FALSE)
BY BoundsAreNat DEF NewBubble, Says, Bubble, What

LEMMA PutIs ==
    ASSUME PageTypes, NEW i \in Tasks, NEW what \in What, NEW n \in Asks \cup {None}
    PROVE  Says(Put(i, what, n), what, n, tasks[i].scope, i, tasks[i].moved)
<1> DEFINE t == tasks[i]
           u == IF what = "answer" THEN started ELSE 0
<1>1. t \in Task /\ u \in 0 .. MaxTasks /\ 0 \in 0 .. MaxTasks /\ (what = "answer" => u = started)
  BY BoundsAreNat DEF PageTypes, Tasks
<1> HIDE DEF t, u
<1>2. ASSUME NEW b, NEW q, NEW m \in BOOLEAN,
             b = [what |-> what, from |-> t.stage, ask |-> n, scope |-> t.scope, task |-> i,
                  upto |-> 0, moved |-> FALSE],
             q = [b EXCEPT !.upto = u, !.moved = m]
      PROVE  /\ q \in Bubble /\ q.what = what /\ q.ask = n /\ q.scope = t.scope /\ q.task = i
             /\ (q.moved <=> m) /\ q.upto = u
  <2>1. q = [what |-> what, from |-> t.stage, ask |-> n, scope |-> t.scope, task |-> i,
             upto |-> u, moved |-> m]
    BY <1>2
  <2>2. QED
    BY <1>1, <2>1 DEF Task, Bubble, What
<1>3. ASSUME NEW b, NEW q, NEW m \in BOOLEAN,
             b = [what |-> what, from |-> t.stage, ask |-> n, scope |-> t.scope, task |-> i,
                  upto |-> 0, moved |-> FALSE],
             q = [b EXCEPT !.upto = u, !.moved = m]
      PROVE  Says(q, what, n, t.scope, i, m)
  BY <1>1, <1>2, <1>3 DEF Says
<1>4. t.moved \in BOOLEAN
  BY <1>1 DEF Task
<1>5. Says(Put(i, what, n), what, n, t.scope, i, t.moved)
  BY <1>3, <1>4, Zenon DEF Put, NewBubble, t, u
<1>6. QED
  BY <1>5 DEF t

\* A bubble with another scope, or that says loading.
LEMMA ScopedIs ==
    ASSUME NEW b, NEW what \in What \ {"answer"}, NEW n, NEW scope, NEW i, NEW moved,
           Says(b, what, n, scope, i, moved), NEW s \in Threads \cup {None},
           NEW q, q = [b EXCEPT !.scope = s]
    PROVE  Says(q, what, n, s, i, moved)
<1>1. b \in Bubble
  BY DEF Says
<1>2. q = [what |-> b.what, from |-> b.from, ask |-> b.ask, scope |-> s, task |-> b.task,
           upto |-> b.upto, moved |-> b.moved]
  BY <1>1 DEF Bubble
<1>3. QED
  BY <1>1, <1>2 DEF Says, Bubble

LEMMA LoadingIs ==
    ASSUME NEW b, NEW what \in What, NEW n, NEW scope, NEW i, NEW moved,
           Says(b, what, n, scope, i, moved), NEW q, q = [b EXCEPT !.what = "loading"]
    PROVE  Says(q, "loading", n, scope, i, moved)
<1>1. b \in Bubble
  BY DEF Says
<1>2. q = [what |-> "loading", from |-> b.from, ask |-> b.ask, scope |-> b.scope, task |-> b.task,
           upto |-> b.upto, moved |-> b.moved]
  BY <1>1 DEF Bubble
<1>3. QED
  BY <1>1, <1>2 DEF Says, Bubble

-----------------------------------------------------------------------------
(* The server's steps.                                                     *)

\* A question with what became of it.
Filed(q, a, s, h) ==
    q \in Ask /\ q.text = a.text /\ q.thread = a.thread /\ q.state = s /\ q.home = h

\* Threads are made with new ids only.
MoreThreads ==
    /\ made' \in 0 .. MaxThreads /\ made <= made' /\ threads' \subseteq 1 .. made'
    /\ \A t \in 1 .. made : t \in threads' => t \in threads

\* Question `n` is answered, refused or fails.
Answered(n) ==
    /\ asks' \in [Asks -> Ask] /\ \A m \in Asks : m # n => asks'[m] = asks[m]
    /\ asks[n].state = "sent" /\ asks'[n].text = asks[n].text /\ asks'[n].thread = asks[n].thread
    /\ \/ asks'[n].state = "refused" /\ asks'[n].home = asks[n].home
       \/ /\ asks'[n].state \in {"saved", "failed"}
          /\ asks'[n].home \in Threads /\ asks'[n].home <= made'
          /\ asks[n].thread \in {None, asks'[n].home}
    /\ MoreThreads
    /\ UNCHANGED <<current, cache, window, disabled, inflight, tasks, started, losses, mishaps>>

LEMMA AnswerIs ==
    ASSUME PageTypes, NEW n \in Asks, Answer(n)
    PROVE  Answered(n)
<1> DEFINE default == IF threads = {} THEN made + 1 ELSE Min(threads)
           target == IF asks[n].thread = None THEN default ELSE asks[n].thread
<1>1. threads \subseteq 1 .. made /\ made \in 0 .. MaxThreads /\ asks \in [Asks -> Ask]
      /\ asks[n] \in Ask
  BY DEF PageTypes
<1>2. ASSUME NEW s \in {"saved", "failed", "refused"}, NEW h \in Threads \cup {None},
             NEW a \in Ask, NEW q, q = [a EXCEPT !.state = s, !.home = h]
      PROVE  Filed(q, a, s, h)
  <2>1. q = [text |-> a.text, thread |-> a.thread, home |-> h, state |-> s]
    BY <1>2 DEF Ask
  <2>2. QED
    BY <2>1 DEF Ask, Filed
<1>3. ASSUME NEW a \in Ask, NEW q, q = [a EXCEPT !.state = "refused"]
      PROVE  Filed(q, a, "refused", a.home)
  <2>1. q = [text |-> a.text, thread |-> a.thread, home |-> a.home, state |-> "refused"]
    BY <1>3 DEF Ask
  <2>2. QED
    BY <2>1 DEF Ask, Filed
<1>4. /\ asks[n].state = "sent"
      /\ UNCHANGED <<current, cache, window, disabled, inflight, tasks, started, losses, mishaps>>
  BY DEF Answer, page
<1>5. CASE asks' = [asks EXCEPT ![n].state = "refused"] /\ UNCHANGED <<threads, made>>
  <2> DEFINE q == [asks[n] EXCEPT !.state = "refused"]
  <2>1. asks' = [asks EXCEPT ![n] = q]
    BY <1>5
  <2>2. Filed(q, asks[n], "refused", asks[n].home)
    BY <1>1, <1>3, Zenon
  <2> HIDE DEF q
  <2>3. MoreThreads
    BY <1>1, <1>5, BoundsAreNat DEF MoreThreads
  <2>4. QED
    BY <1>1, <1>4, <2>1, <2>2, <2>3 DEF Answered, Filed
<1>6. CASE /\ target \in threads \/ (asks[n].thread = None /\ made < MaxThreads)
           /\ threads' = threads \cup {target}
           /\ made' = IF target \in threads THEN made ELSE made + 1
           /\ \E s \in {"saved", "failed"} :
                 asks' = [asks EXCEPT ![n].state = s, ![n].home = target]
  <2>1. PICK s \in {"saved", "failed"} : asks' = [asks EXCEPT ![n].state = s, ![n].home = target]
    BY <1>6
  <2>2. asks[n].thread \in Threads \cup {None} /\ None \notin Threads
    BY <1>1, BoundsAreNat DEF Ask
  <2>3. target \in threads \/ target = made + 1
    <3>1. threads # {} => Min(threads) \in threads
      BY <1>1, MinOf
    <3>2. QED
      BY <1>6, <2>2, <3>1
  <2>4. asks[n].thread \in {None, target}
    OBVIOUS
  <2>5. asks' = [asks EXCEPT ![n] = [asks[n] EXCEPT !.state = s, !.home = target]]
    BY <1>1, <2>1
  <2> HIDE DEF target
  <2>6. MoreThreads /\ target \in Threads /\ target <= made'
    BY <1>1, <1>6, <2>3, BoundsAreNat DEF MoreThreads, Threads
  <2> DEFINE q == [asks[n] EXCEPT !.state = s, !.home = target]
  <2>7. Filed(q, asks[n], s, target)
    <3>1. s \in {"saved", "failed", "refused"} /\ target \in Threads \cup {None} /\ asks[n] \in Ask
      BY <1>1, <2>6
    <3>2. QED
      BY <1>2, <3>1, Zenon
  <2>8. asks' = [asks EXCEPT ![n] = q]
    BY <2>5
  <2> HIDE DEF q
  <2>9. QED
    BY <1>1, <1>4, <2>4, <2>6, <2>7, <2>8 DEF Answered, Filed
<1>7. QED
  BY <1>5, <1>6, Zenon DEF Answer

\* Task `i` is served; what it asked for is in the response.
Served(i) ==
    /\ Only(i)
    /\ tasks[i].reply = "none" /\ tasks'[i].reply = "served"
    /\ tasks'[i].kind = tasks[i].kind /\ tasks'[i].stage = tasks[i].stage
    /\ tasks'[i].ask = tasks[i].ask /\ tasks'[i].scope = tasks[i].scope
    /\ tasks'[i].moved <=> tasks[i].moved
    /\ tasks[i].stage \in {"list", "refreshing", "history", "finding", "polling", "creating", "deleting"}
    /\ tasks[i].stage \in {"list", "refreshing"} => tasks'[i].seen \subseteq Threads
    /\ tasks[i].stage = "creating" => tasks'[i].seen \subseteq Threads /\ tasks'[i].seen # {}
    /\ tasks[i].stage = "history" =>
          tasks'[i].seen = {n \in RecordsOf(tasks[i].scope) : asks[n].state = "saved"}
    /\ tasks[i].stage \in {"finding", "polling"} => tasks'[i].seen = RecordsOf(tasks[i].scope)
    /\ MoreThreads
    /\ UNCHANGED <<asks, current, cache, window, disabled, inflight, started, losses, mishaps>>

LEMMA ArrivesIs ==
    ASSUME PageTypes, NEW i \in Tasks, NEW seen \in SUBSET (0 .. MaxThreads + MaxAsks),
           Arrives(i, seen)
    PROVE  /\ Only(i) /\ tasks'[i].reply = "served" /\ tasks'[i].seen = seen
           /\ tasks'[i].kind = tasks[i].kind /\ tasks'[i].stage = tasks[i].stage
           /\ tasks'[i].ask = tasks[i].ask /\ tasks'[i].scope = tasks[i].scope
           /\ tasks'[i].moved <=> tasks[i].moved
<1>1. tasks[i] \in Task /\ tasks \in [Tasks -> Task]
  BY DEF PageTypes
<1> DEFINE r == [tasks[i] EXCEPT !.reply = "served", !.seen = seen]
<1>2. tasks' = [tasks EXCEPT ![i] = r]
  BY <1>1 DEF Arrives
<1>3. ASSUME NEW t \in Task, NEW q, q = [t EXCEPT !.reply = "served", !.seen = seen]
      PROVE  q = [kind |-> t.kind, stage |-> t.stage, ask |-> t.ask, scope |-> t.scope,
                  reply |-> "served", seen |-> seen, moved |-> t.moved]
  BY <1>3 DEF Task
<1>4. r = [kind |-> tasks[i].kind, stage |-> tasks[i].stage, ask |-> tasks[i].ask,
           scope |-> tasks[i].scope, reply |-> "served", seen |-> seen, moved |-> tasks[i].moved]
  BY <1>1, <1>3, Zenon
<1> HIDE DEF r
<1>5. r \in Task
  BY <1>1, <1>4 DEF Task
<1>6. QED
  BY <1>1, <1>2, <1>4, <1>5 DEF Only

LEMMA ServeIs ==
    ASSUME PageTypes, NEW i \in Tasks, Serve(i)
    PROVE  Served(i)
<1>1. /\ threads \subseteq 1 .. made /\ made \in 0 .. MaxThreads /\ 1 .. MaxThreads = Threads
      /\ Asks = 1 .. MaxAsks /\ tasks[i] \in Task
  BY DEF PageTypes, Threads, Asks
<1>2. /\ tasks[i].reply = "none"
      /\ UNCHANGED <<current, cache, window, disabled, inflight, started, losses, mishaps>>
  BY DEF Serve, page
<1>3. CASE /\ tasks[i].stage \in {"list", "refreshing"}
           /\ Arrives(i, threads) /\ UNCHANGED server
  <2>1. threads \in SUBSET (0 .. MaxThreads + MaxAsks) /\ threads \subseteq Threads
    BY <1>1, BoundsAreNat
  <2>2. MoreThreads /\ asks' = asks
    BY <1>1, <1>3, BoundsAreNat DEF server, MoreThreads
  <2>3. QED
    BY <1>2, <1>3, <2>1, <2>2, ArrivesIs DEF Served
<1>4. CASE /\ tasks[i].stage = "history"
           /\ Arrives(i, {n \in RecordsOf(tasks[i].scope) : asks[n].state = "saved"})
           /\ UNCHANGED server
  <2>1. {n \in RecordsOf(tasks[i].scope) : asks[n].state = "saved"} \in SUBSET (0 .. MaxThreads + MaxAsks)
    BY <1>1, BoundsAreNat DEF RecordsOf
  <2>2. MoreThreads /\ asks' = asks
    BY <1>1, <1>4, BoundsAreNat DEF server, MoreThreads
  <2>3. QED
    BY <1>2, <1>4, <2>1, <2>2, ArrivesIs DEF Served
<1>5. CASE /\ tasks[i].stage \in {"finding", "polling"}
           /\ Arrives(i, RecordsOf(tasks[i].scope)) /\ UNCHANGED server
  <2>1. RecordsOf(tasks[i].scope) \in SUBSET (0 .. MaxThreads + MaxAsks)
    BY <1>1, BoundsAreNat DEF RecordsOf
  <2>2. MoreThreads /\ asks' = asks
    BY <1>1, <1>5, BoundsAreNat DEF server, MoreThreads
  <2>3. QED
    BY <1>2, <1>5, <2>1, <2>2, ArrivesIs DEF Served
<1>6. CASE /\ tasks[i].stage = "creating" /\ made < MaxThreads
           /\ threads' = threads \cup {made + 1} /\ made' = made + 1
           /\ Arrives(i, {made + 1}) /\ UNCHANGED asks
  <2>1. {made + 1} \in SUBSET (0 .. MaxThreads + MaxAsks) /\ {made + 1} \subseteq Threads
    BY <1>1, <1>6, BoundsAreNat
  <2>2. MoreThreads
    BY <1>1, <1>6, BoundsAreNat DEF MoreThreads
  <2>3. QED
    BY <1>2, <1>6, <2>1, <2>2, ArrivesIs DEF Served
<1>7. CASE /\ tasks[i].stage = "deleting" /\ tasks[i].scope \in threads
           /\ threads' = threads \ {tasks[i].scope}
           /\ Arrives(i, {}) /\ UNCHANGED <<made, asks>>
  <2>0. made' = made /\ threads' \subseteq threads
    BY <1>7
  <2>1. MoreThreads
    BY <1>1, <2>0, BoundsAreNat DEF MoreThreads
  <2>2. {} \in SUBSET (0 .. MaxThreads + MaxAsks)
    OBVIOUS
  <2>3. QED
    BY <1>2, <1>7, <2>1, <2>2, ArrivesIs DEF Served
<1>8. QED
  BY <1>3, <1>4, <1>5, <1>6, <1>7, Zenon DEF Serve

-----------------------------------------------------------------------------
(* Sending a question.                                                     *)

\* The questions asked so far are the first `k`.
LEMMA NextAsk ==
    ASSUME PageTypes, AsksFiled
    PROVE  LET n == Cardinality({m \in Asks : asks[m].state # "unused"}) + 1 IN
           /\ n \in Nat \ {0}
           /\ \A m \in Asks : Used(m) <=> m < n
<1>1. PICK k \in 0 .. MaxAsks : \A n \in Asks : Used(n) <=> n <= k
  BY DEF AsksFiled
<1>2. {m \in Asks : asks[m].state # "unused"} = 1 .. k
  BY <1>1, BoundsAreNat DEF Used, Asks
<1>3. Cardinality(1 .. k) = k
  BY <1>1, BoundsAreNat, FS_Interval
<1>4. Cardinality({m \in Asks : asks[m].state # "unused"}) + 1 = k + 1
  BY <1>2, <1>3
<1>5. k + 1 \in Nat \ {0} /\ \A m \in Asks : Used(m) <=> m < k + 1
  BY <1>1, BoundsAreNat DEF Asks
<1>6. QED
  BY <1>4, <1>5

\* The question and the task that a click on "send" makes.
AskOf(q, thread) ==
    q \in Ask /\ q.state = "sent" /\ q.thread = thread /\ q.home = None

TaskOf(q, n, thread) ==
    /\ q \in Task /\ q.kind = "send" /\ q.stage = "asking" /\ q.ask = n /\ q.scope = thread
    /\ q.reply = "none" /\ q.seen = {} /\ ~ q.moved

\* Question `n` is sent by a new task.
Submitted(n) ==
    LET i == started + 1 IN
    /\ ~ disabled /\ disabled' = TRUE
    /\ started' = i /\ i \in Tasks
    /\ asks' \in [Asks -> Ask] /\ \A m \in Asks : m # n => asks'[m] = asks[m]
    /\ \A m \in Asks : Used(m) <=> m < n
    /\ asks'[n].state = "sent" /\ asks'[n].thread = current /\ asks'[n].home = None
    /\ Only(i)
    /\ tasks'[i].kind = "send" /\ tasks'[i].stage = "asking" /\ tasks'[i].ask = n
    /\ tasks'[i].scope = current /\ tasks'[i].reply = "none" /\ tasks'[i].seen = {}
    /\ ~ tasks'[i].moved
    /\ \E b, c : /\ window' = window \cup {b, c}
                 /\ Says(b, "question", n, current, i, FALSE)
                 /\ Says(c, "loading", n, current, i, FALSE)
    /\ inflight' \in [thread : Threads \cup {None}, text : Texts, ask : Asks]
    /\ inflight'.ask = n /\ inflight'.thread = current
    /\ UNCHANGED <<threads, made, current, cache, losses, mishaps>>

\* There is room for a task.
LEMMA RoomIs ==
    ASSUME PageTypes, Room
    PROVE  started + 1 \in Tasks /\ losses + 1 \in 0 .. MaxTasks
BY BoundsAreNat DEF PageTypes, Room, Tasks

LEMMA SubmitIs ==
    ASSUME PageSound, NEW x \in Texts, Submit(x)
    PROVE  \E n \in Asks : Submitted(n)
<1> DEFINE n == Cardinality({m \in Asks : asks[m].state # "unused"}) + 1
           i == started + 1
           t == [NewTask("send", "asking", current) EXCEPT !.ask = n]
           b == NewBubble(i, "question", "asking", n, current)
           c == [b EXCEPT !.what = "loading"]
           a == [NoAsk EXCEPT !.text = x, !.thread = current, !.state = "sent"]
           r == [thread |-> current, text |-> x, ask |-> n]
<1>0. PageTypes /\ AsksFiled
  BY DEF PageSound
<1>1. /\ ~ disabled /\ n \in Asks /\ Room /\ started' = i
      /\ asks' = [asks EXCEPT ![n] = a] /\ tasks' = [tasks EXCEPT ![i] = t]
      /\ window' = window \cup {b, c} /\ disabled' = TRUE /\ inflight' = r
      /\ UNCHANGED <<threads, made, current, cache, losses, mishaps>>
  BY Zenon DEF Submit
<1>2. i \in Tasks /\ current \in Threads \cup {None} /\ current' = current
      /\ asks \in [Asks -> Ask] /\ tasks \in [Tasks -> Task]
  BY <1>0, <1>1, RoomIs DEF PageTypes
<1>3. \A m \in Asks : Used(m) <=> m < n
  BY <1>0, NextAsk, Zenon
<1> HIDE DEF n, i, c, r
<1>4. a \in Ask /\ a.state = "sent" /\ a.thread = current /\ a.home = None
  <2>1. ASSUME NEW z \in Ask, z.home = None,
               NEW q, q = [z EXCEPT !.text = x, !.thread = current, !.state = "sent"]
        PROVE  AskOf(q, current)
    <3>1. q = [text |-> x, thread |-> current, home |-> None, state |-> "sent"]
      BY <2>1 DEF Ask
    <3>2. QED
      BY <1>2, <3>1 DEF Ask, AskOf
  <2>2. NoAsk \in Ask /\ NoAsk.home = None
    BY DEF NoAsk, Ask
  <2>3. AskOf(a, current)
    BY <2>1, <2>2, Zenon
  <2> HIDE DEF a
  <2>4. QED
    BY <2>3 DEF AskOf
<1>5. /\ t \in Task /\ t.kind = "send" /\ t.stage = "asking" /\ t.ask = n /\ t.scope = current
      /\ t.reply = "none" /\ t.seen = {} /\ ~ t.moved
  <2>1. NewTask("send", "asking", current) \in Task
        /\ Fresh(NewTask("send", "asking", current), "send", "asking", current)
    BY <1>2, NewTaskIs DEF Kind, Stage
  <2>2. ASSUME NEW s \in Task, Fresh(s, "send", "asking", current), NEW q, q = [s EXCEPT !.ask = n]
        PROVE  TaskOf(q, n, current)
    <3>1. q = [kind |-> "send", stage |-> "asking", ask |-> n, scope |-> current,
               reply |-> "none", seen |-> {}, moved |-> FALSE]
      BY <2>2 DEF Task, Fresh
    <3>2. QED
      BY <1>1, <1>2, <3>1 DEF Task, Stage, TaskOf
  <2>3. TaskOf(t, n, current)
    BY <2>1, <2>2, Zenon
  <2> HIDE DEF t
  <2>4. QED
    BY <2>3 DEF TaskOf
<1>6. Says(b, "question", n, current, i, FALSE)
  BY <1>1, <1>2, NewBubbleIs DEF What, Stage
<1> HIDE DEF b
<1>7. Says(c, "loading", n, current, i, FALSE)
  BY <1>6, LoadingIs, Zenon DEF c, What
<1>8. /\ r \in [thread : Threads \cup {None}, text : Texts, ask : Asks]
      /\ r.ask = n /\ r.thread = current
  BY <1>1, <1>2 DEF r
<1> HIDE DEF a, t
<1>9. Submitted(n)
  <2>1. asks' \in [Asks -> Ask] /\ asks'[n] = a /\ \A m \in Asks : m # n => asks'[m] = asks[m]
    BY <1>1, <1>2, <1>4
  <2>2. Only(i) /\ tasks'[i] = t
    BY <1>1, <1>2, <1>5 DEF Only
  <2>3. \E u, v : /\ window' = window \cup {u, v}
                  /\ Says(u, "question", n, current, i, FALSE)
                  /\ Says(v, "loading", n, current, i, FALSE)
    BY <1>1, <1>6, <1>7
  <2>4. QED
    BY <1>1, <1>2, <1>3, <1>4, <1>5, <1>8, <2>1, <2>2, <2>3 DEF Submitted, i
<1>10. QED
  BY <1>1, <1>9

\* Its reply is taken, ...
Taken(i) ==
    /\ tasks[i].kind = "send" /\ tasks[i].stage = "asking"
    /\ GoesTo(i, "refreshing", tasks[i].scope)
    /\ window' = WithoutLoading(i) /\ inflight' = None
    /\ UNCHANGED <<threads, made, asks, current, cache, disabled, started, losses, mishaps>>

\* What a response can be, and what is left of the bound when one is lost.
LEMMA LostIs ==
    ASSUME PageTypes, NEW i \in Tasks, NEW stage, Awaited(i, stage) \/ Lost(i, stage)
    PROVE  tasks[i].stage = stage /\ losses' \in 0 .. MaxTasks
BY RoomIs DEF PageTypes, Awaited, Lost

LEMMA LoadedIs ==
    ASSUME PageSound, NEW i \in Tasks, tasks[i].stage \in {"list", "refreshing"}
    PROVE  Loaded(i) \subseteq Threads /\ First(Loaded(i)) \in Threads \cup {None}
<1>1. tasks[i].seen \subseteq Threads /\ cache \subseteq Threads
  BY DEF PageSound, PageTypes, TasksSound
<1>2. Loaded(i) \subseteq Threads
  BY <1>1 DEF Loaded
<1>3. Threads \subseteq Nat
  BY BoundsAreNat DEF Threads
<1>4. QED
  BY <1>2, <1>3, MinOf DEF First

LEMMA TakeReplyIs ==
    ASSUME PageSound, NEW i \in Tasks, TakeReply(i)
    PROVE  Taken(i)
<1>1. tasks[i].stage = "asking" /\ tasks[i] \in Task /\ PageTypes
  BY TaskIs DEF TakeReply, Awaited, PageSound
<1>2. tasks[i].kind = "send"
  BY <1>1, TaskIs DEF Fits
<1>3. GoesTo(i, "refreshing", tasks[i].scope)
  <2>1. tasks[i].scope \in Threads \cup {None}
    BY <1>1 DEF Task
  <2>2. QED
    BY <1>1, <2>1, GoesIs DEF TakeReply, Stage
<1>4. QED
  BY <1>1, <1>2, <1>3 DEF TakeReply, Taken, Awaited, AfterReply, server

\* ... shown, ...
Shown(i) ==
    /\ tasks[i].kind = "send" /\ tasks[i].stage = "refreshing"
    /\ Stops(i)
    /\ cache' \subseteq Threads /\ current' \in Threads \cup {None}
    /\ current # None => current' = current
    /\ \E b, w : /\ window' = window \cup {b}
                 /\ Says(b, w, tasks[i].ask, tasks[i].scope, i, tasks[i].moved)
                 /\ w = "error" \/ (w = "answer" /\ asks[tasks[i].ask].state = "saved")
    /\ disabled' = FALSE
    /\ losses' \in 0 .. MaxTasks
    /\ UNCHANGED <<threads, made, asks, inflight, started, mishaps>>

LEMMA ShowReplyIs ==
    ASSUME PageSound, NEW i \in Tasks, ShowReply(i)
    PROVE  Shown(i)
<1>1. /\ tasks[i].stage = "refreshing" /\ tasks[i].kind = "send" /\ losses' \in 0 .. MaxTasks
      /\ PageTypes /\ tasks[i] \in Task
  BY LostIs, TaskIs DEF ShowReply, PageSound
<1>2. Stops(i)
  BY <1>1, EndsIs DEF ShowReply
<1>3. /\ cache' \subseteq Threads /\ current' \in Threads \cup {None}
      /\ current # None => current' = current
  BY <1>1, LoadedIs DEF ShowReply, PageTypes
<1>4. tasks[i].ask \in Asks \cup {None}
  BY <1>1 DEF Task
<1> DEFINE w == IF asks[tasks[i].ask].state = "saved" THEN "answer" ELSE "error"
           b == Put(i, w, tasks[i].ask)
<1>5. w \in What /\ (w = "error" \/ (w = "answer" /\ asks[tasks[i].ask].state = "saved"))
  BY DEF What
<1>6. window' = window \cup {b}
  BY Zenon DEF ShowReply
<1> HIDE DEF w
<1>7. Says(b, w, tasks[i].ask, tasks[i].scope, i, tasks[i].moved)
  BY <1>1, <1>4, <1>5, PutIs
<1> HIDE DEF b
<1>8. QED
  BY <1>1, <1>2, <1>3, <1>5, <1>6, <1>7 DEF ShowReply, Shown, server

\* ... or lost.
SendLost(i) ==
    /\ tasks[i].kind = "send" /\ tasks[i].stage = "asking"
    /\ Stops(i)
    /\ window' = WithoutLoading(i) /\ disabled' = FALSE
    /\ losses' \in 0 .. MaxTasks
    /\ UNCHANGED <<threads, made, asks, current, cache, inflight, started, mishaps>>

LEMMA SendFailsIs ==
    ASSUME PageSound, NEW i \in Tasks, SendFails(i)
    PROVE  SendLost(i)
<1>1. /\ tasks[i].stage = "asking" /\ losses' \in 0 .. MaxTasks
      /\ PageTypes /\ tasks[i] \in Task
  BY LostIs, TaskIs DEF SendFails, PageSound
<1>2. tasks[i].kind = "send"
  BY <1>1, TaskIs DEF Fits
<1>3. Stops(i)
  BY <1>1, EndsIs DEF SendFails
<1>4. QED
  BY <1>1, <1>2, <1>3 DEF SendFails, SendLost, server

-----------------------------------------------------------------------------
(* Changing the thread on show.                                            *)

\* A task that goes on under another thread.
Overtaken(t, q) ==
    /\ q \in Task /\ q.kind = t.kind /\ q.stage = t.stage /\ q.ask = t.ask /\ q.scope = t.scope
    /\ q.reply = t.reply /\ q.seen = t.seen /\ (q.moved <=> t.stage # "ended")

\* Thread `id` is put on show and a new task of `kind` starts; the tasks of `ending` are of
\* no such kind.
Changed(id, kind, ending) ==
    LET j == started + 1 IN
    /\ id \in Threads \cup {None} /\ kind \in {"history", "list"}
    /\ \A i \in ending : tasks[i].kind \in {"create", "delete"}
    /\ current' = id /\ started' = j /\ j \in Tasks
    /\ tasks' \in [Tasks -> Task]
    /\ Fresh(tasks'[j], kind, kind, IF kind = "history" THEN id ELSE None)
    /\ \A i \in Tasks \ {j} : i \in ending => Blank(tasks'[i])
    /\ \A i \in Tasks \ {j} : i \notin ending => Overtaken(tasks[i], tasks'[i])
    /\ \A b \in window' : kind = "history" /\ Says(b, "loading", None, id, j, FALSE)

LEMMA PutOnShowIs ==
    ASSUME PageTypes, NEW id \in Threads \cup {None}, NEW kind \in {"history", "list"}, NEW ending,
           \A i \in ending : tasks[i].kind \in {"create", "delete"}, PutOnShow(id, kind, ending)
    PROVE  Changed(id, kind, ending)
<1> DEFINE j == started + 1
           moved(t) == [t EXCEPT !.moved = t.stage # "ended"]
           new == NewTask(kind, kind, IF kind = "history" THEN id ELSE None)
           b == NewBubble(j, "loading", kind, None, id)
<1>1. /\ current' = id /\ started' = j /\ j \in Tasks /\ tasks \in [Tasks -> Task]
      /\ kind \in Kind /\ kind \in Stage
  BY RoomIs DEF PutOnShow, PageTypes, Kind, Stage
<1>2. tasks' = [i \in Tasks |-> IF i = j THEN new ELSE IF i \in ending THEN Ended ELSE moved(tasks[i])]
  BY Zenon DEF PutOnShow
<1>3. new \in Task /\ Fresh(new, kind, kind, IF kind = "history" THEN id ELSE None)
  BY <1>1, NewTaskIs
<1>4. ASSUME NEW t \in Task PROVE Overtaken(t, moved(t))
  <2>1. ASSUME NEW q, NEW m \in BOOLEAN, m <=> t.stage # "ended", q = [t EXCEPT !.moved = m]
        PROVE  Overtaken(t, q)
    <3>1. q = [kind |-> t.kind, stage |-> t.stage, ask |-> t.ask, scope |-> t.scope,
               reply |-> t.reply, seen |-> t.seen, moved |-> m]
      BY <2>1 DEF Task
    <3>2. QED
      BY <2>1, <3>1 DEF Task, Overtaken
  <2>2. (t.stage # "ended") \in BOOLEAN
    OBVIOUS
  <2>3. QED
    BY <2>1, <2>2, Zenon
<1>5. \A c \in window' : kind = "history" /\ c = b
  BY Zenon DEF PutOnShow, ClearedWindow
<1>6. Says(b, "loading", None, id, j, FALSE)
  BY <1>1, NewBubbleIs DEF What
<1> HIDE DEF new, moved, b
<1>7. \A i \in Tasks : moved(tasks[i]) \in Task
  BY <1>1, <1>4 DEF Overtaken
<1>8. tasks' \in [Tasks -> Task]
  BY <1>2, <1>3, <1>7, EndedIs
<1>9. /\ tasks'[j] = new
      /\ \A i \in Tasks \ {j} : i \in ending => tasks'[i] = Ended
      /\ \A i \in Tasks \ {j} : i \notin ending => tasks'[i] = moved(tasks[i])
  BY <1>1, <1>2
<1>10. QED
  BY <1>1, <1>3, <1>4, <1>5, <1>6, <1>8, <1>9, EndedIs DEF Changed

\* The three ways to it: a click on a thread, a thread made, a thread deleted.
Turned ==
    /\ \E id, kind, ending : Changed(id, kind, ending)
    /\ cache' \subseteq Threads
    /\ losses' \in 0 .. MaxTasks
    /\ UNCHANGED <<threads, made, asks, disabled, inflight, mishaps>>

LEMMA SwitchIs ==
    ASSUME PageTypes, NEW id \in Threads, Switch(id)
    PROVE  Turned
<1>1. Changed(id, "history", {})
  BY PutOnShowIs DEF Switch
<1>2. QED
  BY <1>1 DEF Switch, Turned, server, PageTypes

LEMMA CreatedIs ==
    ASSUME PageSound, NEW i \in Tasks, Created(i)
    PROVE  Turned
<1>1. /\ tasks[i].stage = "creating" /\ tasks[i].reply = "served" /\ losses' = losses
      /\ PageTypes /\ tasks[i] \in Task
  BY TaskIs DEF Created, Awaited, PageSound
<1>2. tasks[i].kind = "create"
  BY <1>1, TaskIs DEF Fits
<1>3. tasks[i].seen \subseteq Threads /\ tasks[i].seen # {}
  BY <1>1 DEF PageSound, TasksSound
<1>4. Min(tasks[i].seen) \in Threads
  <2>1. Threads \subseteq Nat
    BY BoundsAreNat DEF Threads
  <2>2. QED
    BY <1>3, <2>1, MinOf
<1>5. Changed(Min(tasks[i].seen), "list", {i})
  BY <1>1, <1>2, <1>4, PutOnShowIs DEF Created
<1>6. QED
  BY <1>1, <1>5 DEF Created, Turned, server, PageTypes

\* A list is there without a change of the thread.
Listed(i) ==
    /\ tasks[i].kind \in {"list", "delete"} /\ tasks[i].stage = "list"
    /\ Stops(i)
    /\ cache' \subseteq Threads
    /\ losses' \in 0 .. MaxTasks
    /\ UNCHANGED <<threads, made, asks, current, window, disabled, inflight, started, mishaps>>

LEMMA ShowListIs ==
    ASSUME PageSound, NEW i \in Tasks, ShowList(i)
    PROVE  Turned \/ Listed(i)
<1>1. /\ tasks[i].stage = "list" /\ tasks[i].kind \in {"list", "delete"} /\ losses' \in 0 .. MaxTasks
      /\ PageTypes /\ UNCHANGED <<threads, made, asks, disabled, inflight, mishaps>>
  BY LostIs DEF ShowList, PageSound, server
<1>2. cache' = Loaded(i) /\ cache' \subseteq Threads
  BY <1>1, LoadedIs DEF ShowList
<1>3. CASE tasks[i].kind = "delete" /\ tasks[i].scope = current
  <2>1. PutOnShow(First(cache' \ {tasks[i].scope}), "history", {i})
    BY <1>3 DEF ShowList
  <2>2. First(cache' \ {tasks[i].scope}) \in Threads \cup {None}
    <3>1. Threads \subseteq Nat
      BY BoundsAreNat DEF Threads
    <3>2. QED
      BY <1>2, <3>1, MinOf DEF First
  <2>3. Changed(First(cache' \ {tasks[i].scope}), "history", {i})
    BY <1>1, <1>3, <2>1, <2>2, PutOnShowIs
  <2>4. QED
    BY <1>1, <1>2, <2>3 DEF Turned
<1>4. CASE ~ (tasks[i].kind = "delete" /\ tasks[i].scope = current)
  <2>1. Ends(i) /\ UNCHANGED <<current, window, started>>
    BY <1>4 DEF ShowList
  <2>2. QED
    BY <1>1, <1>2, <2>1, EndsIs DEF Listed
<1>5. QED
  BY <1>3, <1>4

\* A request to make or to delete a thread goes out.
Clicked ==
    LET i == started + 1 IN
    /\ started' = i /\ i \in Tasks
    /\ Only(i)
    /\ \E scope : \/ Fresh(tasks'[i], "create", "creating", scope)
                  \/ Fresh(tasks'[i], "delete", "deleting", scope)
    /\ UNCHANGED <<threads, made, asks, current, cache, window, disabled, inflight, losses, mishaps>>

LEMMA ClickIs ==
    ASSUME PageTypes, NEW scope \in Threads \cup {None},
           Click("delete", "deleting", scope) \/ Click("create", "creating", scope)
    PROVE  Clicked
<1>1. ASSUME NEW kind \in {"create", "delete"}, NEW stage \in {"creating", "deleting"},
             Click(kind, stage, scope)
      PROVE  /\ started' = started + 1 /\ started + 1 \in Tasks
             /\ Only(started + 1) /\ Fresh(tasks'[started + 1], kind, stage, scope)
  <2> DEFINE t == NewTask(kind, stage, scope)
  <2>1. t \in Task /\ Fresh(t, kind, stage, scope)
    BY NewTaskIs DEF Kind, Stage
  <2> HIDE DEF t
  <2>2. tasks' = [tasks EXCEPT ![started + 1] = t] /\ tasks \in [Tasks -> Task]
    BY <1>1 DEF Click, PageTypes, t
  <2>3. started' = started + 1 /\ started + 1 \in Tasks
    BY <1>1, RoomIs DEF Click
  <2>4. QED
    BY <2>1, <2>2, <2>3 DEF Only
<1>2. UNCHANGED <<threads, made, asks, current, cache, window, disabled, inflight, losses, mishaps>>
  BY DEF Click, server, page
<1>3. QED
  BY <1>1, <1>2 DEF Clicked

\* It fails, ...
Failed(i) ==
    /\ tasks[i].kind \in {"create", "delete"}
    /\ Stops(i)
    /\ losses' \in 0 .. MaxTasks
    /\ UNCHANGED <<threads, made, asks, current, cache, window, disabled, inflight, started, mishaps>>

LEMMA ClickFailsIs ==
    ASSUME PageSound, NEW i \in Tasks, ClickFails(i)
    PROVE  Failed(i)
<1>1. tasks[i].stage \in {"creating", "deleting"} /\ losses' \in 0 .. MaxTasks /\ PageTypes
  BY LostIs DEF ClickFails, PageSound
<1>2. tasks[i].kind \in {"create", "delete"}
  BY <1>1, TaskIs DEF Fits
<1>3. QED
  BY <1>1, <1>2, EndsIs DEF ClickFails, Failed, server, page

\* ... or the thread is deleted.
Removed(i) ==
    /\ tasks[i].kind = "delete" /\ tasks[i].stage = "deleting"
    /\ GoesTo(i, "list", tasks[i].scope)
    /\ UNCHANGED <<threads, made, asks, current, cache, window, disabled, inflight, started, losses,
                   mishaps>>

LEMMA DeletedIs ==
    ASSUME PageSound, NEW i \in Tasks, Deleted(i)
    PROVE  Removed(i)
<1>1. tasks[i].stage = "deleting" /\ losses' = losses /\ PageTypes /\ tasks[i] \in Task
  BY TaskIs DEF Deleted, Awaited, PageSound
<1>2. tasks[i].kind = "delete"
  BY <1>1, TaskIs DEF Fits
<1>3. tasks[i].scope \in Threads \cup {None}
  BY <1>1 DEF Task
<1>4. GoesTo(i, "list", tasks[i].scope)
  BY <1>1, <1>3, GoesIs DEF Deleted, Stage
<1>5. QED
  BY <1>1, <1>2, <1>4 DEF Deleted, Removed, server, page

-----------------------------------------------------------------------------
(* Loading the page.                                                       *)

\* The page is new: one task runs.
Reloaded ==
    LET j == started + 1 IN
    /\ started' = j /\ j \in Tasks
    /\ tasks' \in [Tasks -> Task]
    /\ Fresh(tasks'[j], "init", "list", None)
    /\ \A i \in Tasks \ {j} : Blank(tasks'[i])
    /\ current' = None /\ cache' = {} /\ window' = {} /\ disabled' = FALSE
    /\ UNCHANGED <<threads, made, asks, inflight, losses, mishaps>>

LEMMA ReloadIs ==
    ASSUME PageTypes, Reload
    PROVE  Reloaded
<1> DEFINE t == NewTask("init", "list", None)
<1>1. t \in Task /\ Fresh(t, "init", "list", None)
  BY NewTaskIs DEF Kind, Stage
<1> HIDE DEF t
<1>2. /\ started' = started + 1 /\ started + 1 \in Tasks
      /\ tasks' = [i \in Tasks |-> IF i = started + 1 THEN t ELSE Ended]
      /\ current' = None /\ cache' = {} /\ window' = {} /\ disabled' = FALSE
      /\ UNCHANGED <<threads, made, asks, inflight, losses, mishaps>>
  BY RoomIs DEF Reload, server, t
<1>3. QED
  BY <1>1, <1>2, EndedIs DEF Reloaded

\* init() chooses a thread.
Chosen(i) ==
    /\ tasks[i].kind = "init" /\ tasks[i].stage = "list"
    /\ GoesTo(i, "history", current')
    /\ cache' \subseteq Threads /\ current' \in Threads \cup {None}
    /\ \E b : /\ window' = window \cup {b}
              /\ Says(b, "loading", None, current', i, tasks[i].moved)
    /\ mishaps' \subseteq {"reenabled", "rechosen", "blind"} /\ mishaps \subseteq mishaps'
    /\ current \in {None, current'} \/ "rechosen" \in mishaps'
    /\ losses' \in 0 .. MaxTasks
    /\ UNCHANGED <<threads, made, asks, disabled, inflight, started>>

LEMMA ChooseThreadIs ==
    ASSUME PageSound, NEW i \in Tasks, ChooseThread(i)
    PROVE  Chosen(i)
<1>1. /\ tasks[i].stage = "list" /\ tasks[i].kind = "init" /\ losses' \in 0 .. MaxTasks
      /\ PageTypes /\ UNCHANGED <<threads, made, asks, disabled, inflight, started>>
      /\ tasks[i] \in Task
  BY LostIs, TaskIs DEF ChooseThread, PageSound, server
<1>2. cache' \subseteq Threads
  BY <1>1, LoadedIs DEF ChooseThread
<1>3. current' \in Threads \cup {None}
  BY <1>1, <1>2 DEF ChooseThread, PageTypes
<1>4. GoesTo(i, "history", current')
  BY <1>1, <1>3, GoesIs DEF ChooseThread, Stage
<1> DEFINE b == [Put(i, "loading", None) EXCEPT !.scope = current']
<1>5. Says(b, "loading", None, current', i, tasks[i].moved)
  <2>1. Says(Put(i, "loading", None), "loading", None, tasks[i].scope, i, tasks[i].moved)
    BY <1>1, PutIs DEF What
  <2>2. tasks[i].moved \in BOOLEAN /\ "loading" \in What \ {"answer"}
    BY <1>1 DEF Task, What
  <2>3. QED
    BY <1>3, <2>1, <2>2, ScopedIs, Zenon
<1>6. window' = window \cup {b}
  BY Zenon DEF ChooseThread
<1> HIDE DEF b
<1>7. /\ mishaps' \subseteq {"reenabled", "rechosen", "blind"} /\ mishaps \subseteq mishaps'
      /\ current \in {None, current'} \/ "rechosen" \in mishaps'
  BY <1>1 DEF ChooseThread, PageTypes
<1>8. QED
  BY <1>1, <1>2, <1>3, <1>4, <1>5, <1>6, <1>7 DEF Chosen

\* A history is shown, ...
HistoryShown(i) ==
    /\ \A b \in window' :
          \/ b \in WithoutLoading(i)
          \/ \E n \in tasks[i].seen : b = Put(i, "question", n) \/ b = Put(i, "answer", n)
    /\ losses' \in 0 .. MaxTasks
    /\ UNCHANGED <<threads, made, asks, current, cache, disabled, inflight, started, mishaps>>

HistoryEnds(i) ==
    /\ tasks[i].kind \in {"init", "history"} /\ tasks[i].stage = "history"
    /\ Stops(i) /\ HistoryShown(i)

\* ... and init() goes on with the question left in flight.
RestoreBegins(i) ==
    /\ tasks[i].kind = "init" /\ tasks[i].stage = "history"
    /\ inflight # None /\ inflight.thread \in {None, current}
    /\ Only(i)
    /\ tasks'[i].kind = "init" /\ tasks'[i].stage = "finding"
    /\ tasks'[i].ask = inflight.ask /\ tasks'[i].scope = current
    /\ tasks'[i].reply = "none" /\ tasks'[i].seen = {}
    /\ tasks'[i].moved <=> tasks[i].moved
    /\ HistoryShown(i)

LEMMA ShowHistoryIs ==
    ASSUME PageSound, NEW i \in Tasks, ShowHistory(i)
    PROVE  HistoryEnds(i) \/ RestoreBegins(i)
<1>1. tasks[i].stage = "history" /\ losses' \in 0 .. MaxTasks /\ PageTypes /\ tasks[i] \in Task
  BY LostIs, TaskIs DEF ShowHistory, PageSound
<1>2. tasks[i].kind \in {"init", "history"}
  BY <1>1, TaskIs DEF Fits
<1>3. HistoryShown(i)
  <2>1. window' = WithoutLoading(i) \cup
          UNION {{Put(i, "question", n), Put(i, "answer", n)} : n \in tasks[i].seen}
    BY Zenon DEF ShowHistory
  <2>2. \A b \in window' :
           \/ b \in WithoutLoading(i)
           \/ \E n \in tasks[i].seen : b = Put(i, "question", n) \/ b = Put(i, "answer", n)
    BY <2>1, Zenon
  <2>3. UNCHANGED <<threads, made, asks, current, cache, disabled, inflight, started, mishaps>>
    BY DEF ShowHistory, server
  <2>4. QED
    BY <1>1, <2>2, <2>3 DEF HistoryShown
<1>4. CASE Ends(i)
  BY <1>1, <1>2, <1>3, <1>4, EndsIs DEF HistoryEnds
<1> DEFINE r == [tasks[i] EXCEPT !.stage = "finding", !.scope = current, !.ask = inflight.ask,
                                 !.reply = "none", !.seen = {}]
<1>5. CASE /\ tasks[i].kind = "init" /\ Restores
           /\ tasks' = [tasks EXCEPT ![i] = [@ EXCEPT !.stage = "finding", !.scope = current,
                          !.ask = inflight.ask, !.reply = "none", !.seen = {}]]
  <2>1. inflight.ask \in Asks /\ inflight # None /\ inflight.thread \in {None, current}
        /\ tasks \in [Tasks -> Task] /\ current \in Threads \cup {None}
    BY <1>1, <1>5 DEF Restores, PageTypes
  <2>2. ASSUME NEW t \in Task, NEW q,
               q = [t EXCEPT !.stage = "finding", !.scope = current, !.ask = inflight.ask,
                             !.reply = "none", !.seen = {}]
        PROVE  q = [kind |-> t.kind, stage |-> "finding", ask |-> inflight.ask, scope |-> current,
                    reply |-> "none", seen |-> {}, moved |-> t.moved]
    BY <2>2 DEF Task
  <2>3. r = [kind |-> tasks[i].kind, stage |-> "finding", ask |-> inflight.ask, scope |-> current,
             reply |-> "none", seen |-> {}, moved |-> tasks[i].moved]
    BY <1>1, <2>2, ZenonT(30)
  <2>4. tasks' = [tasks EXCEPT ![i] = r]
    BY <1>5, Zenon
  <2> HIDE DEF r
  <2>5. r \in Task
    BY <1>1, <2>1, <2>3 DEF Task, Stage
  <2>6. Only(i) /\ tasks'[i] = r
    BY <2>1, <2>4, <2>5 DEF Only
  <2>7. QED
    BY <1>1, <1>3, <1>5, <2>1, <2>3, <2>6 DEF RestoreBegins
<1>6. QED
  BY <1>4, <1>5, Zenon DEF ShowHistory

\* The first look-up finds nothing, ...
Waits(i) ==
    /\ tasks[i].kind = "init" /\ tasks[i].stage = "finding"
    /\ Hits(i) = {}
    /\ GoesTo(i, "waiting", current)
    /\ \E b, c : /\ window' = window \cup {b, c}
                 /\ Says(b, "question", tasks[i].ask, current, i, tasks[i].moved)
                 /\ Says(c, "loading", tasks[i].ask, current, i, tasks[i].moved)
    /\ disabled' = TRUE
    /\ mishaps' \subseteq {"reenabled", "rechosen", "blind"} /\ mishaps \subseteq mishaps'
    /\ tasks[i].reply = "served" \/ "blind" \in mishaps'
    /\ losses' \in 0 .. MaxTasks
    /\ UNCHANGED <<threads, made, asks, current, cache, inflight, started>>

\* ... or that there is nothing to restore.
HasBeenShown(i) ==
    /\ tasks[i].kind = "init" /\ tasks[i].stage = "finding"
    /\ Stops(i) /\ inflight' = None
    /\ losses' \in 0 .. MaxTasks
    /\ UNCHANGED <<threads, made, asks, current, cache, window, disabled, started, mishaps>>

LEMMA FindFirstIs ==
    ASSUME PageSound, NEW i \in Tasks, FindFirst(i)
    PROVE  Waits(i) \/ HasBeenShown(i)
<1>1. /\ tasks[i].stage = "finding" /\ losses' \in 0 .. MaxTasks /\ PageTypes /\ tasks[i] \in Task
      /\ current \in Threads \cup {None}
  BY LostIs, TaskIs DEF FindFirst, PageSound, PageTypes
<1>2. tasks[i].kind = "init"
  BY <1>1, TaskIs DEF Fits
<1>3. UNCHANGED <<threads, made, asks, current, cache, started>>
  BY DEF FindFirst, server
<1> DEFINE q == [Put(i, "question", tasks[i].ask) EXCEPT !.scope = current]
           c == [q EXCEPT !.what = "loading"]
<1>4. CASE /\ NotFound(i)
           /\ window' = window \cup {q, c}
           /\ disabled' = TRUE
           /\ Goes(i, "waiting", current)
           /\ mishaps' = mishaps \cup (IF tasks[i].reply = "served" THEN {} ELSE {"blind"})
           /\ UNCHANGED inflight
  <2>1. tasks[i].moved \in BOOLEAN /\ "question" \in What \ {"answer"} /\ "question" \in What
        /\ tasks[i].ask \in Asks \cup {None}
    BY <1>1 DEF Task, What
  <2>2. Says(Put(i, "question", tasks[i].ask), "question", tasks[i].ask, tasks[i].scope, i,
             tasks[i].moved)
    BY <1>1, <2>1, PutIs
  <2>3. Says(q, "question", tasks[i].ask, current, i, tasks[i].moved)
    BY <1>1, <2>1, <2>2, ScopedIs, Zenon
  <2>4. window' = window \cup {q, c}
    BY <1>4, Zenon
  <2> HIDE DEF q
  <2>5. Says(c, "loading", tasks[i].ask, current, i, tasks[i].moved)
    BY <2>1, <2>3, LoadingIs, Zenon
  <2> HIDE DEF c
  <2>6. GoesTo(i, "waiting", current)
    BY <1>1, <1>4, GoesIs DEF Stage
  <2>7. /\ mishaps' \subseteq {"reenabled", "rechosen", "blind"} /\ mishaps \subseteq mishaps'
        /\ tasks[i].reply = "served" \/ "blind" \in mishaps'
    BY <1>1, <1>4 DEF PageTypes
  <2>8. QED
    BY <1>1, <1>2, <1>3, <1>4, <2>3, <2>4, <2>5, <2>6, <2>7 DEF Waits, NotFound
<1>5. CASE /\ ~ NotFound(i) /\ inflight' = None /\ Ends(i)
           /\ UNCHANGED <<window, disabled, mishaps>>
  BY <1>1, <1>2, <1>3, <1>5, EndsIs DEF HasBeenShown
<1>6. QED
  BY <1>4, <1>5, Zenon DEF FindFirst

Polled(i) ==
    /\ tasks[i].kind = "init" /\ tasks[i].stage = "waiting"
    /\ GoesTo(i, "polling", current)
    /\ UNCHANGED <<threads, made, asks, current, cache, window, disabled, inflight, started, losses,
                   mishaps>>

LEMMA PollIs ==
    ASSUME PageSound, NEW i \in Tasks, Poll(i)
    PROVE  Polled(i)
<1>1. tasks[i].stage = "waiting" /\ PageTypes /\ tasks[i] \in Task /\ current \in Threads \cup {None}
  BY TaskIs DEF Poll, PageSound, PageTypes
<1>2. tasks[i].kind = "init"
  BY <1>1, TaskIs DEF Fits
<1>3. GoesTo(i, "polling", current)
  BY <1>1, GoesIs DEF Poll, Stage
<1>4. QED
  BY <1>1, <1>2, <1>3 DEF Poll, Polled, server, page

\* The question has a record, ...
HitShown(i) ==
    /\ tasks[i].kind = "init" /\ tasks[i].stage = "polling"
    /\ GoesTo(i, "refreshing", tasks[i].scope)
    /\ \E n \in Hits(i) : \E b, w :
          /\ window' = WithoutLoading(i) \cup {b}
          /\ Says(b, w, n, tasks[i].scope, i, tasks[i].moved)
          /\ w = "error" \/ (w = "answer" /\ asks[n].state = "saved")
    /\ inflight' = None
    /\ losses' \in 0 .. MaxTasks
    /\ UNCHANGED <<threads, made, asks, current, cache, disabled, started, mishaps>>

LEMMA ShowHitIs ==
    ASSUME PageSound, NEW i \in Tasks, ShowHit(i)
    PROVE  HitShown(i)
<1>1. /\ tasks[i].stage = "polling" /\ PageTypes /\ tasks[i] \in Task
      /\ losses' \in 0 .. MaxTasks
  BY LostIs, TaskIs DEF ShowHit, PageSound
<1>2. tasks[i].kind = "init"
  BY <1>1, TaskIs DEF Fits
<1>3. GoesTo(i, "refreshing", tasks[i].scope)
  <2>1. tasks[i].scope \in Threads \cup {None}
    BY <1>1 DEF Task
  <2>2. QED
    BY <1>1, <2>1, GoesIs DEF ShowHit, Stage
<1>4. PICK n \in Hits(i) :
        window' = WithoutLoading(i) \cup
                    {Put(i, IF asks[n].state = "saved" THEN "answer" ELSE "error", n)}
  BY Zenon DEF ShowHit
<1>5. n \in Asks
  BY <1>1 DEF Hits, PageSound, TasksSound
<1> DEFINE w == IF asks[n].state = "saved" THEN "answer" ELSE "error"
           b == Put(i, w, n)
<1>6. w \in What /\ (w = "error" \/ (w = "answer" /\ asks[n].state = "saved"))
  BY DEF What
<1>7. window' = WithoutLoading(i) \cup {b}
  BY <1>4, Zenon
<1> HIDE DEF w
<1>8. Says(b, w, n, tasks[i].scope, i, tasks[i].moved)
  BY <1>1, <1>5, <1>6, PutIs
<1> HIDE DEF b
<1>9. QED
  BY <1>1, <1>2, <1>3, <1>6, <1>7, <1>8 DEF ShowHit, HitShown, server

\* ... and the restore ends, ...
Enabled ==
    /\ disabled' = FALSE
    /\ mishaps' \subseteq {"reenabled", "rechosen", "blind"} /\ mishaps \subseteq mishaps'
    /\ Sending # {} => "reenabled" \in mishaps'

LEMMA EnablesIs ==
    ASSUME PageTypes, Enables
    PROVE  Enabled
BY DEF PageTypes, Enables, Enabled

Restored(i) ==
    /\ tasks[i].kind = "init" /\ tasks[i].stage = "refreshing"
    /\ Stops(i) /\ Enabled
    /\ cache' \subseteq Threads
    /\ losses' \in 0 .. MaxTasks
    /\ UNCHANGED <<threads, made, asks, current, window, inflight, started>>

LEMMA RestoreEndsIs ==
    ASSUME PageSound, NEW i \in Tasks, RestoreEnds(i)
    PROVE  Restored(i)
<1>1. /\ tasks[i].stage = "refreshing" /\ tasks[i].kind = "init" /\ losses' \in 0 .. MaxTasks
      /\ PageTypes
  BY LostIs DEF RestoreEnds, PageSound
<1>2. cache' \subseteq Threads
  BY <1>1, LoadedIs DEF RestoreEnds
<1>3. QED
  BY <1>1, <1>2, EnablesIs, EndsIs DEF RestoreEnds, Restored, server

\* ... or has none: the restore goes on or gives up.
WaitsOn(i) ==
    /\ tasks[i].kind = "init" /\ tasks[i].stage = "polling"
    /\ GoesTo(i, "waiting", tasks[i].scope)
    /\ losses' \in 0 .. MaxTasks
    /\ UNCHANGED <<threads, made, asks, current, cache, window, disabled, inflight, started, mishaps>>

GivesUp(i) ==
    /\ tasks[i].kind = "init" /\ tasks[i].stage = "polling"
    /\ Stops(i) /\ Enabled
    /\ window' = WithoutLoading(i)
    /\ losses' \in 0 .. MaxTasks
    /\ UNCHANGED <<threads, made, asks, current, cache, inflight, started>>

LEMMA NoHitIs ==
    ASSUME PageSound, NEW i \in Tasks, NoHit(i)
    PROVE  WaitsOn(i) \/ GivesUp(i)
<1>1. /\ tasks[i].stage = "polling" /\ PageTypes /\ tasks[i] \in Task
      /\ losses' \in 0 .. MaxTasks
  BY LostIs, TaskIs DEF NoHit, PageSound
<1>2. tasks[i].kind = "init"
  BY <1>1, TaskIs DEF Fits
<1>3. UNCHANGED <<threads, made, asks, current, cache, inflight, started>>
  BY DEF NoHit, server
<1>4. CASE Goes(i, "waiting", tasks[i].scope) /\ UNCHANGED <<window, disabled, mishaps>>
  <2>1. tasks[i].scope \in Threads \cup {None}
    BY <1>1 DEF Task
  <2>2. GoesTo(i, "waiting", tasks[i].scope)
    BY <1>1, <1>4, <2>1, GoesIs DEF Stage
  <2>3. QED
    BY <1>1, <1>2, <1>3, <1>4, <2>2 DEF WaitsOn
<1>5. CASE window' = WithoutLoading(i) /\ Enables /\ Ends(i)
  BY <1>1, <1>2, <1>3, <1>5, EnablesIs, EndsIs DEF GivesUp
<1>6. QED
  BY <1>4, <1>5, Zenon DEF NoHit

-----------------------------------------------------------------------------
(* The steps are these.                                                    *)

PageStep ==
    \/ \E n \in Asks : Answered(n)
    \/ \E n \in Asks : Submitted(n)
    \/ \E i \in Tasks :
          \/ Served(i) \/ Taken(i) \/ Shown(i) \/ SendLost(i)
          \/ Listed(i) \/ Failed(i) \/ Removed(i) \/ Chosen(i)
          \/ HistoryEnds(i) \/ RestoreBegins(i) \/ Waits(i) \/ HasBeenShown(i)
          \/ Polled(i) \/ HitShown(i) \/ Restored(i) \/ WaitsOn(i) \/ GivesUp(i)
    \/ Turned \/ Clicked \/ Reloaded
    \/ UNCHANGED vars

LEMMA StepIs ==
    ASSUME PageSound, [PageNext]_vars
    PROVE  PageStep
<1>0. PageTypes
  BY DEF PageSound
<1>1. ASSUME NEW n \in Asks, Answer(n) PROVE PageStep
  BY <1>0, <1>1, AnswerIs DEF PageStep
<1>2. ASSUME NEW i \in Tasks, Serve(i) PROVE PageStep
  BY <1>0, <1>2, ServeIs DEF PageStep
<1>3. ASSUME NEW i \in Tasks, TaskStep(i) PROVE PageStep
  <2>1. CASE TakeReply(i) \/ ShowReply(i) \/ SendFails(i)
    BY <2>1, TakeReplyIs, ShowReplyIs, SendFailsIs DEF PageStep
  <2>2. CASE Created(i) \/ ClickFails(i) \/ Deleted(i) \/ ShowList(i)
    BY <2>2, CreatedIs, ClickFailsIs, DeletedIs, ShowListIs DEF PageStep
  <2>3. CASE ChooseThread(i) \/ ShowHistory(i) \/ FindFirst(i) \/ Poll(i)
    BY <2>3, ChooseThreadIs, ShowHistoryIs, FindFirstIs, PollIs DEF PageStep
  <2>4. CASE ShowHit(i) \/ RestoreEnds(i) \/ NoHit(i)
    BY <2>4, ShowHitIs, RestoreEndsIs, NoHitIs DEF PageStep
  <2>5. QED
    BY <1>3, <2>1, <2>2, <2>3, <2>4 DEF TaskStep
<1>4. ASSUME NEW x \in Texts, Submit(x) PROVE PageStep
  BY <1>4, SubmitIs DEF PageStep
<1>5. ASSUME NEW id \in Threads, Switch(id) \/ Click("delete", "deleting", id) PROVE PageStep
  BY <1>0, <1>5, SwitchIs, ClickIs DEF PageStep
<1>6. ASSUME Click("create", "creating", None) PROVE PageStep
  BY <1>0, <1>6, ClickIs DEF PageStep
<1>7. ASSUME Reload PROVE PageStep
  BY <1>0, <1>7, ReloadIs DEF PageStep
<1>8. ASSUME UNCHANGED vars PROVE PageStep
  BY <1>8 DEF PageStep
<1>9. QED
  BY <1>1, <1>2, <1>3, <1>4, <1>5, <1>6, <1>7, <1>8 DEF PageNext

-----------------------------------------------------------------------------
(* The types.                                                              *)

LEMMA TypesStep ==
    ASSUME PageSound, PageStep
    PROVE  PageTypes'
<1>1. ASSUME NEW n \in Asks, Answered(n) PROVE PageTypes'
  BY <1>1, BoundsAreNat DEF Answered, PageSound, PageTypes, MoreThreads
<1>2. ASSUME NEW n \in Asks, Submitted(n) PROVE PageTypes'
  BY <1>2, BoundsAreNat DEF Submitted, PageSound, PageTypes, Only, Says
<1>3. ASSUME NEW i \in Tasks, Served(i) PROVE PageTypes'
  BY <1>3, BoundsAreNat DEF Served, PageSound, PageTypes, Only, MoreThreads
<1>4. ASSUME NEW i \in Tasks, Taken(i) PROVE PageTypes'
  BY <1>4, BoundsAreNat DEF Taken, PageSound, PageTypes, Only, GoesTo, WithoutLoading
<1>5. ASSUME NEW i \in Tasks, Shown(i) PROVE PageTypes'
  BY <1>5, BoundsAreNat DEF Shown, PageSound, PageTypes, Only, Stops, Says
<1>6. ASSUME NEW i \in Tasks, SendLost(i) PROVE PageTypes'
  BY <1>6, BoundsAreNat DEF SendLost, PageSound, PageTypes, Only, Stops, WithoutLoading
<1>7. ASSUME NEW i \in Tasks, Listed(i) PROVE PageTypes'
  BY <1>7, BoundsAreNat DEF Listed, PageSound, PageTypes, Only, Stops
<1>8. ASSUME NEW i \in Tasks, Failed(i) PROVE PageTypes'
  BY <1>8, BoundsAreNat DEF Failed, PageSound, PageTypes, Only, Stops
<1>9. ASSUME NEW i \in Tasks, Removed(i) PROVE PageTypes'
  BY <1>9, BoundsAreNat DEF Removed, PageSound, PageTypes, Only, GoesTo
<1>10. ASSUME NEW i \in Tasks, Chosen(i) PROVE PageTypes'
  BY <1>10, BoundsAreNat DEF Chosen, PageSound, PageTypes, Only, GoesTo, Says
<1>11. ASSUME NEW i \in Tasks, HistoryEnds(i) PROVE PageTypes'
  <2>1. \A n \in tasks[i].seen : n \in Asks
    BY <1>11 DEF HistoryEnds, PageSound, TasksSound
  <2>2. PageTypes
    BY DEF PageSound
  <2>3. \A n \in tasks[i].seen : Put(i, "question", n) \in Bubble /\ Put(i, "answer", n) \in Bubble
    BY <2>1, <2>2, PutIs DEF Says, What
  <2>4. window' \subseteq Bubble
    BY <1>11, <2>2, <2>3 DEF HistoryEnds, HistoryShown, PageTypes, WithoutLoading
  <2>5. QED
    BY <1>11, <2>2, <2>4 DEF HistoryEnds, HistoryShown, PageTypes, Stops, Only
<1>12. ASSUME NEW i \in Tasks, RestoreBegins(i) PROVE PageTypes'
  <2>1. \A n \in tasks[i].seen : n \in Asks
    BY <1>12 DEF RestoreBegins, PageSound, TasksSound
  <2>2. PageTypes
    BY DEF PageSound
  <2>3. \A n \in tasks[i].seen : Put(i, "question", n) \in Bubble /\ Put(i, "answer", n) \in Bubble
    BY <2>1, <2>2, PutIs DEF Says, What
  <2>4. window' \subseteq Bubble
    BY <1>12, <2>2, <2>3 DEF RestoreBegins, HistoryShown, PageTypes, WithoutLoading
  <2>5. QED
    BY <1>12, <2>2, <2>4 DEF RestoreBegins, HistoryShown, PageTypes, Only
<1>13. ASSUME NEW i \in Tasks, Waits(i) PROVE PageTypes'
  BY <1>13, BoundsAreNat DEF Waits, PageSound, PageTypes, Only, GoesTo, Says
<1>14. ASSUME NEW i \in Tasks, HasBeenShown(i) PROVE PageTypes'
  BY <1>14, BoundsAreNat DEF HasBeenShown, PageSound, PageTypes, Only, Stops
<1>15. ASSUME NEW i \in Tasks, Polled(i) PROVE PageTypes'
  BY <1>15, BoundsAreNat DEF Polled, PageSound, PageTypes, Only, GoesTo
<1>16. ASSUME NEW i \in Tasks, HitShown(i) PROVE PageTypes'
  BY <1>16, BoundsAreNat DEF HitShown, PageSound, PageTypes, Only, GoesTo, WithoutLoading, Says
<1>17. ASSUME NEW i \in Tasks, Restored(i) PROVE PageTypes'
  BY <1>17, BoundsAreNat DEF Restored, PageSound, PageTypes, Only, Stops, Enabled
<1>18. ASSUME NEW i \in Tasks, WaitsOn(i) PROVE PageTypes'
  BY <1>18, BoundsAreNat DEF WaitsOn, PageSound, PageTypes, Only, GoesTo
<1>19. ASSUME NEW i \in Tasks, GivesUp(i) PROVE PageTypes'
  BY <1>19, BoundsAreNat DEF GivesUp, PageSound, PageTypes, Only, Stops, WithoutLoading, Enabled
<1>20. ASSUME Turned PROVE PageTypes'
  BY <1>20, BoundsAreNat DEF Turned, PageSound, PageTypes, Says, Changed
<1>21. ASSUME Clicked PROVE PageTypes'
  BY <1>21, BoundsAreNat DEF Clicked, PageSound, PageTypes, Only
<1>22. ASSUME Reloaded PROVE PageTypes'
  BY <1>22, BoundsAreNat DEF Reloaded, PageSound, PageTypes
<1>23. ASSUME UNCHANGED vars PROVE PageTypes'
  BY <1>23, BoundsAreNat DEF vars, server, page, PageSound, PageTypes
<1>24. QED
  BY <1>1, <1>2, <1>3, <1>4, <1>5, <1>6, <1>7, <1>8, <1>9, <1>10, <1>11, <1>12, <1>13,
     <1>14, <1>15, <1>16, <1>17, <1>18, <1>19, <1>20, <1>21, <1>22, <1>23, Zenon DEF PageStep

-----------------------------------------------------------------------------
(* The questions.                                                          *)

\* A question asked stays the same; its record stays where it is; no thread comes back.
Grows ==
    /\ \A n \in Asks : Used(n) => /\ asks'[n].state # "unused" /\ asks'[n].text = asks[n].text
                                  /\ asks'[n].thread = asks[n].thread
    /\ \A n \in Asks : asks[n].home # None =>
          asks'[n].home = asks[n].home /\ asks'[n].state = asks[n].state
    /\ made <= made' /\ \A t \in 1 .. made : t \in threads' => t \in threads

LEMMA MadeIs ==
    ASSUME PageTypes
    PROVE  made \in Nat /\ made <= made
BY BoundsAreNat DEF PageTypes

LEMMA GrowsStep ==
    ASSUME PageSound, PageStep
    PROVE  Grows
<1>0. made \in Nat /\ made <= made
  BY MadeIs DEF PageSound
<1>1. ASSUME NEW n \in Asks, Answered(n) PROVE Grows
  BY <1>1, <1>0 DEF Answered, Grows, MoreThreads, Used, PageSound, AsksFiled
<1>2. ASSUME NEW n \in Asks, Submitted(n) PROVE Grows
  <2>1. ~ Used(n) /\ asks[n].home = None
    BY <1>2, BoundsAreNat DEF Submitted, PageSound, AsksFiled, Used, Asks
  <2>2. (\A m \in Asks : m # n => asks'[m] = asks[m]) /\ UNCHANGED <<threads, made>>
    BY <1>2 DEF Submitted
  <2>3. \A m \in Asks : Used(m) => m # n /\ asks[m].state # "unused"
    BY <2>1 DEF Used
  <2>4. \A m \in Asks : asks[m].home # None => m # n
    BY <2>1
  <2>5. QED
    BY <2>2, <2>3, <2>4, <1>0 DEF Grows
<1>3. ASSUME NEW i \in Tasks, Served(i) PROVE Grows
  BY <1>3, <1>0 DEF Served, Grows, Used, MoreThreads
<1>4. ASSUME NEW i \in Tasks, Taken(i) PROVE Grows
  BY <1>4, <1>0 DEF Taken, Grows, Used
<1>5. ASSUME NEW i \in Tasks, Shown(i) PROVE Grows
  BY <1>5, <1>0 DEF Shown, Grows, Used
<1>6. ASSUME NEW i \in Tasks, SendLost(i) PROVE Grows
  BY <1>6, <1>0 DEF SendLost, Grows, Used
<1>7. ASSUME NEW i \in Tasks, Listed(i) PROVE Grows
  BY <1>7, <1>0 DEF Listed, Grows, Used
<1>8. ASSUME NEW i \in Tasks, Failed(i) PROVE Grows
  BY <1>8, <1>0 DEF Failed, Grows, Used
<1>9. ASSUME NEW i \in Tasks, Removed(i) PROVE Grows
  BY <1>9, <1>0 DEF Removed, Grows, Used
<1>10. ASSUME NEW i \in Tasks, Chosen(i) PROVE Grows
  BY <1>10, <1>0 DEF Chosen, Grows, Used
<1>11. ASSUME NEW i \in Tasks, HistoryEnds(i) PROVE Grows
  BY <1>11, <1>0 DEF HistoryEnds, Grows, Used, HistoryShown
<1>12. ASSUME NEW i \in Tasks, RestoreBegins(i) PROVE Grows
  BY <1>12, <1>0 DEF RestoreBegins, Grows, Used, HistoryShown
<1>13. ASSUME NEW i \in Tasks, Waits(i) PROVE Grows
  BY <1>13, <1>0 DEF Waits, Grows, Used
<1>14. ASSUME NEW i \in Tasks, HasBeenShown(i) PROVE Grows
  BY <1>14, <1>0 DEF HasBeenShown, Grows, Used
<1>15. ASSUME NEW i \in Tasks, Polled(i) PROVE Grows
  BY <1>15, <1>0 DEF Polled, Grows, Used
<1>16. ASSUME NEW i \in Tasks, HitShown(i) PROVE Grows
  BY <1>16, <1>0 DEF HitShown, Grows, Used
<1>17. ASSUME NEW i \in Tasks, Restored(i) PROVE Grows
  BY <1>17, <1>0 DEF Restored, Grows, Used
<1>18. ASSUME NEW i \in Tasks, WaitsOn(i) PROVE Grows
  BY <1>18, <1>0 DEF WaitsOn, Grows, Used
<1>19. ASSUME NEW i \in Tasks, GivesUp(i) PROVE Grows
  BY <1>19, <1>0 DEF GivesUp, Grows, Used
<1>20. ASSUME Turned PROVE Grows
  BY <1>20, <1>0 DEF Turned, Grows, Used
<1>21. ASSUME Clicked PROVE Grows
  BY <1>21, <1>0 DEF Clicked, Grows, Used
<1>22. ASSUME Reloaded PROVE Grows
  BY <1>22, <1>0 DEF Reloaded, Grows, Used
<1>23. ASSUME UNCHANGED vars PROVE Grows
  BY <1>23, <1>0 DEF vars, server, page, Grows, Used
<1>24. QED
  BY <1>1, <1>2, <1>3, <1>4, <1>5, <1>6, <1>7, <1>8, <1>9, <1>10, <1>11, <1>12, <1>13,
     <1>14, <1>15, <1>16, <1>17, <1>18, <1>19, <1>20, <1>21, <1>22, <1>23, Zenon DEF PageStep

\* Where no question is asked or answered, all that may change is the one in flight.
LEMMA AsksStay ==
    ASSUME AsksFiled, UNCHANGED asks, inflight' \in {inflight, None}, made \in Nat, made' \in Nat,
           made <= made', asks \in [Asks -> Ask]
    PROVE  AsksFiled'
<1>1. \A n \in Asks : asks[n].home # None => asks[n].home <= made'
  <2>1. \A n \in Asks : asks[n].home \in Threads \cup {None}
    BY DEF Ask
  <2>2. \A t \in Threads : t \in Nat
    BY BoundsAreNat DEF Threads
  <2>3. QED
    BY <2>1, <2>2 DEF AsksFiled
<1>2. QED
  BY <1>1 DEF AsksFiled, Used

LEMMA AsksStep ==
    ASSUME PageSound, PageStep
    PROVE  AsksFiled'
<1>0. made \in Nat /\ made <= made
  BY MadeIs DEF PageSound
<1>1. ASSUME NEW n \in Asks, Answered(n) PROVE AsksFiled'
  <2>1. \A m \in Asks : asks'[m].state # "unused" <=> asks[m].state # "unused"
    BY <1>1 DEF Answered
  <2>2. \E h \in 0 .. MaxAsks : \A m \in Asks : asks'[m].state # "unused" <=> m <= h
    BY <2>1 DEF PageSound, AsksFiled, Used
  <2>3. ASSUME NEW m \in Asks
        PROVE  /\ asks'[m].home # None <=> asks'[m].state \in {"saved", "failed"}
               /\ asks'[m].home # None => asks'[m].home <= made' /\ asks'[m].thread \in {None, asks'[m].home}
    <3>1. asks[m].home \in Threads \cup {None} /\ \A t \in Threads : t \in Nat
      BY BoundsAreNat DEF PageSound, PageTypes, Ask, Threads
    <3>2. made \in Nat /\ made' \in Nat /\ made <= made' /\ None \notin Threads
      BY <1>1, <1>0, BoundsAreNat DEF Answered, MoreThreads
    <3>3. /\ asks[m].home # None <=> asks[m].state \in {"saved", "failed"}
          /\ asks[m].home # None => asks[m].home <= made /\ asks[m].thread \in {None, asks[m].home}
      BY DEF PageSound, AsksFiled
    <3>4. CASE m = n
      BY <1>1, <3>1, <3>2, <3>3, <3>4 DEF Answered
    <3>5. CASE m # n
      BY <1>1, <3>1, <3>2, <3>3, <3>5 DEF Answered
    <3>6. QED
      BY <3>4, <3>5
  <2>4. inflight' # None => /\ inflight'.ask \in Asks /\ asks'[inflight'.ask].state # "unused"
                            /\ asks'[inflight'.ask].thread = inflight'.thread
    <3>1. inflight' = inflight /\ \A m \in Asks : asks'[m].thread = asks[m].thread
      BY <1>1 DEF Answered
    <3>2. QED
      BY <2>1, <3>1 DEF PageSound, AsksFiled, Used
  <2>5. QED
    BY <2>2, <2>3, <2>4 DEF AsksFiled, Used
<1>2. ASSUME NEW n \in Asks, Submitted(n) PROVE AsksFiled'
  <2>1. \A m \in Asks : asks'[m].state # "unused" <=> m <= n
    BY <1>2, BoundsAreNat DEF Submitted, Used, Asks
  <2>2. n \in 0 .. MaxAsks
    BY BoundsAreNat DEF Asks
  <2>3. \A m \in Asks : /\ asks'[m].home # None <=> asks'[m].state \in {"saved", "failed"}
                        /\ asks'[m].home # None => /\ asks'[m].home <= made'
                                                   /\ asks'[m].thread \in {None, asks'[m].home}
    BY <1>2 DEF Submitted, PageSound, AsksFiled
  <2>4. /\ inflight'.ask \in Asks /\ asks'[inflight'.ask].state # "unused"
        /\ asks'[inflight'.ask].thread = inflight'.thread
    BY <1>2 DEF Submitted
  <2>5. QED
    BY <2>1, <2>2, <2>3, <2>4 DEF AsksFiled, Used
<1>3. ASSUME NEW i \in Tasks, Served(i) PROVE AsksFiled'
  BY <1>3, <1>0, AsksStay, BoundsAreNat DEF Served, MoreThreads, PageSound, PageTypes
<1>4. ASSUME NEW i \in Tasks, Taken(i) PROVE AsksFiled'
  BY <1>4, <1>0, AsksStay DEF Taken, PageSound, PageTypes
<1>5. ASSUME NEW i \in Tasks, Shown(i) PROVE AsksFiled'
  BY <1>5, <1>0, AsksStay DEF Shown, PageSound, PageTypes
<1>6. ASSUME NEW i \in Tasks, SendLost(i) PROVE AsksFiled'
  BY <1>6, <1>0, AsksStay DEF SendLost, PageSound, PageTypes
<1>7. ASSUME NEW i \in Tasks, Listed(i) PROVE AsksFiled'
  BY <1>7, <1>0, AsksStay DEF Listed, PageSound, PageTypes
<1>8. ASSUME NEW i \in Tasks, Failed(i) PROVE AsksFiled'
  BY <1>8, <1>0, AsksStay DEF Failed, PageSound, PageTypes
<1>9. ASSUME NEW i \in Tasks, Removed(i) PROVE AsksFiled'
  BY <1>9, <1>0, AsksStay DEF Removed, PageSound, PageTypes
<1>10. ASSUME NEW i \in Tasks, Chosen(i) PROVE AsksFiled'
  BY <1>10, <1>0, AsksStay DEF Chosen, PageSound, PageTypes
<1>11. ASSUME NEW i \in Tasks, HistoryEnds(i) PROVE AsksFiled'
  BY <1>11, <1>0, AsksStay DEF HistoryEnds, HistoryShown, PageSound, PageTypes
<1>12. ASSUME NEW i \in Tasks, RestoreBegins(i) PROVE AsksFiled'
  BY <1>12, <1>0, AsksStay DEF RestoreBegins, HistoryShown, PageSound, PageTypes
<1>13. ASSUME NEW i \in Tasks, Waits(i) PROVE AsksFiled'
  BY <1>13, <1>0, AsksStay DEF Waits, PageSound, PageTypes
<1>14. ASSUME NEW i \in Tasks, HasBeenShown(i) PROVE AsksFiled'
  BY <1>14, <1>0, AsksStay DEF HasBeenShown, PageSound, PageTypes
<1>15. ASSUME NEW i \in Tasks, Polled(i) PROVE AsksFiled'
  BY <1>15, <1>0, AsksStay DEF Polled, PageSound, PageTypes
<1>16. ASSUME NEW i \in Tasks, HitShown(i) PROVE AsksFiled'
  BY <1>16, <1>0, AsksStay DEF HitShown, PageSound, PageTypes
<1>17. ASSUME NEW i \in Tasks, Restored(i) PROVE AsksFiled'
  BY <1>17, <1>0, AsksStay DEF Restored, PageSound, PageTypes
<1>18. ASSUME NEW i \in Tasks, WaitsOn(i) PROVE AsksFiled'
  BY <1>18, <1>0, AsksStay DEF WaitsOn, PageSound, PageTypes
<1>19. ASSUME NEW i \in Tasks, GivesUp(i) PROVE AsksFiled'
  BY <1>19, <1>0, AsksStay DEF GivesUp, PageSound, PageTypes
<1>20. ASSUME Turned PROVE AsksFiled'
  BY <1>20, <1>0, AsksStay DEF Turned, PageSound, PageTypes
<1>21. ASSUME Clicked PROVE AsksFiled'
  BY <1>21, <1>0, AsksStay DEF Clicked, PageSound, PageTypes
<1>22. ASSUME Reloaded PROVE AsksFiled'
  BY <1>22, <1>0, AsksStay DEF Reloaded, PageSound, PageTypes
<1>23. ASSUME UNCHANGED vars PROVE AsksFiled'
  BY <1>23, <1>0, AsksStay DEF vars, server, page, PageSound, PageTypes
<1>24. QED
  BY <1>1, <1>2, <1>3, <1>4, <1>5, <1>6, <1>7, <1>8, <1>9, <1>10, <1>11, <1>12, <1>13,
     <1>14, <1>15, <1>16, <1>17, <1>18, <1>19, <1>20, <1>21, <1>22, <1>23, Zenon DEF PageStep

-----------------------------------------------------------------------------
(* The tasks.                                                              *)

\* What TasksSound says of one task, with the questions `a`.
Knows(t, a) ==
    /\ Fits(t.kind, t.stage)
    /\ t.kind = "send" => /\ t.ask \in Asks /\ a[t.ask].state # "unused"
                          /\ a[t.ask].thread = t.scope
    /\ t.stage \in {"finding", "waiting", "polling"} => t.ask \in Asks /\ a[t.ask].state # "unused"
    /\ t.stage = "finding" => a[t.ask].thread \in {None, t.scope}
    /\ t.reply = "none" => t.seen = {}
    /\ t.stage \in {"list", "refreshing", "creating"} => t.seen \subseteq Threads
    /\ t.stage = "creating" /\ t.reply = "served" => t.seen # {}
    /\ t.stage \in {"history", "finding", "polling"} => \A n \in t.seen :
          /\ n \in Asks /\ a[n].home # None /\ t.scope \in {None, a[n].home}
          /\ t.stage = "history" => a[n].state = "saved"

LEMMA TasksKnow ==
    ASSUME PageSound
    PROVE  /\ \A i \in Tasks : Knows(tasks[i], asks)
           /\ \A i \in Tasks : i > started => tasks[i].stage = "ended"
           /\ \A i, j \in Tasks : tasks[i].kind = "init" /\ tasks[j].kind = "init"
                               /\ tasks[i].stage # "ended" /\ tasks[j].stage # "ended" => i = j
<1>1. ASSUME NEW i \in Tasks PROVE Knows(tasks[i], asks)
  <2>1. Fits(tasks[i].kind, tasks[i].stage)
    BY TaskIs
  <2>2. QED
    BY <2>1 DEF PageSound, TasksSound, Knows, Used
<1>2. \A i \in Tasks : i > started => tasks[i].stage = "ended"
  BY DEF PageSound, TasksSound
<1>3. \A i, j \in Running : tasks[i].kind = "init" /\ tasks[j].kind = "init" => i = j
  BY DEF PageSound, TasksSound
<1>4. QED
  BY <1>1, <1>2, <1>3, Zenon DEF Running

\* Then they are sound.
LEMMA KnownAreSound ==
    ASSUME PageTypes', \A i \in Tasks : Knows(tasks'[i], asks'),
           \A i \in Tasks : i > started' => tasks'[i].stage = "ended",
           \A i, j \in Tasks : tasks'[i].kind = "init" /\ tasks'[j].kind = "init"
                            /\ tasks'[i].stage # "ended" /\ tasks'[j].stage # "ended" => i = j
    PROVE  TasksSound'
<1>1. ASSUME NEW i \in Tasks PROVE tasks'[i].stage \in StagesOf[tasks'[i].kind]
  <2>1. tasks'[i] \in Task
    BY DEF PageTypes
  <2>2. QED
    BY <2>1, StagesAre DEF Knows, Task
<1>2. QED
  BY <1>1 DEF TasksSound, Knows, Used, Running

\* What a task knows stays true.
LEMMA KnowsOn ==
    ASSUME Grows, PageTypes, NEW t \in Task, Knows(t, asks)
    PROVE  Knows(t, asks')
<1>1. \A n \in Asks : asks[n].state # "unused" =>
         asks'[n].state # "unused" /\ asks'[n].thread = asks[n].thread
  BY DEF Grows, Used
<1>2. \A n \in Asks : asks[n].home # None =>
         asks'[n].home = asks[n].home /\ asks'[n].state = asks[n].state
  BY DEF Grows
<1>3. t.kind = "init" \/ t.stage # "finding"
  BY DEF Knows, Fits
<1>4. QED
  BY <1>1, <1>2, <1>3 DEF Knows

\* A step of one task.
LEMMA OneTask ==
    ASSUME PageSound, PageTypes', Grows, NEW i \in Tasks, Only(i), Knows(tasks'[i], asks'),
           started <= started', i <= started',
           tasks'[i].kind = "init" => tasks[i].kind = "init" /\ tasks[i].stage # "ended"
    PROVE  TasksSound'
<1>1. started \in Nat /\ started' \in Nat /\ \A j \in Tasks : j \in Nat
  BY BoundsAreNat DEF PageSound, PageTypes, Tasks
<1>2. ASSUME NEW j \in Tasks PROVE Knows(tasks'[j], asks')
  <2>1. CASE j = i
    BY <2>1
  <2>2. CASE j # i
    <3>1. tasks'[j] = tasks[j] /\ tasks[j] \in Task /\ Knows(tasks[j], asks) /\ PageTypes
      BY <2>2, TasksKnow DEF Only, PageSound, PageTypes
    <3>2. QED
      BY <3>1, KnowsOn
  <2>3. QED
    BY <2>1, <2>2
<1>3. ASSUME NEW j \in Tasks, j > started' PROVE tasks'[j].stage = "ended"
  <2>1. j # i /\ j > started
    BY <1>1, <1>3
  <2>2. QED
    BY <2>1, TasksKnow DEF Only
<1>4. ASSUME NEW j \in Tasks, NEW k \in Tasks, tasks'[j].kind = "init", tasks'[k].kind = "init",
             tasks'[j].stage # "ended", tasks'[k].stage # "ended"
      PROVE  j = k
  <2>1. /\ tasks[j].kind = "init" /\ tasks[j].stage # "ended"
        /\ tasks[k].kind = "init" /\ tasks[k].stage # "ended"
    BY <1>4 DEF Only
  <2>2. QED
    BY <2>1, TasksKnow
<1>5. /\ \A j \in Tasks : Knows(tasks'[j], asks')
      /\ \A j \in Tasks : j > started' => tasks'[j].stage = "ended"
      /\ \A j, k \in Tasks : tasks'[j].kind = "init" /\ tasks'[k].kind = "init"
                          /\ tasks'[j].stage # "ended" /\ tasks'[k].stage # "ended" => j = k
  BY <1>2, <1>3, <1>4, Zenon
<1>6. QED
  BY <1>5, KnownAreSound, Zenon

LEMMA StartedIs ==
    ASSUME PageSound
    PROVE  /\ started \in Nat /\ started <= started /\ started <= started + 1 /\ started + 1 <= started + 1
           /\ \A i \in Tasks : tasks[i].stage # "ended" => i <= started
<1>1. started \in Nat /\ \A i \in Tasks : i \in Nat
  BY BoundsAreNat DEF PageSound, PageTypes, Tasks
<1>2. QED
  BY <1>1, TaskIs

\* A task that stops, or starts.
LEMMA BlankKnows ==
    ASSUME NEW t, NEW a, Blank(t)
    PROVE  Knows(t, a)
BY DEF Blank, Knows, Fits

LEMMA FreshKnows ==
    ASSUME NEW t, NEW a, NEW kind, NEW stage, NEW scope, Fresh(t, kind, stage, scope), Fits(kind, stage),
           kind # "send", stage \notin {"finding", "waiting", "polling"}
    PROVE  Knows(t, a)
BY DEF Fresh, Knows

\* A task that goes on to another stage.
LEMMA WentKnows ==
    ASSUME NEW t, NEW q, NEW a, NEW stage, NEW scope, Knows(t, a), Went(t, q, stage, scope),
           Fits(t.kind, stage), stage # "finding", t.kind = "send" => scope = t.scope,
           stage \in {"waiting", "polling"} => t.stage \in {"finding", "waiting", "polling"}
    PROVE  Knows(q, a)
BY DEF Knows, Went

LEMMA TasksStep ==
    ASSUME PageSound, PageStep
    PROVE  TasksSound'
<1>0. /\ PageTypes /\ PageTypes' /\ Grows /\ started \in Nat /\ started <= started
      /\ \A i \in Tasks : tasks[i].stage # "ended" => i <= started
      /\ \A i \in Tasks : tasks[i].kind = "send" => tasks[i].stage # "ended"
      /\ \A i \in Tasks : tasks[i].kind \in {"list", "create", "delete"} => tasks[i].stage # "ended"
  <2>1. \A i \in Tasks : Fits(tasks[i].kind, tasks[i].stage)
    BY TaskIs
  <2>2. QED
    BY <2>1, TypesStep, GrowsStep, StartedIs DEF PageSound, Fits
<1>1. ASSUME NEW n \in Asks, Answered(n) PROVE TasksSound'
  <2>1. \A i \in Tasks : Knows(tasks[i], asks')
    BY <1>0, TasksKnow, KnowsOn DEF PageTypes
  <2>2. QED
    BY <1>1, <1>0, <2>1, TasksKnow, KnownAreSound DEF Answered
<1>2. ASSUME NEW n \in Asks, Submitted(n) PROVE TasksSound'
  <2>1. Knows(tasks'[started + 1], asks')
    BY <1>2 DEF Submitted, Knows, Fits
  <2>2. QED
    BY <1>2, <1>0, <2>1, StartedIs, OneTask DEF Submitted
<1>3. ASSUME NEW i \in Tasks, Served(i) PROVE TasksSound'
  <2>1. Knows(tasks'[i], asks')
    <3>1. Knows(tasks[i], asks)
      BY TasksKnow
    <3>2. tasks[i].stage \in {"history", "finding", "polling"} => \A n \in tasks'[i].seen :
             /\ n \in Asks /\ asks[n].home # None /\ tasks[i].scope \in {None, asks[n].home}
             /\ tasks[i].stage = "history" => asks[n].state = "saved"
      BY <1>3 DEF Served, RecordsOf, HasRecord, PageSound, AsksFiled
    <3>3. QED
      BY <1>3, <3>1, <3>2 DEF Served, Knows
  <2>2. QED
    BY <1>3, <1>0, <2>1, OneTask DEF Served
<1>4. ASSUME NEW i \in Tasks, Taken(i) PROVE TasksSound'
  <2>1. Knows(tasks'[i], asks')
    BY <1>4, <1>0, WentKnows, TasksKnow DEF Taken, GoesTo, Fits
  <2>2. QED
    BY <1>4, <1>0, <2>1, OneTask DEF Taken, GoesTo, Went
<1>5. ASSUME NEW i \in Tasks, Shown(i) PROVE TasksSound'
  BY <1>5, <1>0, BlankKnows, OneTask DEF Shown, Stops, Blank
<1>6. ASSUME NEW i \in Tasks, SendLost(i) PROVE TasksSound'
  BY <1>6, <1>0, BlankKnows, OneTask DEF SendLost, Stops, Blank
<1>7. ASSUME NEW i \in Tasks, Listed(i) PROVE TasksSound'
  BY <1>7, <1>0, BlankKnows, OneTask DEF Listed, Stops, Blank
<1>8. ASSUME NEW i \in Tasks, Failed(i) PROVE TasksSound'
  BY <1>8, <1>0, BlankKnows, OneTask DEF Failed, Stops, Blank
<1>9. ASSUME NEW i \in Tasks, Removed(i) PROVE TasksSound'
  <2>1. Knows(tasks'[i], asks')
    BY <1>9, <1>0, WentKnows, TasksKnow DEF Removed, GoesTo, Fits
  <2>2. QED
    BY <1>9, <1>0, <2>1, OneTask DEF Removed, GoesTo, Went
<1>10. ASSUME NEW i \in Tasks, Chosen(i) PROVE TasksSound'
  <2>1. Knows(tasks'[i], asks')
    BY <1>10, <1>0, WentKnows, TasksKnow DEF Chosen, GoesTo, Fits
  <2>2. QED
    BY <1>10, <1>0, <2>1, OneTask DEF Chosen, GoesTo, Went
<1>11. ASSUME NEW i \in Tasks, HistoryEnds(i) PROVE TasksSound'
  BY <1>11, <1>0, BlankKnows, OneTask DEF HistoryEnds, Stops, Blank, HistoryShown
<1>12. ASSUME NEW i \in Tasks, RestoreBegins(i) PROVE TasksSound'
  <2>1. Knows(tasks'[i], asks')
    BY <1>12 DEF RestoreBegins, HistoryShown, Knows, Fits, PageSound, AsksFiled, Used
  <2>2. QED
    BY <1>12, <1>0, <2>1, OneTask DEF RestoreBegins, HistoryShown
<1>13. ASSUME NEW i \in Tasks, Waits(i) PROVE TasksSound'
  <2>1. Knows(tasks'[i], asks')
    BY <1>13, <1>0, WentKnows, TasksKnow DEF Waits, GoesTo, Fits
  <2>2. QED
    BY <1>13, <1>0, <2>1, OneTask DEF Waits, GoesTo, Went
<1>14. ASSUME NEW i \in Tasks, HasBeenShown(i) PROVE TasksSound'
  BY <1>14, <1>0, BlankKnows, OneTask DEF HasBeenShown, Stops, Blank
<1>15. ASSUME NEW i \in Tasks, Polled(i) PROVE TasksSound'
  <2>1. Knows(tasks'[i], asks')
    BY <1>15, <1>0, WentKnows, TasksKnow DEF Polled, GoesTo, Fits
  <2>2. QED
    BY <1>15, <1>0, <2>1, OneTask DEF Polled, GoesTo, Went
<1>16. ASSUME NEW i \in Tasks, HitShown(i) PROVE TasksSound'
  <2>1. Knows(tasks'[i], asks')
    BY <1>16, <1>0, WentKnows, TasksKnow DEF HitShown, GoesTo, Fits
  <2>2. QED
    BY <1>16, <1>0, <2>1, OneTask DEF HitShown, GoesTo, Went
<1>17. ASSUME NEW i \in Tasks, Restored(i) PROVE TasksSound'
  BY <1>17, <1>0, BlankKnows, OneTask DEF Restored, Stops, Blank
<1>18. ASSUME NEW i \in Tasks, WaitsOn(i) PROVE TasksSound'
  <2>1. Knows(tasks'[i], asks')
    BY <1>18, <1>0, WentKnows, TasksKnow DEF WaitsOn, GoesTo, Fits
  <2>2. QED
    BY <1>18, <1>0, <2>1, OneTask DEF WaitsOn, GoesTo, Went
<1>19. ASSUME NEW i \in Tasks, GivesUp(i) PROVE TasksSound'
  BY <1>19, <1>0, BlankKnows, OneTask DEF GivesUp, Stops, Blank
<1>20. ASSUME Turned PROVE TasksSound'
  <2>1. PICK id, kind, ending : Changed(id, kind, ending)
    BY <1>20 DEF Turned
  <2>2. asks' = asks /\ started' = started + 1 /\ \A i \in Tasks : Knows(tasks[i], asks)
    BY <1>20, <2>1, TasksKnow DEF Turned, Changed
  <2>3. ASSUME NEW i \in Tasks
        PROVE  /\ Knows(tasks'[i], asks')
               /\ i # started + 1 /\ tasks[i].stage = "ended" => tasks'[i].stage = "ended"
               /\ tasks'[i].kind = "init" /\ tasks'[i].stage # "ended" =>
                     tasks[i].kind = "init" /\ tasks[i].stage # "ended"
    <3>1. CASE i = started + 1
      BY <2>1, <3>1, FreshKnows DEF Changed, Fits, Fresh
    <3>2. CASE i # started + 1 /\ i \in ending
      BY <2>1, <3>2, BlankKnows DEF Changed, Blank
    <3>3. CASE i # started + 1 /\ i \notin ending
      <4>1. Overtaken(tasks[i], tasks'[i])
        BY <2>1, <3>3 DEF Changed
      <4>2. Knows(tasks'[i], asks')
        BY <2>2, <4>1 DEF Overtaken, Knows
      <4>3. QED
        BY <3>3, <4>1, <4>2 DEF Overtaken
    <3>4. QED
      BY <3>1, <3>2, <3>3
  <2>4. \A i \in Tasks : i > started' => tasks'[i].stage = "ended"
    <3>1. \A i \in Tasks : i > started + 1 => i # started + 1 /\ i > started
      BY <1>0 DEF Tasks
    <3>2. QED
      BY <2>2, <2>3, <3>1, TasksKnow
  <2>5. \A j, k \in Tasks : tasks'[j].kind = "init" /\ tasks'[k].kind = "init"
                           /\ tasks'[j].stage # "ended" /\ tasks'[k].stage # "ended" => j = k
    BY <2>3, TasksKnow
  <2>6. \A j \in Tasks : Knows(tasks'[j], asks')
    BY <2>3
  <2>7. PageTypes'
    BY <1>0
  <2>8. QED
    BY <2>4, <2>5, <2>6, <2>7, KnownAreSound, Zenon
<1>21. ASSUME Clicked PROVE TasksSound'
  <2>1. Knows(tasks'[started + 1], asks')
    BY <1>21, FreshKnows DEF Clicked, Fits
  <2>2. QED
    BY <1>21, <1>0, <2>1, StartedIs, OneTask DEF Clicked, Fresh
<1>22. ASSUME Reloaded PROVE TasksSound'
  <2>1. \A i \in Tasks : Knows(tasks'[i], asks')
    <3>1. Knows(tasks'[started + 1], asks')
      BY <1>22, FreshKnows DEF Reloaded, Fits
    <3>2. QED
      BY <1>22, <3>1, BlankKnows DEF Reloaded
  <2>2. /\ \A i \in Tasks : i # started + 1 => tasks'[i].stage = "ended"
        /\ \A i \in Tasks : i > started' => i # started + 1
    BY <1>22, <1>0 DEF Reloaded, Blank, Tasks
  <2>3. /\ \A i \in Tasks : i > started' => tasks'[i].stage = "ended"
        /\ \A j, k \in Tasks : tasks'[j].kind = "init" /\ tasks'[k].kind = "init"
                            /\ tasks'[j].stage # "ended" /\ tasks'[k].stage # "ended" => j = k
    BY <2>2, Zenon
  <2>4. PageTypes'
    BY <1>0
  <2>5. QED
    BY <2>1, <2>3, <2>4, KnownAreSound, Zenon
<1>23. ASSUME UNCHANGED vars PROVE TasksSound'
  <2>1. asks' = asks /\ tasks' = tasks /\ started' = started
    BY <1>23 DEF vars, server
  <2>2. QED
    BY <1>0, <2>1, TasksKnow, KnownAreSound
<1>24. QED
  BY <1>1, <1>2, <1>3, <1>4, <1>5, <1>6, <1>7, <1>8, <1>9, <1>10, <1>11, <1>12, <1>13,
     <1>14, <1>15, <1>16, <1>17, <1>18, <1>19, <1>20, <1>21, <1>22, <1>23, Zenon DEF PageStep

-----------------------------------------------------------------------------
(* The bubbles.                                                            *)

Loads == {"asking", "history", "waiting", "polling"}

\* What BubblesSound says of one bubble, with the tasks `ts`, the questions `a` and `s` tasks started.
Tells(b, ts, a, s) ==
    /\ b.task <= s
    /\ b.what = "loading" => ts[b.task].stage \in Loads
    /\ b.what = "answer" => b.ask \in Asks /\ a[b.ask].state = "saved"
    /\ b.ask # None => b.ask \in Asks /\ a[b.ask].state # "unused"

LEMMA BubblesTell ==
    ASSUME BubblesSound
    PROVE  \A b \in window : Tells(b, tasks, asks, started)
BY DEF BubblesSound, Tells, Used, Loads

LEMMA TellingAreSound ==
    ASSUME \A b \in window' : Tells(b, tasks', asks', started')
    PROVE  BubblesSound'
BY DEF BubblesSound, Tells, Used, Loads

\* What a bubble knows stays true as long as its task says it is loading.
LEMMA TellsOn ==
    ASSUME PageSound, BubblesSound, Grows, started' \in Nat, started <= started', NEW b \in window,
           b.what = "loading" => tasks'[b.task].stage \in Loads
    PROVE  Tells(b, tasks', asks', started')
<1>1. Tells(b, tasks, asks, started) /\ b \in Bubble
  BY BubblesTell DEF PageSound, PageTypes
<1>2. b.task \in Nat /\ started \in Nat
  BY <1>1, BoundsAreNat DEF Bubble, Tasks, PageSound, PageTypes
<1>3. b.ask \in Asks /\ asks[b.ask].state = "saved" => asks[b.ask].home # None
  BY DEF PageSound, AsksFiled
<1>4. QED
  BY <1>1, <1>2, <1>3 DEF Tells, Grows, Used

\* A step of one task, that adds bubbles and takes its loading one away when it ends to load.
LEMMA OneTasksBubbles ==
    ASSUME PageSound, BubblesSound, Grows, started' \in Nat, started <= started',
           NEW i \in Tasks, Only(i),
           \A b \in window' :
              \/ b \in WithoutLoading(i)
              \/ b \in window /\ (tasks[i].stage \in Loads => tasks'[i].stage \in Loads)
              \/ Tells(b, tasks', asks', started')
    PROVE  BubblesSound'
<1>1. ASSUME NEW b \in window, b.what = "loading",
             b \in WithoutLoading(i) \/ (tasks[i].stage \in Loads => tasks'[i].stage \in Loads)
      PROVE  tasks'[b.task].stage \in Loads
  <2>1. Tells(b, tasks, asks, started) /\ b.task \in Tasks
    BY BubblesTell DEF PageSound, PageTypes, Bubble
  <2>2. CASE b.task = i
    BY <1>1, <2>1, <2>2 DEF Tells, WithoutLoading
  <2>3. CASE b.task # i
    BY <1>1, <2>1, <2>3 DEF Tells, Only
  <2>4. QED
    BY <2>2, <2>3
<1>2. ASSUME NEW b \in window' PROVE Tells(b, tasks', asks', started')
  <2>1. CASE b \in window /\ (b \in WithoutLoading(i) \/ (tasks[i].stage \in Loads => tasks'[i].stage \in Loads))
    BY <1>1, <2>1, TellsOn
  <2>2. CASE Tells(b, tasks', asks', started')
    BY <2>2
  <2>3. QED
    BY <2>1, <2>2 DEF WithoutLoading
<1>3. QED
  BY <1>2, TellingAreSound

\* A new bubble.
LEMMA SaysTells ==
    ASSUME NEW b, NEW what, NEW n, NEW scope, NEW i, NEW moved, Says(b, what, n, scope, i, moved),
           i <= started', what = "loading" => tasks'[i].stage \in Loads,
           n # None => n \in Asks /\ asks'[n].state # "unused",
           what = "answer" => n \in Asks /\ asks'[n].state = "saved"
    PROVE  Tells(b, tasks', asks', started')
BY DEF Says, Tells

LEMMA BubblesStep ==
    ASSUME PageSound, BubblesSound, PageStep
    PROVE  BubblesSound'
<1>0. /\ PageTypes /\ Grows /\ started \in Nat /\ started' \in Nat /\ started <= started
      /\ started <= started + 1 /\ started + 1 <= started + 1
      /\ \A i \in Tasks : tasks[i].stage # "ended" => i <= started
      /\ started + 1 \in Tasks => tasks[started + 1].stage = "ended"
  <2>1. started \in Nat /\ started' \in Nat
    BY TypesStep, BoundsAreNat DEF PageSound, PageTypes, Tasks
  <2>2. started + 1 > started
    BY <2>1
  <2>3. QED
    BY <2>1, <2>2, TaskIs, GrowsStep, StartedIs DEF PageSound
<1>1. ASSUME NEW n \in Asks, Answered(n) PROVE BubblesSound'
  <2>1. \A b \in window : b.what = "loading" => tasks'[b.task].stage \in Loads
    BY <1>1, BubblesTell DEF Answered, Tells
  <2>2. QED
    BY <1>1, <1>0, <2>1, TellsOn, TellingAreSound DEF Answered
<1>2. ASSUME NEW n \in Asks, Submitted(n) PROVE BubblesSound'
  <2> DEFINE i == started + 1
  <2>1. /\ i \in Tasks /\ Only(i) /\ started' = i /\ tasks'[i].stage \in Loads
        /\ asks'[n].state # "unused" /\ started <= i /\ i <= i
    BY <1>2, <1>0 DEF Submitted, Loads
  <2>2. PICK b, c : /\ window' = window \cup {b, c}
                    /\ Says(b, "question", n, current, i, FALSE)
                    /\ Says(c, "loading", n, current, i, FALSE)
    BY <1>2 DEF Submitted
  <2> HIDE DEF i
  <2>3. Tells(b, tasks', asks', started') /\ Tells(c, tasks', asks', started')
    BY <1>0, <2>1, <2>2, SaysTells
  <2>4. \A q \in window' : \/ q \in window /\ (tasks[i].stage \in Loads => tasks'[i].stage \in Loads)
                          \/ Tells(q, tasks', asks', started')
    BY <2>1, <2>2, <2>3
  <2>5. QED
    BY <1>0, <2>1, <2>4, OneTasksBubbles
<1>3. ASSUME NEW i \in Tasks, Served(i) PROVE BubblesSound'
  BY <1>3, <1>0, OneTasksBubbles DEF Served, Loads
<1>4. ASSUME NEW i \in Tasks, Taken(i) PROVE BubblesSound'
  BY <1>4, <1>0, OneTasksBubbles DEF Taken, GoesTo, Went, Loads
<1>5. ASSUME NEW i \in Tasks, Shown(i) PROVE BubblesSound'
  <2>1. PICK b, w : /\ window' = window \cup {b}
                    /\ Says(b, w, tasks[i].ask, tasks[i].scope, i, tasks[i].moved)
                    /\ w = "error" \/ (w = "answer" /\ asks[tasks[i].ask].state = "saved")
    BY <1>5 DEF Shown
  <2>2. /\ tasks[i].ask \in Asks /\ asks'[tasks[i].ask].state # "unused" /\ asks' = asks
        /\ i <= started' /\ started <= started' /\ Only(i) /\ tasks[i].stage \notin Loads
    BY <1>5, <1>0, TasksKnow DEF Shown, Knows, Stops, Loads
  <2>3. Tells(b, tasks', asks', started')
    BY <2>1, <2>2, SaysTells
  <2>4. QED
    BY <1>0, <2>1, <2>2, <2>3, OneTasksBubbles
<1>6. ASSUME NEW i \in Tasks, SendLost(i) PROVE BubblesSound'
  BY <1>6, <1>0, OneTasksBubbles DEF SendLost, Stops, Loads, Blank
<1>7. ASSUME NEW i \in Tasks, Listed(i) PROVE BubblesSound'
  BY <1>7, <1>0, OneTasksBubbles DEF Listed, Stops, Loads, Blank
<1>8. ASSUME NEW i \in Tasks, Failed(i) PROVE BubblesSound'
  <2>1. tasks[i].stage \notin Loads
    BY <1>8, TaskIs DEF Failed, Fits, Loads
  <2>2. QED
    BY <1>8, <1>0, <2>1, OneTasksBubbles DEF Failed, Stops
<1>9. ASSUME NEW i \in Tasks, Removed(i) PROVE BubblesSound'
  BY <1>9, <1>0, OneTasksBubbles DEF Removed, GoesTo, Went, Loads
<1>10. ASSUME NEW i \in Tasks, Chosen(i) PROVE BubblesSound'
  <2>1. PICK b : /\ window' = window \cup {b}
                 /\ Says(b, "loading", None, current', i, tasks[i].moved)
    BY <1>10 DEF Chosen
  <2>2. Only(i) /\ tasks'[i].stage \in Loads /\ i <= started' /\ started <= started'
    BY <1>10, <1>0 DEF Chosen, GoesTo, Went, Loads
  <2>3. Tells(b, tasks', asks', started')
    BY <2>1, <2>2, SaysTells
  <2>4. QED
    BY <1>0, <2>1, <2>2, <2>3, OneTasksBubbles
<1>11. ASSUME NEW i \in Tasks, HistoryEnds(i) PROVE BubblesSound'
  <2>1. \A n \in tasks[i].seen : n \in Asks /\ asks[n].state = "saved" /\ asks' = asks
    BY <1>11, TasksKnow DEF HistoryEnds, HistoryShown, Knows
  <2>2. i <= started' /\ started <= started' /\ Only(i) /\ PageTypes
    BY <1>11, <1>0 DEF HistoryEnds, HistoryShown, Stops
  <2>3. ASSUME NEW n \in tasks[i].seen, NEW w \in {"question", "answer"}
        PROVE  Tells(Put(i, w, n), tasks', asks', started')
    <3>1. Says(Put(i, w, n), w, n, tasks[i].scope, i, tasks[i].moved)
      BY <2>1, <2>2, PutIs DEF What
    <3>2. QED
      BY <2>1, <2>2, <3>1, SaysTells
  <2>4. \A b \in window' : b \in WithoutLoading(i) \/ Tells(b, tasks', asks', started')
    BY <1>11, <2>3 DEF HistoryEnds, HistoryShown
  <2>5. QED
    BY <1>0, <2>2, <2>4, OneTasksBubbles
<1>12. ASSUME NEW i \in Tasks, RestoreBegins(i) PROVE BubblesSound'
  <2>1. \A n \in tasks[i].seen : n \in Asks /\ asks[n].state = "saved" /\ asks' = asks
    BY <1>12, TasksKnow DEF RestoreBegins, HistoryShown, Knows
  <2>2. i <= started' /\ started <= started' /\ Only(i) /\ PageTypes
    BY <1>12, <1>0 DEF RestoreBegins, HistoryShown
  <2>3. ASSUME NEW n \in tasks[i].seen, NEW w \in {"question", "answer"}
        PROVE  Tells(Put(i, w, n), tasks', asks', started')
    <3>1. Says(Put(i, w, n), w, n, tasks[i].scope, i, tasks[i].moved)
      BY <2>1, <2>2, PutIs DEF What
    <3>2. QED
      BY <2>1, <2>2, <3>1, SaysTells
  <2>4. \A b \in window' : b \in WithoutLoading(i) \/ Tells(b, tasks', asks', started')
    BY <1>12, <2>3 DEF RestoreBegins, HistoryShown
  <2>5. QED
    BY <1>0, <2>2, <2>4, OneTasksBubbles
<1>13. ASSUME NEW i \in Tasks, Waits(i) PROVE BubblesSound'
  <2>1. PICK b, c : /\ window' = window \cup {b, c}
                    /\ Says(b, "question", tasks[i].ask, current, i, tasks[i].moved)
                    /\ Says(c, "loading", tasks[i].ask, current, i, tasks[i].moved)
    BY <1>13 DEF Waits
  <2>2. /\ Only(i) /\ tasks'[i].stage \in Loads /\ i <= started' /\ started <= started'
        /\ tasks[i].ask \in Asks /\ asks'[tasks[i].ask].state # "unused"
    BY <1>13, <1>0, TasksKnow DEF Waits, GoesTo, Went, Loads, Knows
  <2>3. Tells(b, tasks', asks', started') /\ Tells(c, tasks', asks', started')
    BY <2>1, <2>2, SaysTells
  <2>4. QED
    BY <1>0, <2>1, <2>2, <2>3, OneTasksBubbles
<1>14. ASSUME NEW i \in Tasks, HasBeenShown(i) PROVE BubblesSound'
  BY <1>14, <1>0, OneTasksBubbles DEF HasBeenShown, Stops, Loads, Blank
<1>15. ASSUME NEW i \in Tasks, Polled(i) PROVE BubblesSound'
  BY <1>15, <1>0, OneTasksBubbles DEF Polled, GoesTo, Went, Loads
<1>16. ASSUME NEW i \in Tasks, HitShown(i) PROVE BubblesSound'
  <2>0. PICK n \in Hits(i) : \E b, w :
          /\ window' = WithoutLoading(i) \cup {b}
          /\ Says(b, w, n, tasks[i].scope, i, tasks[i].moved)
          /\ w = "error" \/ (w = "answer" /\ asks[n].state = "saved")
    BY <1>16 DEF HitShown
  <2>1. PICK b, w :
          /\ window' = WithoutLoading(i) \cup {b}
          /\ Says(b, w, n, tasks[i].scope, i, tasks[i].moved)
          /\ w = "error" \/ (w = "answer" /\ asks[n].state = "saved")
    BY <2>0
  <2>2. /\ n \in Asks /\ asks[n].home # None /\ asks' = asks /\ i <= started' /\ Only(i)
        /\ started <= started'
    BY <1>16, <1>0, TasksKnow DEF HitShown, Knows, Hits, GoesTo
  <2>3. asks[n].state # "unused"
    BY <2>2 DEF PageSound, AsksFiled
  <2>4. Tells(b, tasks', asks', started')
    BY <2>1, <2>2, <2>3, SaysTells
  <2>5. QED
    BY <1>0, <2>1, <2>2, <2>4, OneTasksBubbles
<1>17. ASSUME NEW i \in Tasks, Restored(i) PROVE BubblesSound'
  BY <1>17, <1>0, OneTasksBubbles DEF Restored, Stops, Loads, Blank, Enabled
<1>18. ASSUME NEW i \in Tasks, WaitsOn(i) PROVE BubblesSound'
  BY <1>18, <1>0, OneTasksBubbles DEF WaitsOn, GoesTo, Went, Loads
<1>19. ASSUME NEW i \in Tasks, GivesUp(i) PROVE BubblesSound'
  BY <1>19, <1>0, OneTasksBubbles DEF GivesUp, Stops, Loads, Blank, Enabled
<1>20. ASSUME Turned PROVE BubblesSound'
  <2>1. PICK id, kind, ending : Changed(id, kind, ending)
    BY <1>20 DEF Turned
  <2>2. ASSUME NEW b \in window' PROVE Tells(b, tasks', asks', started')
    BY <1>0, <2>1, <2>2, SaysTells DEF Changed, Fresh, Loads
  <2>3. QED
    BY <2>2, TellingAreSound
<1>21. ASSUME Clicked PROVE BubblesSound'
  <2>1. started + 1 \in Tasks /\ Only(started + 1) /\ started' = started + 1 /\ window' = window
    BY <1>21 DEF Clicked
  <2>2. tasks[started + 1].stage \notin Loads
    BY <1>0, <2>1 DEF Loads
  <2>3. QED
    BY <1>0, <2>1, <2>2, OneTasksBubbles
<1>22. ASSUME Reloaded PROVE BubblesSound'
  BY <1>22 DEF Reloaded, BubblesSound
<1>23. ASSUME UNCHANGED vars PROVE BubblesSound'
  <2>1. window' = window /\ tasks' = tasks /\ asks' = asks /\ started' = started
    BY <1>23 DEF vars, server, page
  <2>2. QED
    BY <2>1, BubblesTell, TellingAreSound
<1>24. QED
  BY <1>1, <1>2, <1>3, <1>4, <1>5, <1>6, <1>7, <1>8, <1>9, <1>10, <1>11, <1>12, <1>13,
     <1>14, <1>15, <1>16, <1>17, <1>18, <1>19, <1>20, <1>21, <1>22, <1>23, Zenon DEF PageStep

-----------------------------------------------------------------------------
(* What is on show.                                                        *)

\* What TasksOnShow says of one task, with thread `c` on show and mishaps `m`.
IsOnShow(t, m, c) ==
    t.kind \in {"init", "send", "history"} =>
        t.moved \/ "rechosen" \in m \/ t.scope \in {None, c}

\* The thread on show changes under a task only when there was none, or by a mishap.
Kept == /\ mishaps \subseteq mishaps'
        /\ current' = current \/ current = None \/ "rechosen" \in mishaps'

LEMMA OneTaskOnShow ==
    ASSUME TasksOnShow, NEW i \in Tasks, Only(i), Kept, IsOnShow(tasks'[i], mishaps', current')
    PROVE  TasksOnShow'
<1>1. ASSUME NEW j \in Tasks PROVE IsOnShow(tasks'[j], mishaps', current')
  <2>1. CASE j = i
    BY <2>1
  <2>2. CASE j # i
    <3>1. tasks'[j] = tasks[j] /\ IsOnShow(tasks[j], mishaps, current)
      BY <2>2 DEF Only, TasksOnShow, IsOnShow
    <3>2. QED
      BY <3>1 DEF IsOnShow, Kept
  <2>3. QED
    BY <2>1, <2>2
<1>2. QED
  BY <1>1 DEF TasksOnShow, IsOnShow

LEMMA TasksOnShowStep ==
    ASSUME PageSound, TasksOnShow, PageStep
    PROVE  TasksOnShow'
<1>1. ASSUME NEW n \in Asks, Answered(n) PROVE TasksOnShow'
  BY <1>1 DEF Answered, TasksOnShow
<1>2. ASSUME NEW n \in Asks, Submitted(n) PROVE TasksOnShow'
  BY <1>2, OneTaskOnShow DEF Submitted, Kept, IsOnShow
<1>3. ASSUME NEW i \in Tasks, Served(i) PROVE TasksOnShow'
  BY <1>3, OneTaskOnShow DEF Served, Kept, IsOnShow, TasksOnShow
<1>4. ASSUME NEW i \in Tasks, Taken(i) PROVE TasksOnShow'
  BY <1>4, OneTaskOnShow DEF Taken, Kept, GoesTo, Went, IsOnShow, TasksOnShow
<1>5. ASSUME NEW i \in Tasks, Shown(i) PROVE TasksOnShow'
  BY <1>5, OneTaskOnShow DEF Shown, Kept, Stops, Blank, IsOnShow, TasksOnShow
<1>6. ASSUME NEW i \in Tasks, SendLost(i) PROVE TasksOnShow'
  BY <1>6, OneTaskOnShow DEF SendLost, Kept, Stops, Blank, IsOnShow, TasksOnShow
<1>7. ASSUME NEW i \in Tasks, Listed(i) PROVE TasksOnShow'
  BY <1>7, OneTaskOnShow DEF Listed, Kept, Stops, Blank, IsOnShow, TasksOnShow
<1>8. ASSUME NEW i \in Tasks, Failed(i) PROVE TasksOnShow'
  BY <1>8, OneTaskOnShow DEF Failed, Kept, Stops, Blank, IsOnShow, TasksOnShow
<1>9. ASSUME NEW i \in Tasks, Removed(i) PROVE TasksOnShow'
  BY <1>9, OneTaskOnShow DEF Removed, Kept, GoesTo, Went, IsOnShow, TasksOnShow
<1>10. ASSUME NEW i \in Tasks, Chosen(i) PROVE TasksOnShow'
  BY <1>10, OneTaskOnShow DEF Chosen, Kept, GoesTo, Went, IsOnShow
<1>11. ASSUME NEW i \in Tasks, HistoryEnds(i) PROVE TasksOnShow'
  BY <1>11, OneTaskOnShow DEF HistoryEnds, Kept, Stops, Blank, IsOnShow, HistoryShown
<1>12. ASSUME NEW i \in Tasks, RestoreBegins(i) PROVE TasksOnShow'
  BY <1>12, OneTaskOnShow DEF RestoreBegins, Kept, IsOnShow, TasksOnShow, HistoryShown
<1>13. ASSUME NEW i \in Tasks, Waits(i) PROVE TasksOnShow'
  BY <1>13, OneTaskOnShow DEF Waits, Kept, GoesTo, Went, IsOnShow, TasksOnShow
<1>14. ASSUME NEW i \in Tasks, HasBeenShown(i) PROVE TasksOnShow'
  BY <1>14, OneTaskOnShow DEF HasBeenShown, Kept, Stops, Blank, IsOnShow, TasksOnShow
<1>15. ASSUME NEW i \in Tasks, Polled(i) PROVE TasksOnShow'
  BY <1>15, OneTaskOnShow DEF Polled, Kept, GoesTo, Went, IsOnShow, TasksOnShow
<1>16. ASSUME NEW i \in Tasks, HitShown(i) PROVE TasksOnShow'
  BY <1>16, OneTaskOnShow DEF HitShown, Kept, GoesTo, Went, IsOnShow, TasksOnShow
<1>17. ASSUME NEW i \in Tasks, Restored(i) PROVE TasksOnShow'
  BY <1>17, OneTaskOnShow DEF Restored, Kept, Stops, Blank, IsOnShow, TasksOnShow, Enabled
<1>18. ASSUME NEW i \in Tasks, WaitsOn(i) PROVE TasksOnShow'
  BY <1>18, OneTaskOnShow DEF WaitsOn, Kept, GoesTo, Went, IsOnShow, TasksOnShow
<1>19. ASSUME NEW i \in Tasks, GivesUp(i) PROVE TasksOnShow'
  BY <1>19, OneTaskOnShow DEF GivesUp, Kept, Stops, Blank, IsOnShow, TasksOnShow, Enabled
<1>20. ASSUME Turned PROVE TasksOnShow'
  <2>1. PICK id, kind, ending : Changed(id, kind, ending)
    BY <1>20 DEF Turned
  <2>2. ASSUME NEW i \in Tasks PROVE IsOnShow(tasks'[i], mishaps', current')
    <3>1. CASE i = started + 1
      BY <2>1, <3>1 DEF Changed, Fresh, IsOnShow
    <3>2. CASE i # started + 1 /\ i \in ending
      BY <2>1, <3>2 DEF Changed, Blank, IsOnShow
    <3>3. CASE i # started + 1 /\ i \notin ending
      BY <2>1, <3>3, TaskIs DEF Changed, Overtaken, IsOnShow, Fits
    <3>4. QED
      BY <3>1, <3>2, <3>3
  <2>3. QED
    BY <2>2 DEF TasksOnShow, IsOnShow
<1>21. ASSUME Clicked PROVE TasksOnShow'
  BY <1>21, OneTaskOnShow DEF Clicked, Kept, Fresh, IsOnShow
<1>22. ASSUME Reloaded PROVE TasksOnShow'
  <2>1. \A i \in Tasks : IsOnShow(tasks'[i], mishaps', current')
    BY <1>22 DEF Reloaded, Fresh, Blank, IsOnShow
  <2>2. QED
    BY <2>1 DEF TasksOnShow, IsOnShow
<1>23. ASSUME UNCHANGED vars PROVE TasksOnShow'
  BY <1>23 DEF vars, server, page, TasksOnShow
<1>24. QED
  BY <1>1, <1>2, <1>3, <1>4, <1>5, <1>6, <1>7, <1>8, <1>9, <1>10, <1>11, <1>12, <1>13,
     <1>14, <1>15, <1>16, <1>17, <1>18, <1>19, <1>20, <1>21, <1>22, <1>23, Zenon DEF PageStep

\* What BubblesOnShow says of one bubble, with thread `c` on show, mishaps `m` and questions `a`.
BubbleIsOnShow(b, m, c, a) ==
    \/ b.moved \/ "rechosen" \in m \/ b.scope = None
    \/ /\ b.scope = c
       /\ \/ b.ask = None
          \/ b.scope \in {a[b.ask].thread, a[b.ask].home}
          \/ b.what # "answer" /\ a[b.ask].thread = None

\* A bubble stays on show, and a step may add others that are.
LEMMA StaysOnShow ==
    ASSUME PageSound, BubblesSound, Grows, BubblesOnShow, Kept,
           \A b \in window' : b \in window \/ BubbleIsOnShow(b, mishaps', current', asks')
    PROVE  BubblesOnShow'
<1>1. ASSUME NEW b \in window PROVE BubbleIsOnShow(b, mishaps', current', asks')
  <2>1. BubbleIsOnShow(b, mishaps, current, asks)
    BY DEF BubblesOnShow, BubbleIsOnShow
  <2>2. b.ask # None => Used(b.ask) /\ b.ask \in Asks
    BY DEF BubblesSound, Used
  <2>3. b.ask # None => /\ asks'[b.ask].thread = asks[b.ask].thread
                        /\ asks[b.ask].home # None => asks'[b.ask].home = asks[b.ask].home
    BY <2>2 DEF Grows
  <2>4. QED
    BY <2>1, <2>3 DEF BubbleIsOnShow, Kept
<1>2. QED
  BY <1>1 DEF BubblesOnShow, BubbleIsOnShow

LEMMA BubblesOnShowStep ==
    ASSUME PageSound, BubblesSound, TasksOnShow, BubblesOnShow, PageStep
    PROVE  BubblesOnShow'
<1>0. Grows
  BY GrowsStep
<1>1. ASSUME NEW n \in Asks, Answered(n) PROVE BubblesOnShow'
  BY <1>1, <1>0, StaysOnShow DEF Answered, Kept
<1>2. ASSUME NEW n \in Asks, Submitted(n) PROVE BubblesOnShow'
  <2>1. PICK b, c : /\ window' = window \cup {b, c}
                    /\ Says(b, "question", n, current, started + 1, FALSE)
                    /\ Says(c, "loading", n, current, started + 1, FALSE)
    BY <1>2 DEF Submitted
  <2>2. BubbleIsOnShow(b, mishaps', current', asks') /\ BubbleIsOnShow(c, mishaps', current', asks')
    BY <1>2, <2>1 DEF Submitted, Says, BubbleIsOnShow
  <2>3. QED
    BY <1>2, <1>0, <2>1, <2>2, StaysOnShow DEF Submitted, Kept
<1>3. ASSUME NEW i \in Tasks, Served(i) PROVE BubblesOnShow'
  BY <1>3, <1>0, StaysOnShow DEF Served, Kept
<1>4. ASSUME NEW i \in Tasks, Taken(i) PROVE BubblesOnShow'
  BY <1>4, <1>0, StaysOnShow DEF Taken, Kept, WithoutLoading
<1>5. ASSUME NEW i \in Tasks, Shown(i) PROVE BubblesOnShow'
  <2>1. PICK b, w : /\ window' = window \cup {b}
                    /\ Says(b, w, tasks[i].ask, tasks[i].scope, i, tasks[i].moved)
    BY <1>5 DEF Shown
  <2>2. Knows(tasks[i], asks) /\ IsOnShow(tasks[i], mishaps, current)
    BY TasksKnow DEF TasksOnShow, IsOnShow
  <2>3. BubbleIsOnShow(b, mishaps', current', asks')
    BY <1>5, <2>1, <2>2 DEF Shown, Says, BubbleIsOnShow, Knows, IsOnShow
  <2>4. QED
    BY <1>5, <1>0, <2>1, <2>3, StaysOnShow DEF Shown, Kept
<1>6. ASSUME NEW i \in Tasks, SendLost(i) PROVE BubblesOnShow'
  BY <1>6, <1>0, StaysOnShow DEF SendLost, Kept, WithoutLoading
<1>7. ASSUME NEW i \in Tasks, Listed(i) PROVE BubblesOnShow'
  BY <1>7, <1>0, StaysOnShow DEF Listed, Kept
<1>8. ASSUME NEW i \in Tasks, Failed(i) PROVE BubblesOnShow'
  BY <1>8, <1>0, StaysOnShow DEF Failed, Kept
<1>9. ASSUME NEW i \in Tasks, Removed(i) PROVE BubblesOnShow'
  BY <1>9, <1>0, StaysOnShow DEF Removed, Kept
<1>10. ASSUME NEW i \in Tasks, Chosen(i) PROVE BubblesOnShow'
  <2>1. PICK b : /\ window' = window \cup {b}
                 /\ Says(b, "loading", None, current', i, tasks[i].moved)
    BY <1>10 DEF Chosen
  <2>2. BubbleIsOnShow(b, mishaps', current', asks')
    BY <2>1 DEF Says, BubbleIsOnShow
  <2>3. QED
    BY <1>10, <1>0, <2>1, <2>2, StaysOnShow DEF Chosen, Kept
<1>11. ASSUME NEW i \in Tasks, HistoryEnds(i) PROVE BubblesOnShow'
  <2>1. Knows(tasks[i], asks) /\ IsOnShow(tasks[i], mishaps, current)
    BY TasksKnow DEF TasksOnShow, IsOnShow
  <2>2. ASSUME NEW n \in tasks[i].seen, NEW w \in {"question", "answer"}
        PROVE  BubbleIsOnShow(Put(i, w, n), mishaps', current', asks')
    <3>1. n \in Asks /\ tasks[i].scope \in {None, asks[n].home}
      BY <1>11, <2>1 DEF HistoryEnds, Knows
    <3>2. Says(Put(i, w, n), w, n, tasks[i].scope, i, tasks[i].moved)
      BY <3>1, PutIs DEF What, PageSound
    <3>3. QED
      BY <1>11, <2>1, <3>1, <3>2 DEF HistoryEnds, HistoryShown, Says, BubbleIsOnShow, IsOnShow
  <2>3. \A b \in window' : b \in window \/ BubbleIsOnShow(b, mishaps', current', asks')
    BY <1>11, <2>2 DEF HistoryEnds, HistoryShown, WithoutLoading
  <2>4. QED
    BY <1>11, <1>0, <2>3, StaysOnShow DEF HistoryEnds, HistoryShown, Kept
<1>12. ASSUME NEW i \in Tasks, RestoreBegins(i) PROVE BubblesOnShow'
  <2>1. Knows(tasks[i], asks) /\ IsOnShow(tasks[i], mishaps, current)
    BY TasksKnow DEF TasksOnShow, IsOnShow
  <2>2. ASSUME NEW n \in tasks[i].seen, NEW w \in {"question", "answer"}
        PROVE  BubbleIsOnShow(Put(i, w, n), mishaps', current', asks')
    <3>1. n \in Asks /\ tasks[i].scope \in {None, asks[n].home}
      BY <1>12, <2>1 DEF RestoreBegins, Knows
    <3>2. Says(Put(i, w, n), w, n, tasks[i].scope, i, tasks[i].moved)
      BY <3>1, PutIs DEF What, PageSound
    <3>3. QED
      BY <1>12, <2>1, <3>1, <3>2 DEF RestoreBegins, HistoryShown, Says, BubbleIsOnShow, IsOnShow
  <2>3. \A b \in window' : b \in window \/ BubbleIsOnShow(b, mishaps', current', asks')
    BY <1>12, <2>2 DEF RestoreBegins, HistoryShown, WithoutLoading
  <2>4. QED
    BY <1>12, <1>0, <2>3, StaysOnShow DEF RestoreBegins, HistoryShown, Kept
<1>13. ASSUME NEW i \in Tasks, Waits(i) PROVE BubblesOnShow'
  <2>1. PICK b, c : /\ window' = window \cup {b, c}
                    /\ Says(b, "question", tasks[i].ask, current, i, tasks[i].moved)
                    /\ Says(c, "loading", tasks[i].ask, current, i, tasks[i].moved)
    BY <1>13 DEF Waits
  <2>2. Knows(tasks[i], asks) /\ IsOnShow(tasks[i], mishaps, current)
    BY TasksKnow DEF TasksOnShow, IsOnShow
  <2>3. BubbleIsOnShow(b, mishaps', current', asks') /\ BubbleIsOnShow(c, mishaps', current', asks')
    BY <1>13, <2>1, <2>2 DEF Waits, Says, BubbleIsOnShow, Knows, IsOnShow
  <2>4. QED
    BY <1>13, <1>0, <2>1, <2>3, StaysOnShow DEF Waits, Kept
<1>14. ASSUME NEW i \in Tasks, HasBeenShown(i) PROVE BubblesOnShow'
  BY <1>14, <1>0, StaysOnShow DEF HasBeenShown, Kept
<1>15. ASSUME NEW i \in Tasks, Polled(i) PROVE BubblesOnShow'
  BY <1>15, <1>0, StaysOnShow DEF Polled, Kept
<1>16. ASSUME NEW i \in Tasks, HitShown(i) PROVE BubblesOnShow'
  <2>0. PICK n \in Hits(i) : \E b, w :
          /\ window' = WithoutLoading(i) \cup {b}
          /\ Says(b, w, n, tasks[i].scope, i, tasks[i].moved)
    BY <1>16 DEF HitShown
  <2>1. PICK b, w :
          /\ window' = WithoutLoading(i) \cup {b}
          /\ Says(b, w, n, tasks[i].scope, i, tasks[i].moved)
    BY <2>0
  <2>2. Knows(tasks[i], asks) /\ IsOnShow(tasks[i], mishaps, current)
    BY TasksKnow DEF TasksOnShow, IsOnShow
  <2>3. BubbleIsOnShow(b, mishaps', current', asks')
    BY <1>16, <2>1, <2>2 DEF HitShown, Says, BubbleIsOnShow, Knows, IsOnShow, Hits
  <2>4. QED
    BY <1>16, <1>0, <2>1, <2>3, StaysOnShow DEF HitShown, Kept, WithoutLoading
<1>17. ASSUME NEW i \in Tasks, Restored(i) PROVE BubblesOnShow'
  BY <1>17, <1>0, StaysOnShow DEF Restored, Kept, Enabled
<1>18. ASSUME NEW i \in Tasks, WaitsOn(i) PROVE BubblesOnShow'
  BY <1>18, <1>0, StaysOnShow DEF WaitsOn, Kept
<1>19. ASSUME NEW i \in Tasks, GivesUp(i) PROVE BubblesOnShow'
  BY <1>19, <1>0, StaysOnShow DEF GivesUp, Kept, Enabled, WithoutLoading
<1>20. ASSUME Turned PROVE BubblesOnShow'
  <2>1. PICK id, kind, ending : Changed(id, kind, ending)
    BY <1>20 DEF Turned
  <2>2. \A b \in window' : b.scope = current' /\ b.ask = None
    BY <2>1 DEF Changed, Says
  <2>3. QED
    BY <2>2 DEF BubblesOnShow
<1>21. ASSUME Clicked PROVE BubblesOnShow'
  BY <1>21, <1>0, StaysOnShow DEF Clicked, Kept
<1>22. ASSUME Reloaded PROVE BubblesOnShow'
  BY <1>22 DEF Reloaded, BubblesOnShow
<1>23. ASSUME UNCHANGED vars PROVE BubblesOnShow'
  BY <1>23 DEF vars, server, page, BubblesOnShow
<1>24. QED
  BY <1>1, <1>2, <1>3, <1>4, <1>5, <1>6, <1>7, <1>8, <1>9, <1>10, <1>11, <1>12, <1>13,
     <1>14, <1>15, <1>16, <1>17, <1>18, <1>19, <1>20, <1>21, <1>22, <1>23, Zenon DEF PageStep

-----------------------------------------------------------------------------
(* One question at a time.                                                 *)

\* No task that did not send sends now, and the button is as it was, unless none does.
LEMMA NoMoreSend ==
    ASSUME OneSending, mishaps \subseteq mishaps',
           \A j \in Tasks : tasks'[j].kind = "send" /\ tasks'[j].stage # "ended" =>
               tasks[j].kind = "send" /\ tasks[j].stage # "ended",
           \/ disabled' = TRUE
           \/ disabled' = disabled
           \/ "reenabled" \in mishaps'
           \/ \A j \in Tasks : ~ (tasks'[j].kind = "send" /\ tasks'[j].stage # "ended")
    PROVE  OneSending'
<1>1. /\ \A j : j \in Sending <=> j \in Tasks /\ tasks[j].kind = "send" /\ tasks[j].stage # "ended"
      /\ \A j : j \in Sending' <=> j \in Tasks /\ tasks'[j].kind = "send" /\ tasks'[j].stage # "ended"
  BY DEF Sending, Running
<1>2. Sending' \subseteq Sending
  BY <1>1
<1>3. "reenabled" \in mishaps' \/ disabled' = TRUE \/ disabled' = disabled \/ Sending' = {}
  BY <1>1
<1>4. QED
  BY <1>2, <1>3 DEF OneSending

\* The only task that sends ends.
LEMMA SenderStops ==
    ASSUME OneSending, NEW i \in Tasks, tasks[i].kind = "send", tasks[i].stage # "ended", Stops(i),
           mishaps' = mishaps
    PROVE  OneSending'
<1>1. CASE "reenabled" \in mishaps
  BY <1>1 DEF OneSending
<1>2. CASE "reenabled" \notin mishaps
  <2>1. \A j \in Tasks : tasks[j].kind = "send" /\ tasks[j].stage # "ended" => j = i
    BY <1>2 DEF OneSending, Sending, Running
  <2>2. \A j \in Tasks : ~ (tasks'[j].kind = "send" /\ tasks'[j].stage # "ended")
    BY <2>1 DEF Stops, Only, Blank
  <2>3. QED
    BY <2>2, NoMoreSend
<1>3. QED
  BY <1>1, <1>2

LEMMA OneSendingStep ==
    ASSUME PageSound, OneSending, PageStep
    PROVE  OneSending'
<1>1. ASSUME NEW n \in Asks, Answered(n) PROVE OneSending'
  BY <1>1, NoMoreSend DEF Answered
<1>2. ASSUME NEW n \in Asks, Submitted(n) PROVE OneSending'
  <2>1. CASE "reenabled" \in mishaps
    BY <1>2, <2>1 DEF Submitted, OneSending
  <2>2. CASE "reenabled" \notin mishaps
    <3>1. Sending = {}
      BY <1>2, <2>2 DEF Submitted, OneSending
    <3>2. \A j \in Sending' : j = started + 1
      BY <1>2, <3>1 DEF Submitted, Only, Sending, Running
    <3>3. QED
      BY <1>2, <3>2 DEF Submitted, OneSending
  <2>3. QED
    BY <2>1, <2>2
<1>3. ASSUME NEW i \in Tasks, Served(i) PROVE OneSending'
  BY <1>3, NoMoreSend DEF Served, Only
<1>4. ASSUME NEW i \in Tasks, Taken(i) PROVE OneSending'
  BY <1>4, NoMoreSend DEF Taken, Only, GoesTo, Went
<1>5. ASSUME NEW i \in Tasks, Shown(i) PROVE OneSending'
  BY <1>5, SenderStops DEF Shown
<1>6. ASSUME NEW i \in Tasks, SendLost(i) PROVE OneSending'
  BY <1>6, SenderStops DEF SendLost
<1>7. ASSUME NEW i \in Tasks, Listed(i) PROVE OneSending'
  BY <1>7, NoMoreSend DEF Listed, Stops, Only, Blank
<1>8. ASSUME NEW i \in Tasks, Failed(i) PROVE OneSending'
  BY <1>8, NoMoreSend DEF Failed, Stops, Only, Blank
<1>9. ASSUME NEW i \in Tasks, Removed(i) PROVE OneSending'
  BY <1>9, NoMoreSend DEF Removed, Only, GoesTo, Went
<1>10. ASSUME NEW i \in Tasks, Chosen(i) PROVE OneSending'
  BY <1>10, NoMoreSend DEF Chosen, Only, GoesTo, Went
<1>11. ASSUME NEW i \in Tasks, HistoryEnds(i) PROVE OneSending'
  BY <1>11, NoMoreSend DEF HistoryEnds, Stops, Only, Blank, HistoryShown
<1>12. ASSUME NEW i \in Tasks, RestoreBegins(i) PROVE OneSending'
  BY <1>12, NoMoreSend DEF RestoreBegins, Only, HistoryShown
<1>13. ASSUME NEW i \in Tasks, Waits(i) PROVE OneSending'
  BY <1>13, NoMoreSend DEF Waits, Only, GoesTo, Went
<1>14. ASSUME NEW i \in Tasks, HasBeenShown(i) PROVE OneSending'
  BY <1>14, NoMoreSend DEF HasBeenShown, Stops, Only, Blank
<1>15. ASSUME NEW i \in Tasks, Polled(i) PROVE OneSending'
  BY <1>15, NoMoreSend DEF Polled, Only, GoesTo, Went
<1>16. ASSUME NEW i \in Tasks, HitShown(i) PROVE OneSending'
  BY <1>16, NoMoreSend DEF HitShown, Only, GoesTo, Went
<1>17. ASSUME NEW i \in Tasks, Restored(i) PROVE OneSending'
  <2>1. \A j \in Tasks : tasks'[j].kind = "send" /\ tasks'[j].stage # "ended" =>
            tasks[j].kind = "send" /\ tasks[j].stage # "ended"
    BY <1>17 DEF Restored, Stops, Only, Blank
  <2>2. CASE Sending = {}
    <3>1. \A j \in Tasks : ~ (tasks'[j].kind = "send" /\ tasks'[j].stage # "ended")
      BY <2>1, <2>2 DEF Sending, Running
    <3>2. QED
      BY <1>17, <2>1, <3>1, NoMoreSend DEF Restored, Enabled
  <2>3. CASE Sending # {}
    BY <1>17, <2>1, <2>3, NoMoreSend DEF Restored, Enabled
  <2>4. QED
    BY <2>2, <2>3
<1>18. ASSUME NEW i \in Tasks, WaitsOn(i) PROVE OneSending'
  BY <1>18, NoMoreSend DEF WaitsOn, Only, GoesTo, Went
<1>19. ASSUME NEW i \in Tasks, GivesUp(i) PROVE OneSending'
  <2>1. \A j \in Tasks : tasks'[j].kind = "send" /\ tasks'[j].stage # "ended" =>
            tasks[j].kind = "send" /\ tasks[j].stage # "ended"
    BY <1>19 DEF GivesUp, Stops, Only, Blank
  <2>2. CASE Sending = {}
    <3>1. \A j \in Tasks : ~ (tasks'[j].kind = "send" /\ tasks'[j].stage # "ended")
      BY <2>1, <2>2 DEF Sending, Running
    <3>2. QED
      BY <1>19, <2>1, <3>1, NoMoreSend DEF GivesUp, Enabled
  <2>3. CASE Sending # {}
    BY <1>19, <2>1, <2>3, NoMoreSend DEF GivesUp, Enabled
  <2>4. QED
    BY <2>2, <2>3
<1>20. ASSUME Turned PROVE OneSending'
  <2>1. PICK id, kind, ending : Changed(id, kind, ending)
    BY <1>20 DEF Turned
  <2>2. \A j \in Tasks : tasks'[j].kind = "send" /\ tasks'[j].stage # "ended" =>
            tasks[j].kind = "send" /\ tasks[j].stage # "ended"
    BY <2>1 DEF Changed, Fresh, Blank, Overtaken
  <2>3. QED
    BY <1>20, <2>2, NoMoreSend DEF Turned
<1>21. ASSUME Clicked PROVE OneSending'
  BY <1>21, NoMoreSend DEF Clicked, Only, Fresh
<1>22. ASSUME Reloaded PROVE OneSending'
  <2>1. \A j \in Tasks : ~ (tasks'[j].kind = "send" /\ tasks'[j].stage # "ended")
    BY <1>22 DEF Reloaded, Fresh, Blank
  <2>2. QED
    BY <1>22, <2>1, NoMoreSend DEF Reloaded
<1>23. ASSUME UNCHANGED vars PROVE OneSending'
  BY <1>23, NoMoreSend DEF vars, page
<1>24. QED
  BY <1>1, <1>2, <1>3, <1>4, <1>5, <1>6, <1>7, <1>8, <1>9, <1>10, <1>11, <1>12, <1>13,
     <1>14, <1>15, <1>16, <1>17, <1>18, <1>19, <1>20, <1>21, <1>22, <1>23, Zenon DEF PageStep

-----------------------------------------------------------------------------
(* Answers shown while other tasks run.                                    *)

\* What AnswersOverlap says of a bubble and task `i`, whose state is `t`.
Overlaps(b, i, t) ==
    b.what = "answer" /\ t.stage # "ended" =>
        /\ t.kind \in {"init", "history"} => i <= b.upto
        /\ t.kind = "send" /\ b.ask = t.ask => i <= b.upto
        /\ b.task = i => t.kind = "init" /\ t.stage \notin {"list", "history"}

LEMMA TheyOverlap ==
    ASSUME AnswersOverlap
    PROVE  \A b \in window, i \in Tasks : Overlaps(b, i, tasks[i])
BY DEF AnswersOverlap, Overlaps, Running

LEMMA OverlappingAre ==
    ASSUME \A b \in window', i \in Tasks : Overlaps(b, i, tasks'[i])
    PROVE  AnswersOverlap'
BY DEF AnswersOverlap, Overlaps, Running

\* A task that goes on without going back to its list or its history.
GoesOn(t, q) ==
    /\ t.stage # "ended" /\ q.kind = t.kind /\ (t.kind = "send" => q.ask = t.ask)
    /\ q.stage \in {"list", "history"} => t.stage \in {"list", "history"} \/ t.kind # "init"

\* A step of one task, which may show an answer.
LEMMA OneTasksAnswers ==
    ASSUME PageSound, AnswersOverlap, NEW i \in Tasks, Only(i),
           tasks'[i].stage = "ended" \/ GoesOn(tasks[i], tasks'[i]),
           \A b \in window' :
              \/ b \in window
              \/ b.what # "answer"
              \/ /\ b.upto = started /\ b.task = i
                 /\ \/ tasks'[i].stage = "ended"
                    \/ tasks'[i].kind = "init" /\ tasks'[i].stage \notin {"list", "history"}
    PROVE  AnswersOverlap'
<1>1. ASSUME NEW b \in window', NEW j \in Tasks PROVE Overlaps(b, j, tasks'[j])
  <2>1. CASE b \in window
    <3>1. Overlaps(b, j, tasks[j])
      BY <2>1, TheyOverlap
    <3>2. QED
      BY <3>1 DEF Overlaps, GoesOn, Only
  <2>2. CASE b.what # "answer"
    BY <2>2 DEF Overlaps
  <2>3. CASE /\ b.upto = started /\ b.task = i
             /\ \/ tasks'[i].stage = "ended"
                \/ tasks'[i].kind = "init" /\ tasks'[i].stage \notin {"list", "history"}
    <3>1. tasks'[j].stage # "ended" => tasks[j].stage # "ended"
      BY DEF Only, GoesOn
    <3>2. tasks'[j].stage # "ended" => j <= b.upto
      BY <2>3, <3>1, StartedIs
    <3>3. QED
      BY <2>3, <3>2 DEF Overlaps
  <2>4. QED
    BY <2>1, <2>2, <2>3
<1>2. QED
  BY <1>1, OverlappingAre

\* A task starts that is none of init() or of a history.
LEMMA StartsAnswers ==
    ASSUME PageSound, BubblesSound, AnswersOverlap, NEW i \in Tasks, i = started + 1, Only(i),
           tasks'[i].kind \notin {"init", "history"},
           tasks'[i].kind = "send" => \A b \in window : b.ask # tasks'[i].ask,
           \A b \in window' : b \in window \/ b.what # "answer"
    PROVE  AnswersOverlap'
<1>1. ASSUME NEW b \in window', NEW j \in Tasks PROVE Overlaps(b, j, tasks'[j])
  <2>1. CASE b \in window /\ j = i
    <3>1. b.task # i
      <4>1. b.task <= started /\ started \in Nat /\ b.task \in Nat
        BY <2>1, BoundsAreNat DEF BubblesSound, PageSound, PageTypes, Bubble, Tasks
      <4>2. QED
        BY <4>1
    <3>2. QED
      BY <2>1, <3>1 DEF Overlaps
  <2>2. CASE b \in window /\ j # i
    BY <2>2, TheyOverlap DEF Only
  <2>3. CASE b.what # "answer"
    BY <2>3 DEF Overlaps
  <2>4. QED
    BY <2>1, <2>2, <2>3
<1>2. QED
  BY <1>1, OverlappingAre

\* What a history shows: bubbles of its task, about the questions in the response.
LEMMA ShownByHistory ==
    ASSUME PageSound, NEW i \in Tasks, tasks[i].stage = "history", HistoryShown(i), NEW b \in window'
    PROVE  \/ b \in WithoutLoading(i) /\ b \in window
           \/ /\ b.ask \in tasks[i].seen /\ b.ask \in Asks /\ asks[b.ask].state = "saved"
              /\ b.task = i /\ b.what \in {"question", "answer"} /\ b.scope = tasks[i].scope
              /\ b.what = "answer" => b.upto = started
<1>1. CASE b \in WithoutLoading(i)
  BY <1>1 DEF WithoutLoading
<1>2. ASSUME NEW n \in tasks[i].seen, NEW w \in {"question", "answer"}, b = Put(i, w, n)
      PROVE  /\ b.ask \in tasks[i].seen /\ b.ask \in Asks /\ asks[b.ask].state = "saved"
             /\ b.task = i /\ b.what \in {"question", "answer"} /\ b.scope = tasks[i].scope
             /\ b.what = "answer" => b.upto = started
  <2>1. n \in Asks /\ asks[n].state = "saved"
    BY TasksKnow DEF Knows
  <2>2. Says(b, w, n, tasks[i].scope, i, tasks[i].moved)
    BY <1>2, <2>1, PutIs DEF What, PageSound
  <2>3. QED
    BY <2>1, <2>2 DEF Says
<1>3. QED
  BY <1>1, <1>2 DEF HistoryShown

LEMMA AnswersOverlapStep ==
    ASSUME PageSound, BubblesSound, AnswersOverlap, PageStep
    PROVE  AnswersOverlap'
<1>1. ASSUME NEW n \in Asks, Answered(n) PROVE AnswersOverlap'
  BY <1>1, TheyOverlap, OverlappingAre DEF Answered
<1>2. ASSUME NEW n \in Asks, Submitted(n) PROVE AnswersOverlap'
  <2>1. \A b \in window : b.ask # n
    <3>1. n \in Nat /\ \A m \in Asks : Used(m) => m # n
      BY <1>2, BoundsAreNat DEF Submitted, Asks
    <3>2. \A b \in window : b.ask = n => Used(n)
      BY BoundsAreNat DEF BubblesSound
    <3>3. QED
      BY <3>1, <3>2
  <2>2. \A b \in window' : b \in window \/ b.what # "answer"
    BY <1>2 DEF Submitted, Says
  <2>3. QED
    BY <1>2, <2>1, <2>2, StartsAnswers DEF Submitted
<1>3. ASSUME NEW i \in Tasks, Served(i) PROVE AnswersOverlap'
  BY <1>3, OneTasksAnswers DEF Served, GoesOn
<1>4. ASSUME NEW i \in Tasks, Taken(i) PROVE AnswersOverlap'
  BY <1>4, OneTasksAnswers DEF Taken, GoesTo, Went, GoesOn, WithoutLoading
<1>5. ASSUME NEW i \in Tasks, Shown(i) PROVE AnswersOverlap'
  <2>1. \A b \in window' : b \in window \/ b.what # "answer" \/ (b.upto = started /\ b.task = i)
    BY <1>5 DEF Shown, Says
  <2>2. QED
    BY <1>5, <2>1, OneTasksAnswers DEF Shown, Stops, Blank
<1>6. ASSUME NEW i \in Tasks, SendLost(i) PROVE AnswersOverlap'
  BY <1>6, OneTasksAnswers DEF SendLost, Stops, Blank, GoesOn, WithoutLoading
<1>7. ASSUME NEW i \in Tasks, Listed(i) PROVE AnswersOverlap'
  BY <1>7, OneTasksAnswers DEF Listed, Stops, Blank, GoesOn
<1>8. ASSUME NEW i \in Tasks, Failed(i) PROVE AnswersOverlap'
  BY <1>8, OneTasksAnswers DEF Failed, Stops, Blank, GoesOn
<1>9. ASSUME NEW i \in Tasks, Removed(i) PROVE AnswersOverlap'
  BY <1>9, OneTasksAnswers DEF Removed, GoesTo, Went, GoesOn
<1>10. ASSUME NEW i \in Tasks, Chosen(i) PROVE AnswersOverlap'
  <2>1. \A b \in window' : b \in window \/ b.what # "answer"
    BY <1>10 DEF Chosen, Says
  <2>2. QED
    BY <1>10, <2>1, OneTasksAnswers DEF Chosen, GoesTo, Went, GoesOn
<1>11. ASSUME NEW i \in Tasks, HistoryEnds(i) PROVE AnswersOverlap'
  <2>1. \A b \in window' : b \in window \/ b.what # "answer" \/ (b.upto = started /\ b.task = i)
    BY <1>11, ShownByHistory DEF HistoryEnds
  <2>2. QED
    BY <1>11, <2>1, OneTasksAnswers DEF HistoryEnds, Stops, Blank, GoesOn
<1>12. ASSUME NEW i \in Tasks, RestoreBegins(i) PROVE AnswersOverlap'
  <2>1. \A b \in window' : b \in window \/ b.what # "answer" \/ (b.upto = started /\ b.task = i)
    BY <1>12, ShownByHistory DEF RestoreBegins
  <2>2. QED
    BY <1>12, <2>1, OneTasksAnswers DEF RestoreBegins, GoesOn
<1>13. ASSUME NEW i \in Tasks, Waits(i) PROVE AnswersOverlap'
  <2>1. \A b \in window' : b \in window \/ b.what # "answer"
    BY <1>13 DEF Waits, Says
  <2>2. QED
    BY <1>13, <2>1, OneTasksAnswers DEF Waits, GoesTo, Went, GoesOn
<1>14. ASSUME NEW i \in Tasks, HasBeenShown(i) PROVE AnswersOverlap'
  BY <1>14, OneTasksAnswers DEF HasBeenShown, Stops, Blank, GoesOn
<1>15. ASSUME NEW i \in Tasks, Polled(i) PROVE AnswersOverlap'
  BY <1>15, OneTasksAnswers DEF Polled, GoesTo, Went, GoesOn
<1>16. ASSUME NEW i \in Tasks, HitShown(i) PROVE AnswersOverlap'
  <2>1. \A b \in window' : b \in window \/ b.what # "answer" \/ (b.upto = started /\ b.task = i)
    BY <1>16 DEF HitShown, Says, WithoutLoading
  <2>2. QED
    BY <1>16, <2>1, OneTasksAnswers DEF HitShown, GoesTo, Went, GoesOn
<1>17. ASSUME NEW i \in Tasks, Restored(i) PROVE AnswersOverlap'
  BY <1>17, OneTasksAnswers DEF Restored, Stops, Blank, GoesOn
<1>18. ASSUME NEW i \in Tasks, WaitsOn(i) PROVE AnswersOverlap'
  BY <1>18, OneTasksAnswers DEF WaitsOn, GoesTo, Went, GoesOn
<1>19. ASSUME NEW i \in Tasks, GivesUp(i) PROVE AnswersOverlap'
  BY <1>19, OneTasksAnswers DEF GivesUp, Stops, Blank, GoesOn, WithoutLoading
<1>20. ASSUME Turned PROVE AnswersOverlap'
  <2>1. \A b \in window' : b.what # "answer"
    BY <1>20 DEF Turned, Changed, Says
  <2>2. QED
    BY <2>1 DEF AnswersOverlap
<1>21. ASSUME Clicked PROVE AnswersOverlap'
  BY <1>21, StartsAnswers DEF Clicked, Fresh
<1>22. ASSUME Reloaded PROVE AnswersOverlap'
  BY <1>22 DEF Reloaded, AnswersOverlap
<1>23. ASSUME UNCHANGED vars PROVE AnswersOverlap'
  BY <1>23, TheyOverlap, OverlappingAre DEF vars, page
<1>24. QED
  BY <1>1, <1>2, <1>3, <1>4, <1>5, <1>6, <1>7, <1>8, <1>9, <1>10, <1>11, <1>12, <1>13,
     <1>14, <1>15, <1>16, <1>17, <1>18, <1>19, <1>20, <1>21, <1>22, <1>23, Zenon DEF PageStep

-----------------------------------------------------------------------------
(* What a restore looks for.                                               *)

\* Question `n` has a record in thread `s`, or in any, with the questions `a` and the threads `ths`.
Seen(n, s, a, ths) ==
    a[n].state \in {"saved", "failed"} /\ a[n].home \in ths /\ s \in {None, a[n].home}

\* What RestoreIsFirst says of a bubble and task `i`, whose state is `t`.
LooksFirst(b, i, t, a, ths, c) ==
    b.what = "answer" /\ b.task = i /\ a[b.ask].text = a[t.ask].text =>
        /\ t.stage = "finding" =>
              /\ t.scope \in {None, c}
              /\ t.reply = "served" /\ Seen(b.ask, t.scope, a, ths) => b.ask \in t.seen
        /\ t.stage \in {"waiting", "polling"} => ~ Seen(b.ask, c, a, ths)
        /\ t.stage = "polling" => ~ Seen(b.ask, t.scope, a, ths) /\ b.ask \notin t.seen

LEMMA TheyLookFirst ==
    ASSUME RestoreIsFirst, "blind" \notin mishaps
    PROVE  \A b \in window, i \in Tasks : LooksFirst(b, i, tasks[i], asks, threads, current)
BY DEF RestoreIsFirst, LooksFirst, Running, Visible, HasRecord, Seen

LEMMA LookingFirstAre ==
    ASSUME "blind" \notin mishaps' =>
             \A b \in window', i \in Tasks : LooksFirst(b, i, tasks'[i], asks', threads', current')
    PROVE  RestoreIsFirst'
BY DEF RestoreIsFirst, LooksFirst, Running, Visible, HasRecord, Seen

\* A record that is not there does not come back.
LEMMA SeenBefore ==
    ASSUME PageSound, BubblesSound, Grows, NEW b \in window, b.what = "answer", NEW s,
           Seen(b.ask, s, asks', threads')
    PROVE  Seen(b.ask, s, asks, threads)
<1>1. b.ask \in Asks /\ asks[b.ask].state = "saved"
  BY DEF BubblesSound, Used
<1>2. asks[b.ask].home # None /\ asks[b.ask].home <= made /\ asks[b.ask].home \in Threads
  BY <1>1 DEF PageSound, AsksFiled, PageTypes, Ask
<1>3. asks'[b.ask].home = asks[b.ask].home /\ asks'[b.ask].state = asks[b.ask].state
  BY <1>1, <1>2 DEF Grows
<1>4. asks[b.ask].home \in 1 .. made
  BY <1>2, BoundsAreNat DEF Threads, PageSound, PageTypes
<1>5. QED
  BY <1>3, <1>4 DEF Seen, Grows

\* What is so of a task that does nothing stays so.
LEMMA LooksFirstStays ==
    ASSUME PageSound, BubblesSound, Grows, NEW b \in window, NEW i \in Tasks,
           current' = current \/ current = None,
           LooksFirst(b, i, tasks[i], asks, threads, current)
    PROVE  LooksFirst(b, i, tasks[i], asks', threads', current')
<1> DEFINE t == tasks[i]
<1>1. SUFFICES ASSUME b.what = "answer", b.task = i, asks'[b.ask].text = asks'[t.ask].text,
                      t.stage \in {"finding", "waiting", "polling"}
               PROVE  LooksFirst(b, i, t, asks', threads', current')
  BY DEF LooksFirst
<1>2. t.ask \in Asks /\ asks[t.ask].state # "unused"
  BY <1>1, TasksKnow DEF Knows
<1>3. b.ask \in Asks /\ asks[b.ask].state = "saved"
  BY <1>1 DEF BubblesSound, Used
<1>4. asks[b.ask].text = asks[t.ask].text
  BY <1>1, <1>2, <1>3 DEF Grows, Used
<1>5. \A s : Seen(b.ask, s, asks', threads') => Seen(b.ask, s, asks, threads)
  BY <1>1, SeenBefore
<1>6. current = None => \A s : Seen(b.ask, s, asks, threads) => Seen(b.ask, current, asks, threads)
  BY DEF Seen
<1>7. QED
  BY <1>1, <1>4, <1>5, <1>6 DEF LooksFirst

\* A step of one task.
LEMMA OneTaskLooks ==
    ASSUME PageSound, BubblesSound, Grows, RestoreIsFirst, NEW i \in Tasks, Only(i),
           current' = current \/ current = None, mishaps \subseteq mishaps',
           \A b \in window' : b \in window \/ b.what # "answer" \/ b.task = i,
           "blind" \notin mishaps' =>
              \A b \in window' : LooksFirst(b, i, tasks'[i], asks', threads', current')
    PROVE  RestoreIsFirst'
<1>1. ASSUME "blind" \notin mishaps', NEW b \in window', NEW j \in Tasks
      PROVE  LooksFirst(b, j, tasks'[j], asks', threads', current')
  <2>1. CASE j = i
    BY <1>1, <2>1
  <2>2. CASE j # i /\ b \in window
    <3>1. LooksFirst(b, j, tasks[j], asks, threads, current) /\ tasks'[j] = tasks[j]
      BY <1>1, <2>2, TheyLookFirst DEF Only
    <3>2. QED
      BY <2>2, <3>1, LooksFirstStays
  <2>3. CASE j # i /\ b \notin window
    BY <2>3 DEF LooksFirst
  <2>4. QED
    BY <2>1, <2>2, <2>3
<1>2. QED
  BY <1>1, LookingFirstAre

\* A task that is not restoring.
LEMMA NotRestoring ==
    ASSUME NEW b, NEW i, NEW t, NEW a, NEW ths, NEW c, t.stage \notin {"finding", "waiting", "polling"}
    PROVE  LooksFirst(b, i, t, a, ths, c)
BY DEF LooksFirst

\* A step that changes no task.
LEMMA NoTaskLooks ==
    ASSUME PageSound, BubblesSound, Grows, RestoreIsFirst, tasks' = tasks, window' = window,
           current' = current, mishaps' = mishaps
    PROVE  RestoreIsFirst'
BY TheyLookFirst, LooksFirstStays, LookingFirstAre

LEMMA RestoreIsFirstStep ==
    ASSUME PageSound, BubblesSound, RestoreIsFirst, PageStep
    PROVE  RestoreIsFirst'
<1>0. Grows
  BY GrowsStep
<1>1. ASSUME NEW n \in Asks, Answered(n) PROVE RestoreIsFirst'
  BY <1>1, <1>0, NoTaskLooks DEF Answered
<1>2. ASSUME NEW n \in Asks, Submitted(n) PROVE RestoreIsFirst'
  <2>1. tasks'[started + 1].stage \notin {"finding", "waiting", "polling"}
    BY <1>2 DEF Submitted
  <2>2. \A b \in window' : b \in window \/ b.what # "answer"
    BY <1>2 DEF Submitted, Says
  <2>3. QED
    BY <1>2, <1>0, <2>1, <2>2, NotRestoring, OneTaskLooks DEF Submitted
<1>3. ASSUME NEW i \in Tasks, Served(i) PROVE RestoreIsFirst'
  <2>1. Only(i) /\ mishaps \subseteq mishaps' /\ current' = current
    BY <1>3 DEF Served
  <2>2. \A b \in window' : b \in window \/ b.what # "answer"
    BY <1>3 DEF Served
  <2>3. ASSUME "blind" \notin mishaps', NEW b \in window'
        PROVE  LooksFirst(b, i, tasks'[i], asks', threads', current')
    <3>1. CASE ~ (b.what = "answer" /\ b.task = i)
      BY <3>1 DEF LooksFirst
    <3>2. CASE b.what = "answer" /\ b.task = i
      <4>1. b \in window /\ b.ask \in Asks /\ asks[b.ask].state = "saved"
        BY <2>2, <3>2 DEF BubblesSound, Used
      <4>2. LooksFirst(b, i, tasks[i], asks, threads, current)
        BY <2>1, <2>3, <4>1, TheyLookFirst
      <4>3. \A s : Seen(b.ask, s, asks', threads') => Seen(b.ask, s, asks, threads)
        BY <1>0, <3>2, <4>1, SeenBefore
      <4>4. \A s : Seen(b.ask, s, asks, threads) <=> b.ask \in RecordsOf(s)
        BY <4>1 DEF Seen, RecordsOf, HasRecord
      <4>5. QED
        BY <1>3, <3>2, <4>2, <4>3, <4>4 DEF Served, LooksFirst
    <3>3. QED
      BY <3>1, <3>2
  <2>4. QED
    BY <1>0, <2>1, <2>2, <2>3, OneTaskLooks
<1>4. ASSUME NEW i \in Tasks, Taken(i) PROVE RestoreIsFirst'
  <2>1. tasks'[i].stage \notin {"finding", "waiting", "polling"}
    BY <1>4 DEF Taken, GoesTo, Went
  <2>2. QED
    BY <1>4, <1>0, <2>1, NotRestoring, OneTaskLooks DEF Taken, Stops, GoesTo, WithoutLoading
<1>5. ASSUME NEW i \in Tasks, Shown(i) PROVE RestoreIsFirst'
  <2>1. tasks'[i].stage \notin {"finding", "waiting", "polling"}
    BY <1>5 DEF Shown, Stops, Blank
  <2>2. \A b \in window' : b \in window \/ b.what # "answer" \/ b.task = i
    BY <1>5 DEF Shown, Says
  <2>3. current' = current \/ current = None
    BY <1>5 DEF Shown
  <2>4. Only(i) /\ mishaps' = mishaps
    BY <1>5 DEF Shown, Stops
  <2>5. QED
    BY <1>0, <2>1, <2>2, <2>3, <2>4, NotRestoring, OneTaskLooks
<1>6. ASSUME NEW i \in Tasks, SendLost(i) PROVE RestoreIsFirst'
  <2>1. tasks'[i].stage \notin {"finding", "waiting", "polling"}
    BY <1>6 DEF SendLost, Stops, Blank
  <2>2. QED
    BY <1>6, <1>0, <2>1, NotRestoring, OneTaskLooks DEF SendLost, Stops, GoesTo, WithoutLoading
<1>7. ASSUME NEW i \in Tasks, Listed(i) PROVE RestoreIsFirst'
  <2>1. tasks'[i].stage \notin {"finding", "waiting", "polling"}
    BY <1>7 DEF Listed, Stops, Blank
  <2>2. QED
    BY <1>7, <1>0, <2>1, NotRestoring, OneTaskLooks DEF Listed, Stops, GoesTo
<1>8. ASSUME NEW i \in Tasks, Failed(i) PROVE RestoreIsFirst'
  <2>1. tasks'[i].stage \notin {"finding", "waiting", "polling"}
    BY <1>8 DEF Failed, Stops, Blank
  <2>2. QED
    BY <1>8, <1>0, <2>1, NotRestoring, OneTaskLooks DEF Failed, Stops, GoesTo
<1>9. ASSUME NEW i \in Tasks, Removed(i) PROVE RestoreIsFirst'
  <2>1. tasks'[i].stage \notin {"finding", "waiting", "polling"}
    BY <1>9 DEF Removed, GoesTo, Went
  <2>2. QED
    BY <1>9, <1>0, <2>1, NotRestoring, OneTaskLooks DEF Removed, Stops, GoesTo
<1>10. ASSUME NEW i \in Tasks, Chosen(i) PROVE RestoreIsFirst'
  <2>1. \A b \in window' : b \in window \/ b.what # "answer"
    BY <1>10 DEF Chosen, Says
  <2>2. ASSUME NEW j \in Tasks PROVE tasks'[j].stage \notin {"finding", "waiting", "polling"}
    <3>1. CASE j = i
      BY <1>10, <3>1 DEF Chosen, GoesTo, Went
    <3>2. CASE j # i
      <4>1. tasks'[j] = tasks[j] /\ Fits(tasks[j].kind, tasks[j].stage)
        BY <1>10, <3>2, TaskIs DEF Chosen, GoesTo, Only
      <4>2. ~ (tasks[j].kind = "init" /\ tasks[j].stage # "ended")
        BY <1>10, <3>2, TasksKnow DEF Chosen
      <4>3. QED
        BY <4>1, <4>2 DEF Fits
    <3>3. QED
      BY <3>1, <3>2
  <2>3. QED
    BY <2>2, NotRestoring, LookingFirstAre
<1>11. ASSUME NEW i \in Tasks, HistoryEnds(i) PROVE RestoreIsFirst'
  <2>1. tasks'[i].stage \notin {"finding", "waiting", "polling"}
    BY <1>11 DEF HistoryEnds, Stops, Blank
  <2>2. \A b \in window' : b \in window \/ b.what # "answer" \/ b.task = i
    BY <1>11, ShownByHistory DEF HistoryEnds
  <2>3. Only(i) /\ mishaps' = mishaps /\ current' = current
    BY <1>11 DEF HistoryEnds, Stops, HistoryShown
  <2>4. QED
    BY <1>0, <2>1, <2>2, <2>3, NotRestoring, OneTaskLooks
<1>12. ASSUME NEW i \in Tasks, RestoreBegins(i) PROVE RestoreIsFirst'
  <2>1. \A b : LooksFirst(b, i, tasks'[i], asks', threads', current')
    BY <1>12 DEF RestoreBegins, LooksFirst, HistoryShown
  <2>2. \A b \in window' : b \in window \/ b.what # "answer" \/ b.task = i
    BY <1>12, ShownByHistory DEF RestoreBegins
  <2>3. Only(i) /\ mishaps' = mishaps /\ current' = current
    BY <1>12 DEF RestoreBegins, HistoryShown
  <2>4. QED
    BY <1>0, <2>1, <2>2, <2>3, OneTaskLooks
<1>13. ASSUME NEW i \in Tasks, Waits(i) PROVE RestoreIsFirst'
  <2>1. Only(i) /\ mishaps \subseteq mishaps' /\ current' = current
    BY <1>13 DEF Waits, GoesTo
  <2>2. \A b \in window' : b \in window \/ b.what # "answer"
    BY <1>13 DEF Waits, Says
  <2>3. ASSUME "blind" \notin mishaps', NEW b \in window'
        PROVE  LooksFirst(b, i, tasks'[i], asks', threads', current')
    <3>1. CASE ~ (b.what = "answer" /\ b.task = i)
      BY <3>1 DEF LooksFirst
    <3>2. CASE b.what = "answer" /\ b.task = i
      <4>1. b \in window /\ b.ask \in Asks /\ asks[b.ask].state = "saved"
        BY <2>2, <3>2 DEF BubblesSound, Used
      <4>2. LooksFirst(b, i, tasks[i], asks, threads, current)
        BY <2>1, <2>3, <4>1, TheyLookFirst
      <4>3. \A s : Seen(b.ask, s, asks', threads') => Seen(b.ask, s, asks, threads)
        BY <1>0, <3>2, <4>1, SeenBefore
      <4>4. tasks[i].reply = "served"
        BY <1>13, <2>3 DEF Waits
      <4>5. asks[b.ask].text = asks[tasks[i].ask].text => b.ask \notin tasks[i].seen
        BY <1>13 DEF Waits, Hits
      <4>6. \A s : Seen(b.ask, s, asks, threads) => Seen(b.ask, None, asks, threads)
        BY DEF Seen
      <4>7. asks[b.ask].text = asks[tasks[i].ask].text => ~ Seen(b.ask, current, asks, threads)
        BY <1>13, <3>2, <4>2, <4>4, <4>5, <4>6 DEF Waits, LooksFirst
      <4>8. /\ tasks'[i].stage = "waiting" /\ tasks'[i].ask = tasks[i].ask
            /\ asks' = asks /\ threads' = threads /\ current' = current
        BY <1>13 DEF Waits, GoesTo, Went
      <4>9. QED
        BY <4>7, <4>8 DEF LooksFirst
    <3>3. QED
      BY <3>1, <3>2
  <2>4. QED
    BY <1>0, <2>1, <2>2, <2>3, OneTaskLooks
<1>14. ASSUME NEW i \in Tasks, HasBeenShown(i) PROVE RestoreIsFirst'
  <2>1. tasks'[i].stage \notin {"finding", "waiting", "polling"}
    BY <1>14 DEF HasBeenShown, Stops, Blank
  <2>2. QED
    BY <1>14, <1>0, <2>1, NotRestoring, OneTaskLooks DEF HasBeenShown, Stops, GoesTo
<1>15. ASSUME NEW i \in Tasks, Polled(i) PROVE RestoreIsFirst'
  <2>1. Only(i) /\ mishaps \subseteq mishaps' /\ current' = current
    BY <1>15 DEF Polled, GoesTo
  <2>2. \A b \in window' : b \in window \/ b.what # "answer"
    BY <1>15 DEF Polled
  <2>3. ASSUME "blind" \notin mishaps', NEW b \in window'
        PROVE  LooksFirst(b, i, tasks'[i], asks', threads', current')
    <3>1. CASE ~ (b.what = "answer" /\ b.task = i)
      BY <3>1 DEF LooksFirst
    <3>2. CASE b.what = "answer" /\ b.task = i
      <4>1. b \in window /\ b.ask \in Asks /\ asks[b.ask].state = "saved"
        BY <2>2, <3>2 DEF BubblesSound, Used
      <4>2. LooksFirst(b, i, tasks[i], asks, threads, current)
        BY <2>1, <2>3, <4>1, TheyLookFirst
      <4>3. \A s : Seen(b.ask, s, asks', threads') => Seen(b.ask, s, asks, threads)
        BY <1>0, <3>2, <4>1, SeenBefore
      <4>4. /\ tasks'[i].stage = "polling" /\ tasks'[i].ask = tasks[i].ask /\ tasks'[i].seen = {}
            /\ asks' = asks /\ threads' = threads /\ current' = current
            /\ tasks[i].stage \in {"waiting", "polling"}
            /\ tasks'[i].scope = current
        BY <1>15 DEF Polled, GoesTo, Went
      <4>5. QED
        BY <3>2, <4>2, <4>4 DEF LooksFirst
    <3>3. QED
      BY <3>1, <3>2
  <2>4. QED
    BY <1>0, <2>1, <2>2, <2>3, OneTaskLooks
<1>16. ASSUME NEW i \in Tasks, HitShown(i) PROVE RestoreIsFirst'
  <2>1. tasks'[i].stage \notin {"finding", "waiting", "polling"}
    BY <1>16 DEF HitShown, GoesTo, Went
  <2>2. \A b \in window' : b \in window \/ b.what # "answer" \/ b.task = i
    BY <1>16 DEF HitShown, Says, WithoutLoading
  <2>3. Only(i) /\ mishaps' = mishaps /\ current' = current
    BY <1>16 DEF HitShown, GoesTo
  <2>4. QED
    BY <1>0, <2>1, <2>2, <2>3, NotRestoring, OneTaskLooks
<1>17. ASSUME NEW i \in Tasks, Restored(i) PROVE RestoreIsFirst'
  <2>1. tasks'[i].stage \notin {"finding", "waiting", "polling"}
    BY <1>17 DEF Restored, Stops, Blank
  <2>2. QED
    BY <1>17, <1>0, <2>1, NotRestoring, OneTaskLooks DEF Restored, Stops, GoesTo, Enabled
<1>18. ASSUME NEW i \in Tasks, WaitsOn(i) PROVE RestoreIsFirst'
  <2>1. Only(i) /\ mishaps \subseteq mishaps' /\ current' = current
    BY <1>18 DEF WaitsOn, GoesTo
  <2>2. \A b \in window' : b \in window \/ b.what # "answer"
    BY <1>18 DEF WaitsOn
  <2>3. ASSUME "blind" \notin mishaps', NEW b \in window'
        PROVE  LooksFirst(b, i, tasks'[i], asks', threads', current')
    <3>1. CASE ~ (b.what = "answer" /\ b.task = i)
      BY <3>1 DEF LooksFirst
    <3>2. CASE b.what = "answer" /\ b.task = i
      <4>1. b \in window /\ b.ask \in Asks /\ asks[b.ask].state = "saved"
        BY <2>2, <3>2 DEF BubblesSound, Used
      <4>2. LooksFirst(b, i, tasks[i], asks, threads, current)
        BY <2>1, <2>3, <4>1, TheyLookFirst
      <4>3. \A s : Seen(b.ask, s, asks', threads') => Seen(b.ask, s, asks, threads)
        BY <1>0, <3>2, <4>1, SeenBefore
      <4>4. /\ tasks'[i].stage = "waiting" /\ tasks'[i].ask = tasks[i].ask /\ tasks'[i].seen = {}
            /\ asks' = asks /\ threads' = threads /\ current' = current
            /\ tasks[i].stage \in {"waiting", "polling"}
            /\ tasks'[i].scope = tasks[i].scope
        BY <1>18 DEF WaitsOn, GoesTo, Went
      <4>5. QED
        BY <3>2, <4>2, <4>4 DEF LooksFirst
    <3>3. QED
      BY <3>1, <3>2
  <2>4. QED
    BY <1>0, <2>1, <2>2, <2>3, OneTaskLooks
<1>19. ASSUME NEW i \in Tasks, GivesUp(i) PROVE RestoreIsFirst'
  <2>1. tasks'[i].stage \notin {"finding", "waiting", "polling"}
    BY <1>19 DEF GivesUp, Stops, Blank
  <2>2. QED
    BY <1>19, <1>0, <2>1, NotRestoring, OneTaskLooks DEF GivesUp, Stops, GoesTo, WithoutLoading, Enabled
<1>20. ASSUME Turned PROVE RestoreIsFirst'
  <2>1. \A b \in window' : b.what # "answer"
    BY <1>20 DEF Turned, Changed, Says
  <2>2. QED
    BY <2>1 DEF RestoreIsFirst
<1>21. ASSUME Clicked PROVE RestoreIsFirst'
  <2>1. tasks'[started + 1].stage \notin {"finding", "waiting", "polling"}
    BY <1>21 DEF Clicked, Fresh
  <2>2. \A b \in window' : b \in window \/ b.what # "answer"
    BY <1>21 DEF Clicked
  <2>3. QED
    BY <1>21, <1>0, <2>1, <2>2, NotRestoring, OneTaskLooks DEF Clicked
<1>22. ASSUME Reloaded PROVE RestoreIsFirst'
  BY <1>22 DEF Reloaded, RestoreIsFirst
<1>23. ASSUME UNCHANGED vars PROVE RestoreIsFirst'
  BY <1>23, <1>0, NoTaskLooks DEF vars, page
<1>24. QED
  BY <1>1, <1>2, <1>3, <1>4, <1>5, <1>6, <1>7, <1>8, <1>9, <1>10, <1>11, <1>12, <1>13,
     <1>14, <1>15, <1>16, <1>17, <1>18, <1>19, <1>20, <1>21, <1>22, <1>23, Zenon DEF PageStep

-----------------------------------------------------------------------------
(* Answers shown twice.                                                    *)

\* A step that shows no answer, ...
LEMMA NoAnswerShown ==
    ASSUME ShownTwiceByOverlapOnly, mishaps \subseteq mishaps',
           \A b \in window' : b \in window \/ b.what # "answer"
    PROVE  ShownTwiceByOverlapOnly'
BY DEF ShownTwiceByOverlapOnly

\* ... and one of a task that may show one it has not shown.
LEMMA TasksAnswerShown ==
    ASSUME PageSound, BubblesSound, AnswersOverlap, ShownTwiceByOverlapOnly, mishaps' = mishaps,
           NEW i \in Tasks, tasks[i].stage # "ended",
           \A b \in window' :
              \/ b \in window
              \/ b.what # "answer"
              \/ /\ b.upto = started /\ b.task = i
                 /\ tasks[i].kind \in {"init", "history"} \/ (tasks[i].kind = "send" /\ b.ask = tasks[i].ask)
                 /\ \A c \in window : c.what = "answer" /\ c.task = i => "blind" \in mishaps \/ c.ask # b.ask
                 /\ \A c \in window' : c \notin window /\ c.what = "answer" /\ c.ask = b.ask => c = b
    PROVE  ShownTwiceByOverlapOnly'
<1> DEFINE New(b) == /\ b.upto = started /\ b.task = i
                     /\ \/ tasks[i].kind \in {"init", "history"}
                        \/ tasks[i].kind = "send" /\ b.ask = tasks[i].ask
                     /\ \A c \in window : c.what = "answer" /\ c.task = i =>
                           "blind" \in mishaps \/ c.ask # b.ask
                     /\ \A c \in window' : c \notin window /\ c.what = "answer" /\ c.ask = b.ask => c = b
           Apart(b, c) == b.task # c.task /\ b.task <= c.upto /\ c.task <= b.upto
<1>1. SUFFICES ASSUME "blind" \notin mishaps, NEW b \in window', NEW c \in window', b # c,
                      b.what = "answer", c.what = "answer", b.ask = c.ask
               PROVE  Apart(b, c)
  BY DEF ShownTwiceByOverlapOnly
<1>2. ASSUME NEW u \in window', NEW v \in window, New(u), u.what = "answer", v.what = "answer",
             u.ask = v.ask
      PROVE  Apart(u, v)
  <2>1. Overlaps(v, i, tasks[i]) /\ v.task <= started
    BY TheyOverlap DEF BubblesSound
  <2>2. u.task <= v.upto
    BY <1>2, <2>1 DEF Overlaps
  <2>3. QED
    BY <1>1, <1>2, <2>1, <2>2
<1>3. CASE b \in window /\ c \in window
  BY <1>1, <1>3 DEF ShownTwiceByOverlapOnly
<1>4. CASE b \notin window /\ c \in window
  <2>1. New(b)
    BY <1>1, <1>4
  <2>2. QED
    BY <1>1, <1>2, <1>4, <2>1
<1>5. CASE b \in window /\ c \notin window
  <2>1. New(c)
    BY <1>1, <1>5
  <2>2. Apart(c, b)
    BY <1>1, <1>2, <1>5, <2>1
  <2>3. QED
    BY <2>2
<1>6. CASE b \notin window /\ c \notin window
  <2>1. New(b)
    BY <1>1, <1>6
  <2>2. QED
    BY <1>1, <1>6, <2>1
<1>7. QED
  BY <1>3, <1>4, <1>5, <1>6

\* A history shows a question's answer once.
LEMMA ShownOnceByHistory ==
    ASSUME PageSound, NEW i \in Tasks, tasks[i].stage = "history", HistoryShown(i), NEW b \in window',
           b \notin window, b.what = "answer"
    PROVE  b = Put(i, "answer", b.ask)
<1>1. PICK n \in tasks[i].seen, w \in {"question", "answer"} : b = Put(i, w, n)
  BY DEF HistoryShown, WithoutLoading
<1>2. n \in Asks
  BY TasksKnow DEF Knows
<1>3. Says(b, w, n, tasks[i].scope, i, tasks[i].moved)
  BY <1>1, <1>2, PutIs DEF What, PageSound
<1>4. QED
  BY <1>1, <1>3 DEF Says

LEMMA ShownTwiceStep ==
    ASSUME PageSound, BubblesSound, AnswersOverlap, RestoreIsFirst, ShownTwiceByOverlapOnly, PageStep
    PROVE  ShownTwiceByOverlapOnly'
<1>1. ASSUME NEW n \in Asks, Answered(n) PROVE ShownTwiceByOverlapOnly'
  BY <1>1, NoAnswerShown DEF Answered
<1>2. ASSUME NEW n \in Asks, Submitted(n) PROVE ShownTwiceByOverlapOnly'
  <2>1. \A b \in window' : b \in window \/ b.what # "answer"
    BY <1>2 DEF Submitted, Says
  <2>2. QED
    BY <1>2, <2>1, NoAnswerShown DEF Submitted
<1>3. ASSUME NEW i \in Tasks, Served(i) PROVE ShownTwiceByOverlapOnly'
  BY <1>3, NoAnswerShown DEF Served
<1>4. ASSUME NEW i \in Tasks, Taken(i) PROVE ShownTwiceByOverlapOnly'
  BY <1>4, NoAnswerShown DEF Taken, WithoutLoading
<1>5. ASSUME NEW i \in Tasks, Shown(i) PROVE ShownTwiceByOverlapOnly'
  <2>1. PICK b, w : /\ window' = window \cup {b}
                    /\ Says(b, w, tasks[i].ask, tasks[i].scope, i, tasks[i].moved)
    BY <1>5 DEF Shown
  <2>2. \A c \in window : ~ (c.what = "answer" /\ c.task = i)
    BY <1>5, TheyOverlap DEF Shown, Overlaps
  <2>3. QED
    BY <1>5, <2>1, <2>2, TasksAnswerShown DEF Shown, Says
<1>6. ASSUME NEW i \in Tasks, SendLost(i) PROVE ShownTwiceByOverlapOnly'
  BY <1>6, NoAnswerShown DEF SendLost, WithoutLoading
<1>7. ASSUME NEW i \in Tasks, Listed(i) PROVE ShownTwiceByOverlapOnly'
  BY <1>7, NoAnswerShown DEF Listed
<1>8. ASSUME NEW i \in Tasks, Failed(i) PROVE ShownTwiceByOverlapOnly'
  BY <1>8, NoAnswerShown DEF Failed
<1>9. ASSUME NEW i \in Tasks, Removed(i) PROVE ShownTwiceByOverlapOnly'
  BY <1>9, NoAnswerShown DEF Removed
<1>10. ASSUME NEW i \in Tasks, Chosen(i) PROVE ShownTwiceByOverlapOnly'
  <2>1. \A b \in window' : b \in window \/ b.what # "answer"
    BY <1>10 DEF Chosen, Says
  <2>2. QED
    BY <1>10, <2>1, NoAnswerShown DEF Chosen
<1>11. ASSUME NEW i \in Tasks, HistoryEnds(i) PROVE ShownTwiceByOverlapOnly'
  <2>1. \A c \in window : ~ (c.what = "answer" /\ c.task = i)
    BY <1>11, TheyOverlap DEF HistoryEnds, Overlaps
  <2>2. ASSUME NEW b \in window', b \notin window, b.what = "answer"
        PROVE  /\ b.upto = started /\ b.task = i /\ b = Put(i, "answer", b.ask)
    BY <1>11, <2>2, ShownByHistory, ShownOnceByHistory DEF HistoryEnds
  <2>3. tasks[i].kind \in {"init", "history"} /\ tasks[i].stage # "ended" /\ mishaps' = mishaps
    BY <1>11 DEF HistoryEnds, HistoryShown
  <2>4. QED
    BY <2>1, <2>2, <2>3, TasksAnswerShown
<1>12. ASSUME NEW i \in Tasks, RestoreBegins(i) PROVE ShownTwiceByOverlapOnly'
  <2>1. \A c \in window : ~ (c.what = "answer" /\ c.task = i)
    BY <1>12, TheyOverlap DEF RestoreBegins, Overlaps
  <2>2. ASSUME NEW b \in window', b \notin window, b.what = "answer"
        PROVE  /\ b.upto = started /\ b.task = i /\ b = Put(i, "answer", b.ask)
    BY <1>12, <2>2, ShownByHistory, ShownOnceByHistory DEF RestoreBegins
  <2>3. tasks[i].kind \in {"init", "history"} /\ tasks[i].stage # "ended" /\ mishaps' = mishaps
    BY <1>12 DEF RestoreBegins, HistoryShown
  <2>4. QED
    BY <2>1, <2>2, <2>3, TasksAnswerShown
<1>13. ASSUME NEW i \in Tasks, Waits(i) PROVE ShownTwiceByOverlapOnly'
  <2>1. \A b \in window' : b \in window \/ b.what # "answer"
    BY <1>13 DEF Waits, Says
  <2>2. QED
    BY <1>13, <2>1, NoAnswerShown DEF Waits
<1>14. ASSUME NEW i \in Tasks, HasBeenShown(i) PROVE ShownTwiceByOverlapOnly'
  BY <1>14, NoAnswerShown DEF HasBeenShown
<1>15. ASSUME NEW i \in Tasks, Polled(i) PROVE ShownTwiceByOverlapOnly'
  BY <1>15, NoAnswerShown DEF Polled
<1>16. ASSUME NEW i \in Tasks, HitShown(i) PROVE ShownTwiceByOverlapOnly'
  <2>0. PICK n \in Hits(i) : \E b, w :
          /\ window' = WithoutLoading(i) \cup {b}
          /\ Says(b, w, n, tasks[i].scope, i, tasks[i].moved)
    BY <1>16 DEF HitShown
  <2>1. PICK b, w :
          /\ window' = WithoutLoading(i) \cup {b}
          /\ Says(b, w, n, tasks[i].scope, i, tasks[i].moved)
    BY <2>0
  <2>2. ASSUME NEW c \in window, c.what = "answer", c.task = i, "blind" \notin mishaps PROVE c.ask # n
    <3>1. LooksFirst(c, i, tasks[i], asks, threads, current)
      BY <2>2, TheyLookFirst
    <3>2. QED
      BY <1>16, <2>2, <3>1 DEF HitShown, LooksFirst, Hits
  <2>3. b.task = i /\ b.ask = n /\ (b.what = "answer" => b.upto = started)
    BY <2>1 DEF Says
  <2>4. \A c \in window' : c \in window \/ c = b
    BY <2>1 DEF WithoutLoading
  <2>5. QED
    BY <1>16, <2>2, <2>3, <2>4, TasksAnswerShown DEF HitShown
<1>17. ASSUME NEW i \in Tasks, Restored(i) PROVE ShownTwiceByOverlapOnly'
  BY <1>17, NoAnswerShown DEF Restored, Enabled
<1>18. ASSUME NEW i \in Tasks, WaitsOn(i) PROVE ShownTwiceByOverlapOnly'
  BY <1>18, NoAnswerShown DEF WaitsOn
<1>19. ASSUME NEW i \in Tasks, GivesUp(i) PROVE ShownTwiceByOverlapOnly'
  BY <1>19, NoAnswerShown DEF GivesUp, WithoutLoading, Enabled
<1>20. ASSUME Turned PROVE ShownTwiceByOverlapOnly'
  <2>1. \A b \in window' : b \in window \/ b.what # "answer"
    BY <1>20 DEF Turned, Says, Changed
  <2>2. QED
    BY <1>20, <2>1, NoAnswerShown DEF Turned
<1>21. ASSUME Clicked PROVE ShownTwiceByOverlapOnly'
  BY <1>21, NoAnswerShown DEF Clicked
<1>22. ASSUME Reloaded PROVE ShownTwiceByOverlapOnly'
  BY <1>22 DEF Reloaded, ShownTwiceByOverlapOnly
<1>23. ASSUME UNCHANGED vars PROVE ShownTwiceByOverlapOnly'
  BY <1>23, NoAnswerShown DEF vars, page
<1>24. QED
  BY <1>1, <1>2, <1>3, <1>4, <1>5, <1>6, <1>7, <1>8, <1>9, <1>10, <1>11, <1>12, <1>13,
     <1>14, <1>15, <1>16, <1>17, <1>18, <1>19, <1>20, <1>21, <1>22, <1>23, Zenon DEF PageStep

-----------------------------------------------------------------------------
(* The invariant, and what follows from it.                                *)

PageInv ==
    /\ PageSound /\ BubblesSound
    /\ TasksOnShow /\ BubblesOnShow
    /\ OneSending
    /\ AnswersOverlap /\ RestoreIsFirst /\ ShownTwiceByOverlapOnly

\* A page that is being loaded shows nothing, and one task runs.
LEMMA InitIs ==
    ASSUME PageInit
    PROVE  /\ PageTypes
           /\ \A n \in Asks : asks[n].state = "unused" /\ asks[n].home = None
           /\ Fresh(tasks[1], "init", "list", None)
           /\ \A i \in Tasks : i # 1 => Blank(tasks[i])
           /\ window = {} /\ inflight = None /\ started = 1
<1> DEFINE t == [Ended EXCEPT !.kind = "init", !.stage = "list"]
<1>1. ASSUME NEW e \in Task, Blank(e), NEW q, q = [e EXCEPT !.kind = "init", !.stage = "list"]
      PROVE  q \in Task /\ Fresh(q, "init", "list", None)
  <2>1. q = [kind |-> "init", stage |-> "list", ask |-> e.ask, scope |-> e.scope,
             reply |-> e.reply, seen |-> e.seen, moved |-> e.moved]
    BY <1>1 DEF Task
  <2>2. QED
    BY <1>1, <2>1 DEF Task, Blank, Fresh, Stage
<1>2. t \in Task /\ Fresh(t, "init", "list", None)
  BY <1>1, EndedIs, Zenon
<1>3. tasks = [i \in Tasks |-> IF i = 1 THEN t ELSE Ended]
  BY Zenon DEF PageInit
<1> HIDE DEF t
<1>4. 1 \in Tasks
  BY BoundsAreNat DEF Tasks
<1>5. /\ tasks \in [Tasks -> Task] /\ tasks[1] = t
      /\ \A i \in Tasks : i # 1 => tasks[i] = Ended
  BY <1>2, <1>3, <1>4, EndedIs
<1>6. NoAsk \in Ask /\ NoAsk.state = "unused" /\ NoAsk.home = None
  BY DEF NoAsk, Ask
<1>7. asks \in [Asks -> Ask] /\ \A n \in Asks : asks[n].state = "unused" /\ asks[n].home = None
  BY <1>6 DEF PageInit
<1>8. threads = 1 .. Known /\ made = Known /\ Known \in 0 .. MaxThreads /\ losses \in 0 .. MaxTasks
  BY BoundsAreNat DEF PageInit
<1>9. PageTypes
  BY <1>4, <1>5, <1>7, <1>8 DEF PageInit, PageTypes
<1>10. QED
  BY <1>2, <1>5, <1>7, <1>9, EndedIs DEF PageInit

LEMMA InvInit == PageInit => PageInv
<1> SUFFICES ASSUME PageInit PROVE PageInv
  OBVIOUS
<1>1. /\ PageTypes
      /\ \A n \in Asks : asks[n].state = "unused" /\ asks[n].home = None
      /\ Fresh(tasks[1], "init", "list", None)
      /\ \A i \in Tasks : i # 1 => Blank(tasks[i])
      /\ window = {} /\ inflight = None /\ started = 1
  BY InitIs
<1>2. AsksFiled
  <2>1. 0 \in 0 .. MaxAsks /\ \A n \in Asks : ~ (n <= 0)
    BY BoundsAreNat DEF Asks
  <2>2. \A n \in Asks : Used(n) <=> n <= 0
    BY <1>1, <2>1 DEF Used
  <2>3. QED
    BY <1>1, <2>1, <2>2 DEF AsksFiled
<1>3. TasksSound
  <2>1. ASSUME NEW i \in Tasks
        PROVE  /\ Knows(tasks[i], asks) /\ tasks[i].stage \in StagesOf[tasks[i].kind]
               /\ i > started => tasks[i].stage = "ended"
    <3>1. Knows(tasks[i], asks)
      <4>1. CASE i = 1
        BY <1>1, <4>1 DEF Fresh, Knows, Fits
      <4>2. CASE i # 1
        BY <1>1, <4>2 DEF Blank, Knows, Fits
      <4>3. QED
        BY <4>1, <4>2
    <3>2. tasks[i].stage \in StagesOf[tasks[i].kind]
      <4>1. tasks[i] \in Task
        BY <1>1 DEF PageTypes
      <4>2. QED
        BY <3>1, <4>1, StagesAre DEF Knows, Task
    <3>3. i > started => i # 1
      BY <1>1
    <3>4. QED
      BY <1>1, <3>1, <3>2, <3>3 DEF Blank
  <2>2. \A i, j \in Running : tasks[i].kind = "init" /\ tasks[j].kind = "init" => i = j
    BY <1>1 DEF Running, Blank
  <2>3. QED
    BY <2>1, <2>2 DEF TasksSound, Knows, Used
<1>4. BubblesSound /\ BubblesOnShow /\ AnswersOverlap /\ RestoreIsFirst /\ ShownTwiceByOverlapOnly
  BY <1>1 DEF BubblesSound, BubblesOnShow, AnswersOverlap, RestoreIsFirst, ShownTwiceByOverlapOnly
<1>5. TasksOnShow
  BY <1>1 DEF Fresh, Blank, TasksOnShow
<1>6. OneSending
  <2>1. Sending = {}
    BY <1>1 DEF Sending, Running, Fresh, Blank
  <2>2. QED
    BY <2>1 DEF OneSending
<1>7. QED
  BY <1>1, <1>2, <1>3, <1>4, <1>5, <1>6 DEF PageInv, PageSound

LEMMA InvNext == PageInv /\ [PageNext]_vars => PageInv'
<1> SUFFICES ASSUME PageInv, [PageNext]_vars PROVE PageInv'
  OBVIOUS
<1>1. PageStep
  BY StepIs DEF PageInv
<1>2. PageSound'
  <2>1. PageTypes' /\ AsksFiled' /\ TasksSound'
    BY <1>1, TypesStep, AsksStep, TasksStep DEF PageInv
  <2>2. QED
    BY <2>1 DEF PageSound
<1>3. BubblesSound' /\ TasksOnShow' /\ BubblesOnShow' /\ OneSending'
  BY <1>1, BubblesStep, TasksOnShowStep, BubblesOnShowStep, OneSendingStep DEF PageInv
<1>4. AnswersOverlap' /\ RestoreIsFirst' /\ ShownTwiceByOverlapOnly'
  BY <1>1, AnswersOverlapStep, RestoreIsFirstStep, ShownTwiceStep DEF PageInv
<1>5. QED
  BY <1>2, <1>3, <1>4 DEF PageInv

LEMMA PageInvariant == PageSpec => []PageInv
BY InvInit, InvNext, PTL DEF PageSpec

\* The page has its type, and no bubble says "loading" for ever: whichever way send(),
\* loadHistory() and restoreInflight() end, the loading bubble is taken away.
THEOREM PageTypeCorrect == PageSpec => []PageTypeOK
<1>1. PageInv => PageTypeOK
  <2>1. SUFFICES ASSUME PageInv PROVE PageTypeOK
    OBVIOUS
  <2>2. \A b \in window : b.what = "loading" => b.task \in Running
    <3>1. \A b \in window : b.task \in Tasks
      BY <2>1 DEF PageInv, PageSound, PageTypes, Bubble
    <3>2. QED
      BY <2>1, <3>1 DEF PageInv, BubblesSound, Running
  <2>3. QED
    BY <2>1, <2>2 DEF PageInv, PageSound, PageTypes, PageTypeOK
<1>2. QED
  BY <1>1, PageInvariant, PTL

\* One question at a time: while send() awaits the reply or the list after it, the button
\* is disabled and no other question is being sent, unless a restore enabled it before.
THEOREM OneQuestion == PageSpec => []OneQuestionAtATime
<1>1. PageInv => OneQuestionAtATime
  <2>1. SUFFICES ASSUME PageInv, "reenabled" \notin mishaps
                 PROVE  Cardinality(Sending) <= 1 /\ (Sending # {} => disabled)
    BY DEF OneQuestionAtATime
  <2>2. (\A i, j \in Sending : i = j) /\ (Sending # {} => disabled)
    BY <2>1 DEF PageInv, OneSending
  <2>3. CASE Sending = {}
    BY <2>3, FS_EmptySet
  <2>4. CASE Sending # {}
    <3>1. PICK i \in Sending : TRUE
      BY <2>4
    <3>2. Sending = {i}
      BY <2>2, <3>1
    <3>3. Cardinality(Sending) = 1
      BY <3>2, FS_Singleton
    <3>4. QED
      BY <2>2, <3>3
  <2>5. QED
    BY <2>3, <2>4
<1>2. QED
  BY <1>1, PageInvariant, PTL

\* What is on show is the conversation on show: a bubble about a question of another thread
\* is there only if its request named no thread, the thread was changed under its task, or
\* init() changed the thread that a user had chosen.
THEOREM ForeignBubbles == PageSpec => []ForeignOnlyAfterSwitch
<1>1. PageInv => ForeignOnlyAfterSwitch
  <2>1. SUFFICES ASSUME PageInv, NEW b \in window, Foreign(b), ~ b.moved, "rechosen" \notin mishaps,
                        b.scope # None
                 PROVE  b.what # "answer" /\ asks[b.ask].thread = None
    BY DEF ForeignOnlyAfterSwitch
  <2>2. b.ask # None /\ current # None /\ asks[b.ask].home \notin {None, current}
    BY <2>1 DEF Foreign
  <2>3. b.ask \in Asks
    BY <2>1, <2>2 DEF PageInv, BubblesSound, Used
  <2>4. asks[b.ask].thread \in {None, asks[b.ask].home}
    BY <2>1, <2>2, <2>3 DEF PageInv, PageSound, AsksFiled
  <2>5. QED
    BY <2>1, <2>2, <2>4 DEF PageInv, BubblesOnShow
<1>2. QED
  BY <1>1, PageInvariant, PTL

\* An answer is on show twice only from two tasks that ran at the same time: the history of
\* init() and the restore after it never both show it, unless the restore's first look-up failed.
THEOREM AnswersShownTwice == PageSpec => []ShownTwiceByOverlapOnly
<1>1. PageInv => ShownTwiceByOverlapOnly
  BY DEF PageInv
<1>2. QED
  BY <1>1, PageInvariant, PTL

=============================================================================
