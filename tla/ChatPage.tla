------------------------------- MODULE ChatPage -------------------------------
(***************************************************************************)
(* The chat page (src/static/js/chat.js, sidebar.js) in one browser tab:   *)
(* which thread is on show, the bubbles in the window, the send button,    *)
(* the question kept in sessionStorage, and the async functions that run   *)
(* at the same time.  The code between two `await`s is one step.           *)
(*                                                                         *)
(* A task is one call of an async function, numbered in order of its       *)
(* start; it awaits one response at a time, and the server answers when it *)
(* likes.  The server is what the page sees of it: its threads and the     *)
(* questions with what became of them.  A reply 401 makes the page go to   *)
(* the login form, which is `Reload` here; HISTORY_TURNS and the limit of  *)
(* five records are taken to be enough for all the questions of a          *)
(* behaviour.  Bubbles that say a network error are about no question and  *)
(* left out of `window`.                                                   *)
(*                                                                         *)
(* Definitions marked "Fault" are no part of the model: each is what a     *)
(* plausible slip would make of the definition after it.                   *)
(***************************************************************************)
EXTENDS Naturals, FiniteSets, FiniteSetsExt

CONSTANTS
    None,        \* JavaScript's null
    Texts,       \* the texts of questions
    Known,       \* how many threads there are at the start
    MaxThreads,  \* bound: threads ever made
    MaxAsks,     \* bound: questions ever sent
    MaxTasks     \* bound: tasks ever started and responses ever lost, together

ASSUME PageAssumption ==
    /\ {Known, MaxThreads, MaxAsks, MaxTasks} \subseteq Nat
    /\ Known <= MaxThreads /\ MaxTasks > 0
    /\ None \notin Texts \cup Nat

Threads == 1 .. MaxThreads
Asks    == 1 .. MaxAsks
Tasks   == 1 .. MaxTasks

VARIABLES
    threads,   \* server: the threads that exist
    made,      \* server: threads ever made
    asks,      \* server: [Asks -> the question, its thread, what became of it]
    current,   \* currentThreadId
    cache,     \* threadsCache
    window,    \* the bubbles on show
    disabled,  \* sendBtn.disabled
    inflight,  \* the record in sessionStorage; its `ask` is history
    tasks,     \* [Tasks -> where the task is]
    started,   \* tasks started so far
    losses,    \* responses lost so far
    mishaps    \* history: "reenabled" - a restore enabled the button under a question
               \* being sent, "rechosen" - init() changed the thread a user had chosen,
               \* "blind" - the first look-up of a question left in flight failed

server == <<threads, made, asks>>
page   == <<current, cache, window, disabled, inflight>>
vars   == <<server, page, tasks, started, losses, mishaps>>

\* `thread`: the one the request names, or None; `home`: the one of its
\* record.  `saved` and `failed` questions have a record, `refused` ones have none.
Ask == [text : Texts \cup {None}, thread : Threads \cup {None}, home : Threads \cup {None},
        state : {"unused", "sent", "saved", "failed", "refused"}]

NoAsk == [text |-> None, thread |-> None, home |-> None, state |-> "unused"]

Stage == {"ended", "list", "history", "finding", "waiting", "polling",
          "asking", "refreshing", "creating", "deleting"}

\* `scope`: the thread the response is about.  `served`: the response is on its way, and
\* `seen` is the set of thread ids or questions in it.
Task == [kind : {"none", "init", "send", "history", "list", "create", "delete"},
         stage : Stage,
         ask : Asks \cup {None}, scope : Threads \cup {None},
         reply : {"none", "served"}, seen : SUBSET (0 .. MaxThreads + MaxAsks),
         moved : BOOLEAN]

Ended == [kind |-> "none", stage |-> "ended", ask |-> None, scope |-> None,
          reply |-> "none", seen |-> {}, moved |-> FALSE]

\* A bubble, with the task that put it there and `from` which stage; history: the tasks
\* started by then, and whether the thread on show had been changed under the task.
Bubble == [what : {"question", "answer", "error", "loading"}, from : Stage, ask : Asks \cup {None},
           scope : Threads \cup {None}, task : Tasks, upto : 0 .. MaxTasks, moved : BOOLEAN]

NewTask(kind, stage, scope) ==
    [Ended EXCEPT !.kind = kind, !.stage = stage, !.scope = scope]

\* init() runs when the page is loaded.
PageInit ==
    /\ threads = 1 .. Known /\ made = Known
    /\ asks = [n \in Asks |-> NoAsk]
    /\ current = None /\ cache = {} /\ window = {} /\ disabled = FALSE
    /\ inflight = None
    /\ tasks = [i \in Tasks |->
                  IF i = 1 THEN [Ended EXCEPT !.kind = "init", !.stage = "list"] ELSE Ended]
    /\ started = 1 /\ losses = 0 /\ mishaps = {}

Running == {i \in Tasks : tasks[i].stage # "ended"}
Sending == {i \in Running : tasks[i].kind = "send"}

\* One more task, or one more loss, is within the bound.
Room == started + losses < MaxTasks

-----------------------------------------------------------------------------
(* The server.                                                             *)

HasRecord(n) == asks[n].state \in {"saved", "failed"} /\ asks[n].home \in threads

\* GET .../chats, of one thread or of the whole account.
RecordsOf(t) == {n \in Asks : HasRecord(n) /\ t \in {None, asks[n].home}}

\* POST /api/chats; without a thread id the record goes to the first thread.
Answer(n) ==
    LET default == IF threads = {} THEN made + 1 ELSE Min(threads)
        target  == IF asks[n].thread = None THEN default ELSE asks[n].thread
    IN  /\ asks[n].state = "sent"
        /\ \/ /\ asks' = [asks EXCEPT ![n].state = "refused"]
              /\ UNCHANGED <<threads, made>>
           \/ /\ target \in threads \/ (asks[n].thread = None /\ made < MaxThreads)
              /\ threads' = threads \cup {target}
              /\ made' = IF target \in threads THEN made ELSE made + 1
              /\ \E s \in {"saved", "failed"} :
                    asks' = [asks EXCEPT ![n].state = s, ![n].home = target]
    /\ UNCHANGED <<page, tasks, started, losses, mishaps>>

Arrives(i, seen) == tasks' = [tasks EXCEPT ![i].reply = "served", ![i].seen = seen]

\* The server serves what task `i` awaits.
Serve(i) ==
    LET t == tasks[i] IN
    /\ t.reply = "none"
    /\ \/ /\ t.stage \in {"list", "refreshing"}
          /\ Arrives(i, threads) /\ UNCHANGED server
       \/ /\ t.stage = "history"
          /\ Arrives(i, {n \in RecordsOf(t.scope) : asks[n].state = "saved"}) /\ UNCHANGED server
       \/ /\ t.stage \in {"finding", "polling"}
          /\ Arrives(i, RecordsOf(t.scope)) /\ UNCHANGED server
       \/ /\ t.stage = "creating" /\ made < MaxThreads
          /\ threads' = threads \cup {made + 1} /\ made' = made + 1
          /\ Arrives(i, {made + 1}) /\ UNCHANGED asks
       \/ /\ t.stage = "deleting" /\ t.scope \in threads
          /\ threads' = threads \ {t.scope}
          /\ Arrives(i, {}) /\ UNCHANGED <<made, asks>>
    /\ UNCHANGED <<page, started, losses, mishaps>>

\* Task `i` has the response it awaits in `stage`.
Awaited(i, stage) ==
    /\ tasks[i].stage = stage
    /\ IF stage = "asking" THEN asks[tasks[i].ask].state # "sent" ELSE tasks[i].reply = "served"
    /\ UNCHANGED losses

\* fetch() throws, or the status is not ok: of a request that changes something the
\* response alone can be lost, too.
Lost(i, stage) ==
    /\ tasks[i].stage = stage
    /\ tasks[i].reply = "none" \/ stage \in {"creating", "deleting"}
    /\ Room /\ losses' = losses + 1

-----------------------------------------------------------------------------
(* Building blocks of the page's code.                                     *)

NewBubble(i, what, from, n, scope) ==
    [what |-> what, from |-> from, ask |-> n, scope |-> scope, task |-> i,
     upto |-> 0, moved |-> FALSE]

Put(i, what, n) ==
    [NewBubble(i, what, tasks[i].stage, n, tasks[i].scope) EXCEPT
         !.upto = IF what = "answer" THEN started ELSE 0, !.moved = tasks[i].moved]

\* Fault: the loading bubble is forgotten.
LoadingKept(i) == window

\* The bubbles without the one that says task `i` is loading.
WithoutLoading(i) == {b \in window : ~ (b.what = "loading" /\ b.task = i)}

\* The first thread of the list, or none.
First(list) == IF list = {} THEN None ELSE Min(list)

\* loadThreads keeps the list it has when its request fails.
Loaded(i) == IF tasks[i].reply = "served" THEN tasks[i].seen ELSE cache

Goes(i, stage, scope) ==
    tasks' = [tasks EXCEPT ![i].stage = stage, ![i].scope = scope, ![i].reply = "none", ![i].seen = {}]

Ends(i) == tasks' = [tasks EXCEPT ![i] = Ended]

\* Fault: the bubbles of the thread that was on show stay.
KeptWindow == window

\* clearWindow.
ClearedWindow == {}

\* Another thread is put on show under the tasks that run, and the next task is
\* started, the one of `ending` ends.  A history's loading bubble is added at once.
PutOnShow(id, kind, ending) ==
    LET j == started + 1
        moved(t) == [t EXCEPT !.moved = t.stage # "ended"]
    IN  /\ Room
        /\ current' = id
        /\ started' = j
        /\ tasks' = [i \in Tasks |->
                       IF i = j THEN NewTask(kind, kind, IF kind = "history" THEN id ELSE None)
                       ELSE IF i \in ending THEN Ended ELSE moved(tasks[i])]
        /\ window' = ClearedWindow \cup
              (IF kind = "history" THEN {NewBubble(j, "loading", kind, None, id)} ELSE {})

-----------------------------------------------------------------------------
(* Sending a question: send().                                             *)

Submit(x) ==
    LET n == Cardinality({m \in Asks : asks[m].state # "unused"}) + 1
        i == started + 1
        t == [NewTask("send", "asking", current) EXCEPT !.ask = n]
        b == NewBubble(i, "question", "asking", n, current)
    IN  /\ ~ disabled
        /\ n \in Asks /\ Room
        /\ started' = i
        /\ asks' = [asks EXCEPT ![n] = [NoAsk EXCEPT !.text = x, !.thread = current, !.state = "sent"]]
        /\ tasks' = [tasks EXCEPT ![i] = t]
        /\ window' = window \cup {b, [b EXCEPT !.what = "loading"]}
        /\ disabled' = TRUE
        /\ inflight' = [thread |-> current, text |-> x, ask |-> n]
        /\ UNCHANGED <<threads, made, current, cache, losses, mishaps>>

\* Fault: the button is enabled with the answer, before the list is loaded.
EnabledEarly(d) == FALSE

AfterReply(d) == d

\* The reply is there: the list is loaded before it is shown.
TakeReply(i) ==
    /\ Awaited(i, "asking")
    /\ window' = WithoutLoading(i)
    /\ inflight' = None
    /\ disabled' = AfterReply(disabled)
    /\ Goes(i, "refreshing", tasks[i].scope)
    /\ UNCHANGED <<server, current, cache, started, mishaps>>

\* The reply is shown, in whatever window there is now.
ShowReply(i) ==
    LET n == tasks[i].ask IN
    /\ tasks[i].kind = "send" /\ (Awaited(i, "refreshing") \/ Lost(i, "refreshing"))
    /\ cache' = Loaded(i)
    /\ current' = IF current = None THEN First(cache') ELSE current
    /\ window' = window \cup {Put(i, IF asks[n].state = "saved" THEN "answer" ELSE "error", n)}
    /\ disabled' = FALSE
    /\ Ends(i)
    /\ UNCHANGED <<server, inflight, started, mishaps>>

\* The network failed: the question stays in sessionStorage.
SendFails(i) ==
    /\ Lost(i, "asking")
    /\ window' = WithoutLoading(i)
    /\ disabled' = FALSE
    /\ Ends(i)
    /\ UNCHANGED <<server, current, cache, inflight, started, mishaps>>

-----------------------------------------------------------------------------
(* Threads: switchThread, newThread, deleteThread, loadThreads.            *)

Switch(id) ==
    /\ id \in cache /\ id # current
    /\ PutOnShow(id, "history", {})
    /\ UNCHANGED <<server, cache, disabled, inflight, losses, mishaps>>

\* A click on "new chat" or on a thread's cross: the request goes out.
Click(kind, stage, scope) ==
    /\ Room
    /\ started' = started + 1
    /\ tasks' = [tasks EXCEPT ![started + 1] = NewTask(kind, stage, scope)]
    /\ UNCHANGED <<server, page, losses, mishaps>>

\* hooks.create: the new thread is shown and the list is loaded again.
Created(i) ==
    /\ Awaited(i, "creating")
    /\ PutOnShow(Min(tasks[i].seen), "list", {i})
    /\ UNCHANGED <<server, cache, disabled, inflight, mishaps>>

\* A creation or a deletion fails: hooks.error shows it.
ClickFails(i) ==
    /\ Lost(i, "creating") \/ Lost(i, "deleting")
    /\ Ends(i)
    /\ UNCHANGED <<server, page, started, mishaps>>

Deleted(i) ==
    /\ Awaited(i, "deleting")
    /\ Goes(i, "list", tasks[i].scope)
    /\ UNCHANGED <<server, page, started, mishaps>>

\* The list is there; after a deletion hooks.afterDelete leaves the deleted thread.
ShowList(i) ==
    /\ tasks[i].kind \in {"list", "delete"} /\ (Awaited(i, "list") \/ Lost(i, "list"))
    /\ cache' = Loaded(i)
    /\ IF tasks[i].kind = "delete" /\ tasks[i].scope = current
       THEN PutOnShow(First(cache' \ {tasks[i].scope}), "history", {i})
       ELSE Ends(i) /\ UNCHANGED <<current, window, started>>
    /\ UNCHANGED <<server, disabled, inflight, mishaps>>

-----------------------------------------------------------------------------
(* Loading the page: init(), loadHistory(), restoreInflight().             *)

\* The browser loads the page again: its tasks end, the server's do not.
Reload ==
    /\ Room
    /\ started' = started + 1
    /\ tasks' = [i \in Tasks |->
                   IF i = started + 1 THEN NewTask("init", "list", None) ELSE Ended]
    /\ current' = None /\ cache' = {} /\ window' = {} /\ disabled' = FALSE
    /\ UNCHANGED <<server, inflight, losses, mishaps>>

\* init() has the list: the thread of the URL if it is there, or the first.
ChooseThread(i) ==
    /\ tasks[i].kind = "init" /\ (Awaited(i, "list") \/ Lost(i, "list"))
    /\ cache' = Loaded(i)
    /\ current' \in IF cache' = {} THEN {current} ELSE cache'
    /\ Goes(i, "history", current')
    /\ window' = window \cup {[Put(i, "loading", None) EXCEPT !.scope = current']}
    /\ mishaps' = mishaps \cup (IF current \in {None, current'} THEN {} ELSE {"rechosen"})
    /\ UNCHANGED <<server, disabled, inflight, started>>

\* restoreInflight goes on: there is a question, and it is of the thread on show.  The
\* record may also be too old.
Restores == inflight # None /\ inflight.thread \in {None, current}

\* loadHistory has its records: they are put into whatever window there is now.
ShowHistory(i) ==
    /\ Awaited(i, "history") \/ Lost(i, "history")
    /\ window' = WithoutLoading(i) \cup
          UNION {{Put(i, "question", n), Put(i, "answer", n)} : n \in tasks[i].seen}
    /\ \/ Ends(i)
       \/ /\ tasks[i].kind = "init" /\ Restores
          /\ tasks' = [tasks EXCEPT ![i] = [@ EXCEPT !.stage = "finding", !.scope = current, !.ask = inflight.ask,
                                               !.reply = "none", !.seen = {}]]
    /\ UNCHANGED <<server, current, cache, disabled, inflight, started, mishaps>>

\* The records with the text of the question: that is all the page knows it by.
Hits(i) == {n \in tasks[i].seen : asks[n].text = asks[tasks[i].ask].text}

\* Fault: the history is not looked at first.
NoneFound(i) == TRUE

NotFound(i) == Hits(i) = {}

\* The first look-up: what has a record by now is taken to be in the history.  A
\* look-up that failed has found nothing.
FindFirst(i) ==
    LET q == [Put(i, "question", tasks[i].ask) EXCEPT !.scope = current] IN
    /\ Awaited(i, "finding") \/ Lost(i, "finding")
    /\ \/ /\ NotFound(i)
          /\ window' = window \cup {q, [q EXCEPT !.what = "loading"]}
          /\ disabled' = TRUE
          /\ Goes(i, "waiting", current)
          /\ mishaps' = mishaps \cup (IF tasks[i].reply = "served" THEN {} ELSE {"blind"})
          /\ UNCHANGED inflight
       \/ /\ ~ NotFound(i)
          /\ inflight' = None
          /\ Ends(i)
          /\ UNCHANGED <<window, disabled, mishaps>>
    /\ UNCHANGED <<server, current, cache, started>>

Poll(i) ==
    /\ tasks[i].stage = "waiting"
    /\ Goes(i, "polling", current)
    /\ UNCHANGED <<server, page, started, losses, mishaps>>

\* The end of restoreInflight: the button is enabled, whoever disabled it.
Enables ==
    /\ disabled' = FALSE
    /\ mishaps' = mishaps \cup (IF Sending = {} THEN {} ELSE {"reenabled"})

\* The question has a record: its answer, or its error, is shown.
ShowHit(i) ==
    /\ Awaited(i, "polling")
    /\ \E n \in Hits(i) :
          window' = WithoutLoading(i) \cup
                      {Put(i, IF asks[n].state = "saved" THEN "answer" ELSE "error", n)}
    /\ inflight' = None
    /\ Goes(i, "refreshing", tasks[i].scope)
    /\ UNCHANGED <<server, current, cache, disabled, started, mishaps>>

RestoreEnds(i) ==
    /\ tasks[i].kind = "init" /\ (Awaited(i, "refreshing") \/ Lost(i, "refreshing"))
    /\ cache' = Loaded(i)
    /\ Enables /\ Ends(i)
    /\ UNCHANGED <<server, current, window, inflight, started>>

\* No record yet: another poll, or it has taken INFLIGHT_TTL_MS.
NoHit(i) ==
    /\ Awaited(i, "polling") \/ Lost(i, "polling")
    /\ Hits(i) = {}
    /\ \/ /\ Goes(i, "waiting", tasks[i].scope)
          /\ UNCHANGED <<window, disabled, mishaps>>
       \/ /\ window' = WithoutLoading(i)
          /\ Enables /\ Ends(i)
    /\ UNCHANGED <<server, current, cache, inflight, started>>

-----------------------------------------------------------------------------
TaskStep(i) ==
    \/ TakeReply(i) \/ ShowReply(i) \/ SendFails(i)
    \/ Created(i) \/ ClickFails(i) \/ Deleted(i) \/ ShowList(i)
    \/ ChooseThread(i) \/ ShowHistory(i) \/ FindFirst(i) \/ Poll(i)
    \/ ShowHit(i) \/ RestoreEnds(i) \/ NoHit(i)

PageNext ==
    \/ \E n \in Asks : Answer(n)
    \/ \E i \in Tasks : Serve(i) \/ TaskStep(i)
    \/ \E x \in Texts : Submit(x)
    \/ \E id \in Threads : Switch(id) \/ (id \in cache /\ Click("delete", "deleting", id))
    \/ Click("create", "creating", None)
    \/ Reload

PageSpec == PageInit /\ [][PageNext]_vars

-----------------------------------------------------------------------------
(* What makes it correct.                                                  *)

\* The state has its type, and a bubble that says "loading" is a running task's: none
\* is left behind on any of the ways out of send, loadHistory and restoreInflight.
PageTypeOK ==
    /\ threads \subseteq 1 .. made /\ made \in 0 .. MaxThreads
    /\ asks \in [Asks -> Ask]
    /\ current \in Threads \cup {None} /\ cache \subseteq Threads
    /\ window \subseteq Bubble
    /\ disabled \in BOOLEAN
    /\ mishaps \subseteq {"reenabled", "rechosen", "blind"}
    /\ inflight \in [thread : Threads \cup {None}, text : Texts, ask : Asks] \cup {None}
    /\ tasks \in [Tasks -> Task] /\ started \in Tasks /\ losses \in 0 .. MaxTasks
    /\ \A b \in window : b.what = "loading" => b.task \in Running

\* A bubble of a question of another thread than the one on show.
Foreign(b) ==
    b.ask # None /\ current # None /\ asks[b.ask].home \notin {None, current}

\* What is on show is the conversation on show (chat.js): a bubble of another thread is
\* there only if its request named no thread, or went out before the thread was changed
\* and its response came after, or if init() changed the thread without clearing it.
ForeignOnlyAfterSwitch ==
    \A b \in window :
        Foreign(b) => \/ b.scope = None \/ (b.what # "answer" /\ asks[b.ask].thread = None)
                      \/ b.moved
                      \/ "rechosen" \in mishaps

\* An answer is shown twice only by two tasks that ran at the same time: the history
\* and the restore of a question left in flight by a reload never both show it, unless
\* the restore could not look before it waits.
ShownTwiceByOverlapOnly ==
    \/ "blind" \in mishaps
    \/ \A b, c \in window :
           b # c /\ b.what = "answer" /\ c.what = "answer" /\ b.ask = c.ask =>
               b.task # c.task /\ b.task <= c.upto /\ c.task <= b.upto

\* One question at a time: the button is disabled until the reply is shown, unless a
\* restore that the question overtook has enabled it.
OneQuestionAtATime ==
    \/ "reenabled" \in mishaps
    \/ Cardinality(Sending) <= 1 /\ (Sending # {} => disabled)

-----------------------------------------------------------------------------
(* The inductive invariants behind these.                                    *)

Used(n) == n \in Asks /\ asks[n].state # "unused"

\* Questions are numbered in order; one with a record knows its thread, the one its
\* request named if it named one.
AsksFiled ==
    /\ \E k \in 0 .. MaxAsks : \A n \in Asks : Used(n) <=> n <= k
    /\ \A n \in Asks :
          /\ asks[n].home # None <=> asks[n].state \in {"saved", "failed"}
          /\ asks[n].home # None => asks[n].home <= made /\ asks[n].thread \in {None, asks[n].home}
    /\ inflight # None => Used(inflight.ask) /\ asks[inflight.ask].thread = inflight.thread

\* The stages that the functions of the page go through.
StagesOf ==
    [none |-> {"ended"}, init |-> {"list", "history", "finding", "waiting", "polling", "refreshing"},
     send |-> {"asking", "refreshing"}, history |-> {"history"}, list |-> {"list"},
     create |-> {"creating"}, delete |-> {"deleting", "list"}]

\* What a task knows: its stage, its question, what is in the response.
TasksSound ==
    /\ \A i \in Tasks : i > started => tasks[i].stage = "ended"
    /\ \A i, j \in Running : tasks[i].kind = "init" /\ tasks[j].kind = "init" => i = j
    /\ \A i \in Tasks : LET t == tasks[i] IN
          /\ t.stage \in StagesOf[t.kind]
          /\ t.kind = "send" => Used(t.ask) /\ asks[t.ask].thread = t.scope
          /\ t.stage \in {"finding", "waiting", "polling"} => Used(t.ask)
          /\ t.stage = "finding" => asks[t.ask].thread \in {None, t.scope}
          /\ t.reply = "none" => t.seen = {}
          /\ t.stage \in {"list", "refreshing", "creating"} => t.seen \subseteq Threads
          /\ t.stage = "creating" /\ t.reply = "served" => t.seen # {}
          /\ t.stage \in {"history", "finding", "polling"} => \A n \in t.seen :
                /\ n \in Asks /\ asks[n].home # None /\ t.scope \in {None, asks[n].home}
                /\ t.stage = "history" => asks[n].state = "saved"

\* What a bubble knows.
BubblesSound ==
    \A b \in window :
        /\ b.task <= started
        /\ b.what = "loading" => tasks[b.task].stage \in {"asking", "history", "waiting", "polling"}
        /\ b.what = "answer" => Used(b.ask) /\ asks[b.ask].state = "saved"
        /\ b.ask # None => Used(b.ask)

\* A task that has not been overtaken is about the thread on show, and so is its bubble; the
\* bubble's question is of that thread, or will be.
TasksOnShow ==
    \A i \in Tasks : tasks[i].kind \in {"init", "send", "history"} =>
        tasks[i].moved \/ "rechosen" \in mishaps \/ tasks[i].scope \in {None, current}

BubblesOnShow ==
    \A b \in window :
        \/ b.moved \/ "rechosen" \in mishaps \/ b.scope = None
        \/ /\ b.scope = current
           /\ \/ b.ask = None
              \/ b.scope \in {asks[b.ask].thread, asks[b.ask].home}
              \/ b.what # "answer" /\ asks[b.ask].thread = None

\* Only one question is sent at a time.
OneSending ==
    \/ "reenabled" \in mishaps
    \/ (\A i, j \in Sending : i = j) /\ (Sending # {} => disabled)

\* The answers on show were put there after the tasks that can still show them started, ...
AnswersOverlap ==
    \A b \in window, i \in Running : b.what = "answer" =>
        /\ tasks[i].kind \in {"init", "history"} => i <= b.upto
        /\ tasks[i].kind = "send" /\ b.ask = tasks[i].ask => i <= b.upto
        /\ b.task = i => tasks[i].kind = "init" /\ tasks[i].stage \notin {"list", "history"}

\* ... and a restore will not find one that its own history has shown.
Visible(n, t) == HasRecord(n) /\ t \in {None, asks[n].home}

RestoreIsFirst ==
    "blind" \notin mishaps =>
        \A b \in window, i \in Running :
            LET t == tasks[i] IN
            b.what = "answer" /\ b.task = i /\ asks[b.ask].text = asks[t.ask].text =>
                /\ t.stage = "finding" =>
                      /\ t.scope \in {None, current}
                      /\ t.reply = "served" /\ Visible(b.ask, t.scope) => b.ask \in t.seen
                /\ t.stage \in {"waiting", "polling"} => ~ Visible(b.ask, current)
                /\ t.stage = "polling" => ~ Visible(b.ask, t.scope) /\ b.ask \notin t.seen

=============================================================================
