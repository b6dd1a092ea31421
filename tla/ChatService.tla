----------------------------- MODULE ChatService -----------------------------
(***************************************************************************)
(* Conversations ("threads"), their records ("chat_logs") and the request  *)
(* handlers that read and write them:                                      *)
(*                                                                         *)
(*   Chats     POST /api/chats            (src/app/routers/chat.py)        *)
(*   Creators  POST /api/thread           (src/app/routers/threads.py)     *)
(*   Deleters  DELETE /api/thread/{id}    (src/app/routers/threads.py)     *)
(*                                                                         *)
(* Creators and Deleters are `def` endpoints: each runs in a worker thread *)
(* and interleaves with everything at the granularity of one statement or  *)
(* commit.  A chat is an `async def` endpoint: the code between two awaits *)
(* holds the event loop, so no other chat moves there, but the worker      *)
(* threads do.  The only await of a chat is the AI call.                   *)
(*                                                                         *)
(* Definitions marked "Fault" are no part of the model: each is what a      *)
(* plausible slip would make of the definition after it, and shows that a   *)
(* property can fail.                                                      *)
(*                                                                         *)
(* A member of Chats is one request; a member of Creators or Deleters is a *)
(* worker thread that serves one request after the other.                  *)
(***************************************************************************)
EXTENDS Naturals, FiniteSets

CONSTANTS
    Users,         \* the accounts, by the id their rows have
    Chats,         \* the chat requests of a behaviour
    Creators,      \* the worker threads that serve thread creation
    Deleters,      \* the worker threads that serve thread deletion
    None,          \* SQL NULL, and "no such row"
    ContextTurns,  \* settings.context_turns
    MaxThreads,    \* settings.max_threads_per_user
    RowidReuse,    \* TRUE on SQLite: a deleted last id is given out again
    Legacy,        \* the users that have a record from before threads existed
    MaxCreated     \* bound: threads inserted in a behaviour

DefaultTitle == "default"
ThreadId == 1 .. MaxCreated
Titles   == {None, DefaultTitle} \cup Chats

\* A row of `threads`.  `conv` is a history variable: the number of the
\* insertion that made the row, which two rows never share even when the
\* database gives the second one the id of the first.
Thread == [user : Users, title : Titles, conv : ThreadId]

\* A row of `chat_logs`.  `chat` is the request that wrote it (None: a legacy
\* record) and `conv` the conversation that request was admitted to.
Log == [id : Nat, chat : Chats \cup {None}, user : Users,
        thread : ThreadId \cup {None}, conv : ThreadId \cup {None},
        status : {"success", "ai_error"}]

ChatPc == {"idle", "authed", "creating", "resolved", "awaiting", "answered",
           "saved", "done"}

\* What became of the request: its HTTP status, 499 standing for no reply at all
\* (the task was cancelled or the process died).
Lost == 499
ChatCode == {None, 200, 201, 404, 429, Lost, 500, 502, 504}

\* The local state of a chat request: `thread` and `title` are what the session
\* holds of the thread object, `context` what was put in the prompt.
ChatRequest ==
    [pc : ChatPc, user : Users \cup {None}, target : ThreadId \cup {None},
     thread : ThreadId \cup {None}, conv : ThreadId \cup {None},
     title : Titles, context : SUBSET Log,
     outcome : {None, "success", "error", "timeout"},
     stored : BOOLEAN, code : ChatCode]

\* A creation between its count and its insert, for `user`.
CreatorRequest == [pc : {"idle", "counted"}, user : Users \cup {None}]

\* A deletion between its ownership check and its delete.
DeleterRequest == [pc : {"idle", "checked"}, user : Users \cup {None},
                   thread : ThreadId \cup {None}, conv : ThreadId \cup {None}]

ASSUME ConstantsAssumption ==
    /\ ContextTurns \in Nat
    /\ MaxThreads \in Nat \ {0}
    /\ MaxCreated \in Nat
    /\ RowidReuse \in BOOLEAN
    /\ Legacy \subseteq Users
    /\ IsFiniteSet(Creators)

\* None is none of the values it stands beside.
ASSUME NoneAssumption ==
    /\ None \notin Users
    /\ None \notin Chats
    /\ None \notin ThreadId
    /\ None \notin Thread
    /\ None \notin {200, 201, 404, 429, Lost, 500, 502, 504}
    /\ None \notin {"success", "error", "timeout"}
    /\ None # DefaultTitle
    /\ DefaultTitle \notin Chats

VARIABLES
    users,    \* the ids that have a row in `users`
    threads,  \* [ThreadId -> row of `threads`, or None]
    logs,     \* the rows of `chat_logs`
    created,  \* how many rows were ever inserted into `threads`
    written,  \* how many rows were ever inserted into `chat_logs`
    chat,     \* [Chats -> the request's local state]
    creator,  \* [Creators -> the local state of the request it serves]
    deleter   \* [Deleters -> the local state of the request it serves]

db   == <<users, threads, logs, created, written>>
vars == <<users, threads, logs, created, written, chat, creator, deleter>>

\* A request without a session: before it was accepted, or after it has ended.
Bare(pc, user, conv, code) ==
    [pc |-> pc, user |-> user, target |-> None, thread |-> None, conv |-> conv,
     title |-> None, context |-> {}, outcome |-> None, stored |-> FALSE, code |-> code]

NewChat == Bare("idle", None, None, None)

IdleCreator == [pc |-> "idle", user |-> None]
IdleDeleter == [pc |-> "idle", user |-> None, thread |-> None, conv |-> None]

\* A database that may hold records written before threads existed.
LegacyLogs ==
    {[id |-> 0, chat |-> None, user |-> u, thread |-> None, conv |-> None,
      status |-> "success"] : u \in Legacy}

Init ==
    /\ users = Users
    /\ threads = [t \in ThreadId |-> None]
    /\ logs = LegacyLogs
    /\ created = 0
    /\ written = 0
    /\ chat = [c \in Chats |-> NewChat]
    /\ creator = [k \in Creators |-> IdleCreator]
    /\ deleter = [d \in Deleters |-> IdleDeleter]

-----------------------------------------------------------------------------
(* The tables.                                                             *)

Exists(t) == t \in ThreadId /\ threads[t] # None

ThreadsOf(u) == {t \in ThreadId : Exists(t) /\ threads[t].user = u}

\* threads.get_thread with its user filter.
GetThread(t, u) == Exists(t) /\ threads[t].user = u

\* SQLite without AUTOINCREMENT: one above the greatest id in use.
NextRowid(t) ==
    /\ \A s \in ThreadId : Exists(s) => s < t
    /\ t > 1 => Exists(t - 1)

\* The id the database gives a new row of `threads`; a sequence never goes back.
IsNewId(t) == IF RowidReuse THEN NextRowid(t) ELSE t = created + 1

InsertThread(t, u, title) ==
    /\ created < MaxCreated
    /\ IsNewId(t)
    /\ created' = created + 1
    /\ threads' = [threads EXCEPT ![t] = [user |-> u, title |-> title, conv |-> created + 1]]

\* Fault: off by one.
UpToCap(u) == Cardinality(ThreadsOf(u)) <= MaxThreads

BelowCap(u) == Cardinality(ThreadsOf(u)) < MaxThreads

\* Fault: the default thread is inserted without the update of the old records.
NotAdopted(u, t) == logs

\* The records of `u` without a thread are put in thread `t`.
Adopted(u, t) ==
    {IF l.user = u /\ l.thread = None THEN [l EXCEPT !.thread = t, !.conv = created + 1]
                                      ELSE l : l \in logs}

\* Fault: the filter on the thread is left out.
ContextOfUser(u, t) ==
    {l \in logs : l.user = u /\ l.status = "success"
        /\ Cardinality({m \in logs : m.user = u /\ m.status = "success" /\ m.id > l.id})
             < ContextTurns}

\* Fault: ORDER BY id ASC.
OldestContext(u, t) ==
    LET ok == {l \in logs : l.user = u /\ l.thread = t /\ l.status = "success"}
    IN  {l \in ok : Cardinality({m \in ok : m.id < l.id}) < ContextTurns}

\* chat_logs.successful_context: the newest ContextTurns successful records of
\* this user in this thread.
SuccessfulContext(u, t) ==
    LET ok == {l \in logs : l.user = u /\ l.thread = t /\ l.status = "success"}
    IN  {l \in ok : Cardinality({m \in ok : m.id > l.id}) < ContextTurns}

-----------------------------------------------------------------------------
(* POST /api/chats                                                         *)

\* A chat in one of these places is between two awaits: it holds the event loop.
HoldsLoop(c) == chat[c].pc \in {"creating", "resolved", "answered", "saved"}

\* Fault: an await among the steps before the AI call.
LoopAlwaysFree == TRUE

LoopFree == \A c \in Chats : ~ HoldsLoop(c)

\* What is left of a request that has ended: who asked, the conversation it was
\* admitted to (both history) and its code.  Its session and locals are gone.
Ended(c, code) == Bare("done", chat[c].user, chat[c].conv, code)

Reply(c, code) == chat' = [chat EXCEPT ![c] = Ended(c, code)]

\* The ids a client can have learned, and the next one, which may appear before
\* the request is looked at.  Every other id is a 404 like the next one.
KnownIds == {t \in ThreadId : t <= created + 1}

\* get_current_user ran in a worker thread and found the account.
Arrive(c) ==
    /\ chat[c].pc = "idle"
    /\ \E u \in users, t \in KnownIds \cup {None} :
          chat' = [chat EXCEPT ![c].pc = "authed", ![c].user = u, ![c].target = t]
    /\ UNCHANGED <<db, creator, deleter>>

\* The rate limiter refuses (module SlidingWindow says when).
Refuse(c) ==
    /\ chat[c].pc = "authed" /\ LoopFree
    /\ Reply(c, 429)
    /\ UNCHANGED <<db, creator, deleter>>

\* The session now holds the thread object, with the title it has at this moment.
Hold(c, t) ==
    chat' = [chat EXCEPT ![c].pc = "resolved", ![c].thread = t,
                         ![c].conv = threads[t].conv, ![c].title = threads[t].title]

ResolveGiven(c) ==
    /\ chat[c].pc = "authed" /\ LoopFree
    /\ chat[c].target # None
    /\ IF GetThread(chat[c].target, chat[c].user)
       THEN Hold(c, chat[c].target)
       ELSE Reply(c, 404)
    /\ UNCHANGED <<db, creator, deleter>>

\* resolve_default_thread: the user's oldest thread ...
ResolveDefault(c) ==
    /\ chat[c].pc = "authed" /\ LoopFree
    /\ chat[c].target = None
    /\ \/ \E t \in ThreadsOf(chat[c].user) :
             /\ \A s \in ThreadsOf(chat[c].user) : t <= s
             /\ Hold(c, t)
       \/ /\ ThreadsOf(chat[c].user) = {}
          /\ chat' = [chat EXCEPT ![c].pc = "creating"]
    /\ UNCHANGED <<db, creator, deleter>>

\* ... or, when the query found none, a new one that adopts the user's records
\* without a thread.  The insert fails when the account has gone meanwhile.
CreateDefault(c) ==
    /\ chat[c].pc = "creating"
    /\ \/ /\ chat[c].user \in users
          /\ \E t \in ThreadId :
                /\ InsertThread(t, chat[c].user, DefaultTitle)
                /\ logs' = Adopted(chat[c].user, t)
                /\ chat' = [chat EXCEPT ![c].pc = "resolved", ![c].thread = t,
                                        ![c].conv = created + 1, ![c].title = DefaultTitle]
          /\ UNCHANGED <<users, written>>
       \/ /\ chat[c].user \notin users
          /\ Reply(c, 500)
          /\ UNCHANGED db
    /\ UNCHANGED <<creator, deleter>>

\* successful_context, build_messages, then the AI call: the first await.
LoadContext(c) ==
    /\ chat[c].pc = "resolved"
    /\ chat' = [chat EXCEPT ![c].pc = "awaiting",
                            ![c].context = SuccessfulContext(chat[c].user, chat[c].thread)]
    /\ UNCHANGED <<db, creator, deleter>>

Resume(c, outcome) ==
    /\ chat[c].pc = "awaiting" /\ LoopFree
    /\ chat' = [chat EXCEPT ![c].pc = "answered", ![c].outcome = outcome]
    /\ UNCHANGED <<db, creator, deleter>>

AiAnswers(c) == Resume(c, "success")
AiFails(c)   == Resume(c, "error")
\* Fault: the call is awaited without a budget.
NoTimer(c) == FALSE

\* asyncio.timeout(settings.ai_timeout_sec) around the call.
AiTimeout(c) == Resume(c, "timeout")

\* The call raises what the handler does not catch (module AiCall says when): nothing
\* is saved and the thread is not touched.
AiRaises(c) ==
    /\ chat[c].pc = "awaiting" /\ LoopFree
    /\ Reply(c, 500)
    /\ UNCHANGED <<db, creator, deleter>>

\* The request's task is cancelled while it waits: CancelledError is none of
\* the exceptions the handler catches, so nothing is recorded.
Cancel(c) ==
    /\ chat[c].pc = "awaiting"
    /\ Reply(c, Lost)
    /\ UNCHANGED <<db, creator, deleter>>

\* Fault: the outcome is stored as it is.
RawStatus(outcome) == outcome

StatusOf(outcome) == IF outcome = "success" THEN "success" ELSE "ai_error"

\* Fault: PRAGMA foreign_keys left OFF.
NoForeignKeys(c) == TRUE

\* Both foreign keys of the new row must hold when it is inserted.
ForeignKeysHold(c) == chat[c].user \in users /\ Exists(chat[c].thread)

\* save_chat_attempt, when the insert commits.
Save(c) ==
    /\ chat[c].pc = "answered"
    /\ ForeignKeysHold(c)
    /\ written' = written + 1
    /\ logs' = logs \cup {[id |-> written + 1, chat |-> c, user |-> chat[c].user,
                           thread |-> chat[c].thread, conv |-> chat[c].conv,
                           status |-> StatusOf(chat[c].outcome)]}
    /\ chat' = [chat EXCEPT ![c].pc = "saved", ![c].stored = TRUE]
    /\ UNCHANGED <<users, threads, created, creator, deleter>>

\* save_chat_attempt, when the insert fails (a foreign key, a locked or lost
\* database): the rollback expires the thread object, so the handler's next use
\* of thread.id reads the row again, and raises when the row has gone.
SaveFails(c) ==
    /\ chat[c].pc = "answered"
    /\ IF Exists(chat[c].thread)
       THEN chat' = [chat EXCEPT ![c].pc = "saved", ![c].stored = FALSE,
                                 ![c].title = threads[chat[c].thread].title]
       ELSE Reply(c, 500)
    /\ UNCHANGED <<db, creator, deleter>>

\* Fault: the answer decides the code, whether it was stored or not.
CodeOfOutcome(c) ==
    CASE chat[c].outcome = "timeout" -> 504
      [] chat[c].outcome = "error"   -> 502
      [] OTHER -> 201

FinalCode(c) ==
    CASE chat[c].outcome = "timeout" -> 504
      [] chat[c].outcome = "error"   -> 502
      [] OTHER -> IF chat[c].stored THEN 201 ELSE 200

\* Fault: the title follows the latest question.
AlwaysRetitle(c) == TRUE

NeedsTitle(c) == chat[c].title = None

\* touch_after_message, then the reply.  The title is set when the title the
\* session holds is None; the session does not read the row's title again.
Touch(c) ==
    /\ chat[c].pc = "saved"
    /\ IF Exists(chat[c].thread) /\ NeedsTitle(c)
       THEN threads' = [threads EXCEPT ![chat[c].thread].title = c]
       ELSE UNCHANGED threads
    /\ Reply(c, FinalCode(c))
    /\ UNCHANGED <<users, logs, created, written, creator, deleter>>

\* touch_after_message swallows any database error.
TouchFails(c) ==
    /\ chat[c].pc = "saved"
    /\ Reply(c, FinalCode(c))
    /\ UNCHANGED <<db, creator, deleter>>

-----------------------------------------------------------------------------
(* POST /api/thread: the count and the insert are two statements.          *)

Counted == {k \in Creators : creator[k].pc = "counted"}

\* Bound: leave one insertion for each chat, so that no chat is ever stuck.
MayStartCreating == created + Cardinality(Counted) + Cardinality(Chats) < MaxCreated

\* At the cap the request ends here with 409.
CountThreads(k) ==
    /\ creator[k].pc = "idle"
    /\ MayStartCreating
    /\ \E u \in users :
          /\ BelowCap(u)
          /\ creator' = [creator EXCEPT ![k] = [pc |-> "counted", user |-> u]]
    /\ UNCHANGED <<db, chat, deleter>>

\* The insert fails when the account has gone meanwhile.
CreateThread(k) ==
    /\ creator[k].pc = "counted"
    /\ creator' = [creator EXCEPT ![k] = IdleCreator]
    /\ \/ /\ creator[k].user \in users
          /\ \E t \in ThreadId : InsertThread(t, creator[k].user, None)
          /\ UNCHANGED <<users, logs, written>>
       \/ /\ creator[k].user \notin users
          /\ UNCHANGED db
    /\ UNCHANGED <<chat, deleter>>

-----------------------------------------------------------------------------
(* DELETE /api/thread/{id}: the owner is checked by one query; the delete   *)
(* looks the id up again, without the owner.                               *)

\* Another user's thread, or none: the request ends here with 404.
CheckOwner(d) ==
    /\ deleter[d].pc = "idle"
    /\ \E u \in users : \E t \in ThreadsOf(u) :
          deleter' = [deleter EXCEPT ![d] =
              [pc |-> "checked", user |-> u, thread |-> t, conv |-> threads[t].conv]]
    /\ UNCHANGED <<db, chat, creator>>

\* ON DELETE CASCADE takes the thread's records with it.
DeleteThread(d) ==
    /\ deleter[d].pc = "checked"
    /\ threads' = [threads EXCEPT ![deleter[d].thread] = None]
    /\ logs' = {l \in logs : l.thread # deleter[d].thread}
    /\ deleter' = [deleter EXCEPT ![d] = IdleDeleter]
    /\ UNCHANGED <<users, created, written, chat, creator>>

-----------------------------------------------------------------------------
(* An administrator deletes an account: its threads and records go with it. *)

DeleteUser(u) ==
    /\ u \in users
    /\ users' = users \ {u}
    /\ threads' = [t \in ThreadId |-> IF t \in ThreadsOf(u) THEN None ELSE threads[t]]
    /\ logs' = {l \in logs : l.user # u /\ l.thread \notin ThreadsOf(u)}
    /\ UNCHANGED <<created, written, chat, creator, deleter>>

InFlight(c) == chat[c].pc \notin {"idle", "done"}

\* The process dies and restarts: committed rows stay, handlers do not.
Crash ==
    /\ \E c \in Chats : InFlight(c)
    /\ chat' = [c \in Chats |-> IF InFlight(c) THEN Ended(c, Lost) ELSE chat[c]]
    /\ creator' = [k \in Creators |-> IdleCreator]
    /\ deleter' = [d \in Deleters |-> IdleDeleter]
    /\ UNCHANGED db

\* What the program itself does for a chat once it has been accepted: the steps
\* the event loop schedules, the timer of the AI call included.
ChatStep(c) ==
    \/ ResolveGiven(c) \/ ResolveDefault(c) \/ CreateDefault(c) \/ LoadContext(c)
    \/ AiTimeout(c) \/ Save(c) \/ SaveFails(c) \/ Touch(c) \/ TouchFails(c)

ChatNext(c) ==
    \/ ChatStep(c) \/ Arrive(c) \/ Refuse(c)
    \/ AiAnswers(c) \/ AiFails(c) \/ AiRaises(c) \/ Cancel(c)

Next ==
    \/ \E c \in Chats : ChatNext(c)
    \/ \E k \in Creators : CountThreads(k) \/ CreateThread(k)
    \/ \E d \in Deleters : CheckOwner(d) \/ DeleteThread(d)
    \/ \E u \in Users : DeleteUser(u)
    \/ Crash

Spec == Init /\ [][Next]_vars

\* The event loop keeps scheduling an accepted chat; nothing obliges a user to
\* send a request or the AI to answer.
FairSpec == Spec /\ \A c \in Chats : WF_vars(ChatStep(c))

-----------------------------------------------------------------------------
(* Properties.                                                             *)

TypeOK ==
    /\ users \subseteq Users
    /\ threads \in [ThreadId -> Thread \cup {None}]
    /\ logs \subseteq Log
    /\ created \in 0 .. MaxCreated
    /\ written \in Nat
    /\ chat \in [Chats -> ChatRequest]
    /\ creator \in [Creators -> CreatorRequest]
    /\ deleter \in [Deleters -> DeleterRequest]

\* Every record with a thread lies in an existing thread of the user who asked,
\* and that thread is the very conversation its request was admitted to, even if
\* threads came and went while the AI was thinking (API.md: a chat is stored in
\* the conversation whose thread_id it gave).
RecordsStayInConversation ==
    \A l \in logs : l.thread # None =>
        /\ Exists(l.thread)
        /\ threads[l.thread].user = l.user
        /\ threads[l.thread].conv = l.conv

\* The prompt of a chat holds successful records of the same user and of the
\* same conversation only, never more than context_turns of them (ADR-011).
ContextIsolated ==
    \A c \in Chats :
        /\ Cardinality(chat[c].context) <= ContextTurns
        /\ \A l \in chat[c].context :
              l.user = chat[c].user /\ l.conv = chat[c].conv /\ l.status = "success"

\* The conversation a chat was admitted to still exists.
ConversationLives(c) ==
    \E t \in ThreadId : Exists(t) /\ threads[t].conv = chat[c].conv

\* What a reply says of the record is so: 201 means that the answer is stored as
\* long as its conversation exists; 200, 404, 429 and 500 that nothing is; 502
\* and 504 that no success is.  No request stores two records.
ReplyTellsWhatIsStored ==
    \A c \in Chats :
        LET mine == {l \in logs : l.chat = c} IN
        /\ \A l, m \in mine : l = m
        /\ chat[c].code = 201 /\ ConversationLives(c) =>
              \E l \in mine : l.status = "success" /\ l.conv = chat[c].conv
        /\ chat[c].code \in {200, 404, 429, 500} => mine = {}
        /\ chat[c].code \in {502, 504} => \A l \in mine : l.status = "ai_error"

\* However chats and thread creations race, a user never has two threads made
\* by resolve_default_thread at a time.
OneDefaultPerUser ==
    \A u \in Users :
        \A s, t \in ThreadsOf(u) :
            threads[s].title = DefaultTitle /\ threads[t].title = DefaultTitle => s = t

\* Once a user has a default thread no record of theirs is left without a thread.
DefaultAdoptsLegacy ==
    \A u \in Users :
        (\E t \in ThreadsOf(u) : threads[t].title = DefaultTitle) =>
            \A l \in logs : l.user = u => l.thread # None

\* A thread is only ever named after a question that its own user asked in it.
TitleFromOwnConversation ==
    \A t \in ThreadId : Exists(t) /\ threads[t].title \in Chats =>
        LET c == threads[t].title IN
        chat[c].user = threads[t].user /\ chat[c].conv = threads[t].conv

\* The default thread keeps its fixed title for as long as it exists (API.md).
DefaultTitleFixed ==
    [][\A t \in ThreadId :
          Exists(t) /\ threads[t].title = DefaultTitle =>
              threads'[t] \in {None, threads[t]}]_vars

\* The cap on a user's threads is exceeded by requests that overlap and by no
\* others: by less than the creations that can be under way at a time and the
\* one default thread a chat can be inserting.
CapExceededByOverlapOnly ==
    \A u \in Users :
        Cardinality(ThreadsOf(u)) <= MaxThreads + Cardinality(Creators)

\* A title is changed by overlapping questions and by no others: a question that was
\* asked with the one its thread is named after in its prompt never renames the thread
\* (touch_after_message decides by the title the session read before the AI call).
FollowUpKeepsTitle ==
    [][\A c \in Chats, t \in ThreadId :
          Exists(t) /\ (\E l \in chat[c].context : l.chat # None /\ l.chat = threads[t].title)
             => threads'[t] = None \/ threads'[t].title # c]_vars

\* Read your writes: when a chat starts its AI call, every answer the user was
\* told is stored (201) in this conversation is in the prompt, unless
\* context_turns newer ones fill it.
PromptHoldsWhatWasStored ==
    [][\A c \in Chats :
          chat[c].pc = "resolved" /\ chat'[c].pc = "awaiting" /\ ConversationLives(c) =>
             \A e \in Chats :
                chat[e].code = 201 /\ chat[e].conv = chat[c].conv =>
                   \E l \in logs :
                      /\ l.chat = e
                      /\ \/ l \in chat'[c].context
                         \/ /\ Cardinality(chat'[c].context) = ContextTurns
                            /\ \A m \in chat'[c].context : m.id > l.id]_vars

\* Every accepted chat is replied to, or lost with its task or its process: the
\* AI never answering does not keep a request, or the event loop, waiting.
EveryChatEnds == \A c \in Chats : chat[c].pc = "authed" ~> chat[c].pc = "done"

-----------------------------------------------------------------------------
(* The inductive invariant behind these properties, where ids are never given *)
(* out twice (checked here by TLC, proved in ChatServiceProofs).              *)

\* A thread id names the same conversation for ever.
IdsNameConversations ==
    /\ \A t \in ThreadId : Exists(t) => threads[t].conv = t /\ t <= created
    /\ \A c \in Chats :
          /\ chat[c].thread # None => chat[c].conv = chat[c].thread
          /\ chat[c].conv # None => chat[c].conv <= created
    /\ \A d \in Deleters :
          deleter[d].thread # None =>
              deleter[d].conv = deleter[d].thread /\ deleter[d].thread <= created
    /\ \A l \in logs : l.conv = l.thread

\* A chat past its first steps holds a thread; it is the asker's while it exists.
HeldThreadIsOwn ==
    \A c \in Chats :
        /\ chat[c].pc \in {"resolved", "awaiting", "answered", "saved"} => chat[c].thread # None
        /\ chat[c].conv # None /\ Exists(chat[c].conv) =>
              threads[chat[c].conv].user = chat[c].user

\* Where the one record of a request can come from, and what its status is.
RecordsFollowRequests ==
    /\ \A l \in logs : l.chat # None =>
          LET r == chat[l.chat] IN
          /\ l.thread # None /\ l.conv = r.conv
          /\ \/ r.pc = "saved" /\ r.stored /\ l.status = StatusOf(r.outcome)
             \/ r.pc = "done" /\ r.code = 201 /\ l.status = "success"
             \/ r.pc = "done" /\ r.code \in {502, 504} /\ l.status = "ai_error"
             \/ r.pc = "done" /\ r.code = Lost
    /\ \A l, m \in logs : l.chat # None /\ l.chat = m.chat => l = m

\* What a request was told, or will be told, is stored.
StoredIsThere ==
    \A c \in Chats :
        /\ chat[c].pc \in {"answered", "saved"} => chat[c].outcome # None
        /\ chat[c].pc \notin {"saved", "done"} => ~ chat[c].stored /\ chat[c].code = None
        /\ chat[c].pc = "saved" => chat[c].code = None
        /\ \/ chat[c].pc = "saved" /\ chat[c].stored
           \/ chat[c].code = 201
           => \/ ~ Exists(chat[c].conv)
              \/ \E l \in logs : l.chat = c

ConversationInv ==
    /\ IdsNameConversations
    /\ HeldThreadIsOwn
    /\ RecordsStayInConversation
    /\ RecordsFollowRequests
    /\ StoredIsThere

-----------------------------------------------------------------------------
(* Those behind the other properties.  All but the last hold whether or not  *)
(* ids are used again.                                                       *)

\* Between two awaits one chat runs at a time, so that no other one inserts a
\* default thread while it does.
DefaultIsDecidedAlone ==
    /\ \A c, e \in Chats : HoldsLoop(c) /\ HoldsLoop(e) => c = e
    /\ \A t \in ThreadId : Exists(t) => t <= created
    /\ \A c \in Chats, t \in ThreadId :
          chat[c].pc = "creating" /\ GetThread(t, chat[c].user) => threads[t].title # DefaultTitle
    /\ \A c \in Chats :
          chat[c].pc \in {"resolved", "awaiting", "answered", "saved"} => chat[c].thread # None

CountedFor(u) == {k \in Counted : creator[k].user = u}

DefaultsFor(u) == {c \in Chats : chat[c].pc = "creating" /\ chat[c].user = u}

\* Room for the threads of a user, for the creations under way and for the default
\* thread about to be inserted.
RoomForInserts ==
    \A u \in Users :
        Cardinality(ThreadsOf(u)) + Cardinality(CountedFor(u)) + Cardinality(DefaultsFor(u))
            <= MaxThreads + Cardinality(Creators)

\* The records of a user are numbered.
RecordsNumbered ==
    /\ \A l \in logs : l.id <= written
    /\ \A l, m \in logs : l.id = m.id /\ l.user = m.user => l = m

NoContextYet ==
    \A c \in Chats :
        chat[c].pc \in {"idle", "authed", "creating", "resolved"} => chat[c].context = {}

NotYetAsked ==
    \A c \in Chats : chat[c].pc \in {"idle", "authed", "creating"} => chat[c].conv = None

\* Where titles come from: a default thread was one when its chat read its title, and
\* a question names a thread as the last thing its request does.
TitlesFollowRequests ==
    /\ \A c \in Chats :
          Exists(chat[c].thread) /\ threads[chat[c].thread].title = DefaultTitle
              => chat[c].title = DefaultTitle
    /\ \A t \in ThreadId : Exists(t) /\ threads[t].title \in Chats =>
          LET c == threads[t].title IN
          chat[c].pc = "done" /\ chat[c].user = threads[t].user /\ chat[c].conv = threads[t].conv

\* Where the title in a session comes from: a question in a prompt has been replied to,
\* and a thread named after it was so when the session read the title.
FollowUpsKnowTheTitle ==
    \A c \in Chats :
        /\ \A l \in chat[c].context : l.chat # None => l.chat # c /\ chat[l.chat].pc = "done"
        /\ chat[c].pc = "resolved" /\ Exists(chat[c].thread)
              => chat[c].title = threads[chat[c].thread].title
        /\ \A l \in chat[c].context :
              l.chat # None /\ Exists(chat[c].thread) /\ threads[chat[c].thread].title = l.chat
                 => chat[c].title # None

-----------------------------------------------------------------------------
(* The service implements the conversations it promises.  A conversation is  *)
(* the insertion that made the thread's row; a thread id only refers to it.  *)

\* The owner of the conversation `v`, None when it has not begun or is deleted.
OwnerOf(v) ==
    IF \E t \in ThreadId : Exists(t) /\ threads[t].conv = v
    THEN LET t == CHOOSE t \in ThreadId : Exists(t) /\ threads[t].conv = v
         IN  threads[t].user
    ELSE None

\* Records of before threads existed belong to no request and are left out.
RecordOf(l) == [chat |-> l.chat, conv |-> l.conv, status |-> l.status]

Store == INSTANCE ConversationStore WITH
    Convs <- ThreadId,
    Codes <- ChatCode \ {None},
    owner <- [v \in ThreadId |-> OwnerOf(v)],
    opened <- 1 .. created,
    records <- {RecordOf(l) : l \in {m \in logs : m.chat # None}},
    asked <- [c \in Chats |-> chat[c].conv],
    reply <- [c \in Chats |-> chat[c].code]

\* Every step of the handlers is a step of the promised conversation store, or
\* none of its concern: whatever threads are made and deleted meanwhile, a record
\* appears in the conversation that was asked or nowhere.
ImplementsStore == Store!Spec

-----------------------------------------------------------------------------
(* What the documents promise and the code does not keep: each is refuted by *)
(* a run of its own.                                                         *)

\* API.md and ACCESS_CONTROL.md: an answer that could not be stored is a 200 with
\* chat_id = -1; no 500 is documented for an answered chat of an existing account.
UnstoredAnswerIsDelivered ==
    [][\A c \in Chats :
          chat[c].pc = "answered" /\ chat'[c].code = 500 => chat[c].user \notin users]_vars

\* API.md: only one's own conversations can be deleted.  The deletion looks the id up
\* again without the owner, and SQLite may have given it to another user's thread,
\* when the one that was checked is deleted by another request of its owner, say.
DeletesOwnThreadsOnly ==
    [][\A d \in Deleters, t \in ThreadId :
          deleter[d].pc = "checked" /\ deleter'[d].pc = "idle" /\ deleter[d].user \in users
             /\ Exists(t) /\ threads'[t] = None
          => threads[t].user = deleter[d].user]_vars

=============================================================================
