# Formal verification of the AI chatbot service

TLA+ modules that model the service in `src/app`, TLC runs that check them on
small instances, and TLAPS proofs that hold for every value of the constants.
`PROJECT.json` lists the runs, the source lines behind every definition, the
hazards of the code and the theorems.

    tlc -workers 2 -config chat_safety.cfg MCChatService
    tlc -workers 2 -config limiter.cfg MCRateLimiter
    tlc -workers 2 -config accounts.cfg MCAccounts
    tlc -workers 2 -config ai_call.cfg MCAiCall
    tlc -workers 2 -config page.cfg MCChatPage
    tlc -workers 2 -config deployment.cfg MCDeployment
    tlc -workers 2 -config records.cfg MCRecords
    tlapm ChatServiceProofs.tla
    tlapm AccountsProofs.tla
    tlapm AiCallProofs.tla
    tlapm ChatPageProofs.tla
    tlapm DeploymentProofs.tla
    tlapm RecordsProofs.tla
    tlapm RateLimiterProofs.tla

## 1. The system

One Python process serves everything (FastAPI, SQLAlchemy, SQLite by default).
Two kinds of handlers share it, and most of what is hard follows from that:

* `async def` endpoints (`POST /api/chats`, `POST /api/password-resets`) run on
  the event loop.  The code between two `await`s is not interrupted by another
  such endpoint.
* `def` endpoints (everything else) run in worker threads and interleave with
  each other and with the event loop, at every statement and commit.

Each request has its own database session.  The sessions do not flush on their
own, do not expire what they read at a commit (`expire_on_commit=False`), and
take no locks over a read: what a handler read may be out of date when it is
used.

| Component | State | Operations | Talks to | What is hard | What makes it correct |
|---|---|---|---|---|---|
| Chat request (`routers/chat.py`, `services/chat.py`) | its session and locals, over an await of up to `ai_timeout_sec` | admit, resolve thread, load context, call the AI, save, touch, reply | limiter, threads, records, AI client | the world changes while the AI thinks; a save or a touch fails; an exception nobody catches, cancellation, crash | the record goes to the conversation that was asked or nowhere; the reply says what is stored; the prompt is this conversation's latest; every chat ends |
| Threads (`routers/threads.py`, `repositories/threads.py`) | `threads` | create (capped), default thread, title, delete | records (cascade) | check-then-act, ids used twice, stale titles | one default thread per user, cap and titles but for overlapping requests, a deletion removes the caller's own |
| Chat records (`repositories/chat_logs.py`, `routers/logs.py`) | `chat_logs` | insert, context query, pages | threads, users (foreign keys) | order and limit of the context, legacy records without a thread | see above |
| Rate limiter (`services/rate_limit.py`) | a deque of time stamps per key | `try_acquire`, `blocked_for`, `record`, `clear`, pruning, cleanup | chat, sign-up, login, reset request | time read before the lock; two critical sections per login | the window holds; nothing live is forgotten; `Retry-After` suffices |
| Accounts (`routers/auth.py`, `deps.py`, `services/sessions.py`, `services/password_reset.py`) | `users`, `session_revocations`, `password_resets`, cookies | sign-up, login and rehash, reset request and completion, revocation | limiter, mail | completion and revocation are two commits; concurrent logins, resets, revocations | a completed reset ends earlier sessions; later revocations are not undone; requests in a window are capped |
| AI client (`services/ai_client.py`) | attempts, time spent | post, retry, pause, give up | provider over HTTP | two nested time budgets, retry against budget, replies of any form | bounded attempts and time; every end has its reason |
| Schema synchronisation (`database.py`, `alembic/`) | tables, `alembic_version` | create, stamp, adopt, upgrade | start-up | a crash between any two | a start reaches the current schema or refuses; old records are adopted |
| Event recorder (`services/event_recorder.py`, `middleware/request_logging.py`) | `audit_events`, `request_logs` | insert, trim | every handler | inserts and trims overlap, failures are swallowed | the newest rows are kept |
| Administration (`services/admin.py`, `routers/admin.py`, `scripts/manage_admin.py`) | `admin_grants` | grant, revoke, delete account, pages | threads, records, sessions | the check precedes the deletion; grants come from another process | an account's rows go together |
| Chat page (`static/js/chat.js`) | the thread on show, requests in flight | send, load history, switch, restore | chat, records | answers that arrive after a switch | an answer is shown in its thread |
| Record client (`scripts/logs_client.py`) | a cursor | next page | records | records come and go between pages | none is shown twice |
| Backup (`scripts/backup_db.py`) | backup files | copy, rotate | database | a crash between the two | a good backup remains |
| Pages, filters and suggestions, health, middleware, configuration, schemas | none of their own | pure or read-only | | | |

## 2. The modules

| Module | What it is |
|---|---|
| `ChatService` | Chat requests, thread creation and deletion, account deletion, over the two tables: the core of the system |
| `ConversationStore` | What the documents promise of conversations, without ids, sessions or commits; `ChatService` implements it |
| `RateLimiter` | The limiter's table and its callers, on the event loop and in worker threads |
| `SlidingWindow` | The count of admissions in a window that the limiter stands for |
| `Accounts` | Accounts, cookies, password resets, revocations, grants, over worker threads and the operator's scripts |
| `AiCall` | One AI call: attempts, pause, retry, the forms of a reply, two nested time budgets, cancellation |
| `AiOutcome` | What a chat expects of an AI call; `AiCall` implements it, `ChatService` has its five ends as actions |
| `ChatPage` | The page's script in one tab, its async functions and late responses |
| `SchemaSync` | A start of the application: create, adopt, stamp, migrate, check, with crashes |
| `Backup` | The backup script: calls that overlap, fail and are killed |
| `Deployment` | `SchemaSync` and `Backup` composed over one database file, and the operator's restore |
| `Records` | Requests that log themselves, trims, and every list of records read page by page |
| `ChatServiceProofs`, `AccountsProofs`, `AiCallProofs`, `ChatPageProofs`, `DeploymentProofs`, `RecordsProofs`, `RateLimiterProofs` | The theorems about each component, with their proofs |
| `SetLemmas` | What several proofs need of sets of numbers: least and greatest elements, the next row id, the newest rows of a table |
| `MC...` | Model values, symmetry and the lists asked for, for TLC |

Definitions marked "Fault" are used by nothing: each is the form a plausible
mistake would give the definition after it.  Replacing one by the other must
break the property listed beside it in `PROJECT.json`, so no property holds of
every program.

### ChatService and the code

State: `users`, `threads`, `logs` are the tables.  `created` and `written`
number the insertions; `created` is also what a database sequence would hand
out as the next id.  `chat[c]` is the session and the locals of one request,
`creator[k]` and `deleter[d]` a worker thread between the two statements of its
endpoint.

A row of `threads` has a history field `conv`, the number of its insertion.  Two
rows with the same id never share it: it is how the properties tell "the thread
that was asked" from "the thread that has its id now".

| Action | Code |
|---|---|
| `Arrive` | `get_current_user`, in a worker thread |
| `Refuse` | the limiter says 429 |
| `ResolveGiven` | `get_thread` with the user filter, or 404 |
| `ResolveDefault`, `CreateDefault` | the two statements of `resolve_default_thread`: the query, and the insert with the adoption of records without a thread |
| `LoadContext` | `successful_context`, commit, `build_messages`, the await begins |
| `AiAnswers`, `AiFails`, `AiTimeout`, `AiRaises`, `Cancel` | what can end the await; after an exception that no handler of `chat` names there is a 500, and nothing is saved or touched |
| `Save`, `SaveFails` | `save_chat_attempt`; on failure the rollback expires the thread object, the next use of `thread.id` reads the row again and raises if it has gone |
| `Touch`, `TouchFails` | `touch_after_message`, then the reply |
| `CountThreads`, `CreateThread` | `POST /api/thread` |
| `CheckOwner`, `DeleteThread` | `DELETE /api/thread/{id}` |
| `DeleteUser` | `delete_user_by_admin` and the cascades |
| `Crash` | the process dies and restarts |

Between two awaits a chat holds the event loop (`HoldsLoop`): no other chat
takes a step, worker threads do.  A stale title is modelled as the code has it:
`touch_after_message` queries the row, but the session's identity map answers
with the object it holds, whose `title` was read before the AI call.

`RowidReuse` chooses the database: TRUE is SQLite, where a deleted greatest id
is given out again; FALSE is a sequence (PostgreSQL).

Abstractions.  A question, an answer and the title made from it are the request
itself.  The title "기본 대화" is a value no question produces: a user who asks
exactly that gets a thread with the same text, which is a matter of display.
`updated_at` and the order of lists are left out.  A creation or deletion whose
commit fails leaves no trace and is the same as one that was not asked for.  An
account that was deleted does not come back under the same id.

### RateLimiter and the code

`events` is `_events`, keys and deques as they are; every method is one critical
section (`TryAcquire`, `BlockedFor`, `Record`, `Clear`), and the reading of the
time before it a step of its own (`Call`, `Fail`).  `limiter` says which
instance this is, hence who calls it; for "loop" a call is not interrupted.
`login` is the protocol `blocked_for`, password check, `record` or `clear`.
Time is in ticks, `Second` of them to a second, so that rounding can be seen.
The clock does not go back (the code uses `time.time()`; a clock that is set
back is not modelled).  `granted` (the stamps of a key in the order they were
stored in, up to the last `clear`) and `dropped` are history:
in worker threads stamps may be stored out of order, and the cleanup, which looks at
the last stamp of a deque, may then drop a live one.  `ExceededByOverlapOnly` says
nothing of a key to which that happened.

### Accounts and the code

State: `users`, `revoked` (`session_revocations`), `resets`, `grants` are the
tables, by id; `cookies` the signed cookies in browsers; `worker[w]` the locals
of a worker thread, or of an operator's script, between two commits; `requester`
the asynchronous reset request that holds the loop between its count and its
insert.  Ids are SQLite's; `acct` numbers the sign-ups, so that two accounts
that had one id are told apart.

| Action | Code |
|---|---|
| `SignUp`, `Verify`, `Rehash`, `Issue`, `Forget` | `signup`; `login` up to the password check, the UPDATE of an old hash, the cookie; `logout` |
| `CountRequests`, `InsertReset`, `RequestFails` | `password_reset_request`, `create_reset_token` |
| `CheckToken`, `SetPassword`, `TakeEpoch`, `WriteRevocation` | `complete_password_reset`: the look-up, the first commit, the time, the second commit |
| `FindForRevoke`, `FindForGrant`, `WriteGrant`, `RevokeAdmin` | `revoke_sessions.py`, `manage_admin.py` |
| `CheckTarget`, `DeleteAccount` | `delete_user_by_admin`: the checks, then (after a revocation) the deletion with its cascades |
| `Stop`, `Tick` | a worker stops between two steps; a second passes |

The properties name what the code leaves open and bound the rest.  A login that
read an old hash writes it back over a reset committed meanwhile (`raced`).  A
reset whose account was deleted meanwhile sets the password of the account that
has its id now (`raced` too).  Two
revocations that overlap may leave the earlier epoch (`clashed`).  A process
that stops between the two commits of a reset leaves the old sessions valid
(`halfway`).  A token is used once but for completions that have all checked it
before the first commits.  An account that became an administrator after the
check is deleted (`late`).  Passwords are their own hashes with the mark of the
pepper; the fingerprint in a cookie is the email.

### AiCall and the code

`pc`, `attempt` and `since` are `_attempts`; the two `asyncio.timeout` blocks of
equal length are `timers`, and `Unwind` is what their `__aexit__` makes of a
cancellation: a time-out only if every cancellation asked for was a timer's.
`Part`, `Message` and `Body` are what `extract_content` tells apart.  Its `message.get`
stands outside its `try`: a message that is there and no object raises an
AttributeError, which nothing catches up to the chat (`EndOfBody`), like an exception
of httpx that is no `HTTPError` ("unknown").  That is the end "raised".  A loop that
is late may run a ready task before a timer that has become due, so an answer or an
error may still be taken over the budget; it is not once the timer has fired
(`Runs`, and `expired` in `AiOutcome`).  `Limit` is the
shortest time after which a phase of a post may itself time out.  `MaxTime`
lets the loop run late, so that the client may leave between two timers.

### ChatPage and the code

A task is one call of an async function; between two `await`s it is one step.
The server answers when it likes (`Serve`, `Answer`) or the response is lost
(`Lost`).  `current`, `cache`, `window`, `disabled`, `inflight` are
`currentThreadId`, the sidebar's list, the bubbles, the button and the
`sessionStorage` record.

The script keeps the thread on show only at the time of a request.  Three
mishaps are named in `mishaps` and delimit the properties: the restore of a
question left in flight enables the button while another question is being sent
("reenabled", its `finally`); `init()` has its list after the user already chose
or made a thread, and puts another one on show without clearing the window
("rechosen"); the restore's first look-up fails, so that it cannot know that the
history already shows the answer ("blind").  Also allowed, because the code
allows it: an answer that arrives after a switch is shown in the window on show
(`moved`); an answer shown by two tasks that ran at the same time (a question
sent while the history is loaded).  An answer that is saved between the
history's response and the restore's first look-up is taken for shown and is not
shown until the next reload: no property claims otherwise.

Abstractions: thread ids are not given out twice here; the newest record with
the question's text is any of them; the limits of records are never reached;
answers hold no text.

### SchemaSync, Backup, Deployment and the code

`Begin` is what `init_db` finds (`HasAnyTable`, `HasVersionRow`), `Create`,
`Stamp`, `Execute` (one statement of a migration), `Check` what follows;
`Refused`, `StatementFails` and `Crash` how it ends early.  `disk` is what is
committed, `db` what the start's connection sees.  In SQLite, as Python's driver
has it, a CREATE TABLE outside a transaction is committed at once and the first
INSERT opens the transaction; the comment at `alembic/env.py:131` takes DDL to be
transactional.  Hence a crash inside `create_all` or a migration may leave a
schema that no later start accepts: the status is then `error` at every start,
and `/readyz` says so.  `StatusTruthful` says both: ready only with the
current schema, and not ready only after a fault, a schema older than the first
revision, or the restore of a copy made during a start.

`Backup` has one file per call; the rotation counts half-made files of other
calls as generations, so two calls that overlap may remove each other's good
copy (`noted`).  `Deployment` lets backups run at any time and the operator put
one in place of the file of the stopped application.

### Records and the code

`Arrives`, `Finish`, `FinishRaised`, `Raise`, `Mask`, `Cancel` are
`log_requests` and the handler of unhandled exceptions; `Record`, `ReadMax`,
`Trim`, `TrimFails` the recorder, each transaction a step; `ReadPage` any list
endpoint or console page (`MyChats` ... `AdminDbPage` are the lists that exist);
`Open`, `AskNext`, `TakePage` the client that follows `before_id`.

Ids of deleted newest rows come back: a chat record added meanwhile may get an id
below the cursor and appear on a later page, which `PagingExact` allows (the ids
stay strictly descending).  The two rows a request leaves at its end are one
step: nothing is awaited between them, and they are in different tables.  The
one-in-a-hundred trim may happen after any insertion.

## 3. The runs

| Run | Question | Result |
|---|---|---|
| `chat_safety` | Ids never reused: are records, prompts, titles and replies right under every interleaving? | holds |
| `chat_store` | Do the handlers implement `ConversationStore`; is the invariant of the proofs one; does every chat end? | holds |
| `limiter` | On the loop, is the limiter exactly the window? In threads, by how much is it passed? | holds |
| `accounts` | Sessions, passwords, tokens, caps, administrators, under every interleaving of two workers | holds |
| `ai_call` | Does every AI call come to one of five ends, for the right reason, and take no answer once its timer has fired? | holds |
| `page` | What may the window show, whatever order the responses come in? | holds |
| `deployment` | Does a start end current or say so, and are logs and backups safe? | holds |
| `records` | Are the newest rows kept, the rows of requests true, the pages exact? | holds |
| `chat_lost_answer` | Is an answer that could not be stored delivered all the same, as API.md says? | refuted |
| `chat_id_reuse` | With SQLite's ids, is a record stored in the conversation that was asked? | refuted |
| `chat_foreign_delete` | With SQLite's ids, does a deletion remove a thread of its own user only, as API.md says? | refuted |
| `ai_malformed` | Is every 200 without an answer an AI error, as API.md says? | refuted |

What the refuted ones show:

1. **A lost answer.**  The thread is deleted while the AI answers.  The insert
   fails on its foreign key; the rollback in `save_log` expires the thread object;
   `thread.id` in `chat.py:169` reads the row again and raises.  The reply is a
   500, not the documented 200 with `chat_id = -1`.
2. **A record in another conversation.**  As before, but another thread (of
   anybody) is created after the deletion and gets the same id on SQLite.  The
   insert succeeds, into that thread.
3. **Somebody else's conversation deleted.**  Two requests delete the last thread
   and both have checked its owner.  The first deletes it, another user's thread is
   inserted and gets its id on SQLite, and the second, whose `delete_thread` looks
   the id up without the owner, deletes that one.
4. **A reply of an unforeseen form.**  A 200 whose message is `null`, a text or a
   list passes `extract_content`'s `try`, and its AttributeError every handler: the
   chat answers a 500 and records nothing, not the documented 502 / AI_ERROR with
   a record.

Two more promises of the documents hold but for overlapping requests, and a passing
property says exactly how far:

* `docs/API.md:149`, the cap on threads.  The count and the insert are two
  statements and the default thread is not counted at all.
  `CapExceededByOverlapOnly` bounds the excess by the creations that overlap and the
  default thread.
* ADR-011 (`docs/project/06-decision-records.md:154`), a title that never changes
  once the first question has set it.  Two chats that resolve a new thread before
  either is answered both hold `title = None`, and the second to end overwrites the
  title.  `FollowUpKeepsTitle` says that only such a question can: one whose prompt
  holds the question that named the conversation never does.

The properties of `chat_safety` and `chat_store` that name a conversation are about
ids that are not given out again; `chat_id_reuse` and `chat_foreign_delete` are what
SQLite adds.

### Bounds

* Chats are requests, each served once: two are enough for every pairwise race
  of requests.  One creating and one deleting worker serve any number of
  requests one after the other.
* `MaxCreated` bounds insertions into `threads`: 4 in `chat_safety`, 3 in
  `chat_store`.  `MayStartCreating` keeps one insertion for each chat, so that no
  chat waits for an insertion the bound forbids.
* `KnownIds`: a request names an id that was given out or the next one; every
  other id is a 404 like the next one.
* `ContextTurns = 1`, so that with two records one falls out of the window;
  `MaxThreads = 1`, so that the cap is met by the first creation.
* `chat_safety`: two users, one of them with a record from before threads
  existed; symmetry over `Chats`.
  `chat_store`: one user, no symmetry, because it checks liveness.
* `limiter`: two keys, two callers, limit 2, a window of 3 ticks of half a
  second, a run of 3 ticks after the first, the cleanup at 2 keys (500 in the
  code), so that expiry at exactly one window, rounding, overshoot and cleanup
  all happen.
* `accounts`: an administrator, an account with an old hash and a third person,
  two workers (every race of the code is between two), four tasks, three seconds
  with expiry and window of one second, two tokens.
* `ai_call`: two retries, a budget of four ticks, a pause of one, two ticks of
  lateness, in which answers, timers and the client's leaving come in any order: the
  budget may end in any attempt and any pause.
* `page`: one thread at the start and one more, two questions that may have the
  same text, four tasks and losses together: a switch or a reload under a
  question, and the answer after it.
* `deployment`: one fault, two backups that keep one, four writes: an overlap, a
  rotation, a restore of either.  Databases: none, of the first revision
  (the later ones come up on its way), and from before revisions, whole or not.
* `records`: logs that keep two rows, three earlier requests, three more of
  which two at a time, pages of one or two rows, four incidents: a trim and an
  insertion overlap, a page is read while rows come and go.
* `CHECK_DEADLOCK FALSE` everywhere: requests are finite and the clock stops.

### Fairness

`EveryChatEnds` is checked under `FairSpec`: weak fairness of `ChatStep(c)`, the
steps the event loop schedules for an accepted chat, the timer of
`asyncio.timeout` among them.  It is justified by the loop's queue (a ready task
runs) and by the fact that no other task keeps the loop for ever.  Nothing is
assumed of users, of the AI, of worker threads, of cancellation or of crashes.

`ImplementsOutcome` has the liveness of `AiOutcome` (every call ends) under
`AiSpec`: time passes, a due timer fires, a cancelled task runs, all of which the
loop guarantees.  Nothing is assumed of the provider or of the client, so the
end rests on the timers alone.  The other modules state safety only: there is
nothing a worker thread, a browser or an operator must do.

## 4. The proofs

Every theorem holds for every value of the constants that the `ASSUME`s of its
module allow: any sets of users, requests, workers, texts and threads, any
settings and any bound.  The assumptions say that numbers are numbers, that
`None` (and the default title) is none of the values it stands beside, and that
the limiter has a caller, a finite number of them, and a limit (0 switches it
off).  A
theorem about conversations also assumes `~ RowidReuse` where it says so.

Few of the properties are inductive as they stand.  The definitions that
strengthen them either stand at the end of the component's module (when a run
checks them) or before the lemmas of the proof module that uses them; each has a
lemma per conjunct that every step keeps it, with one step per action.

### ChatServiceProofs

`TypeCorrect` needs nothing else, with or without reuse of ids.

*Conversations.*  `ConversationInvariant` is the inductive invariant, where ids
are not reused (with reuse the conclusion is false, see `chat_id_reuse`).  That a
record lies in its conversation (`RecordsStay`) needs that the thread id the chat
holds still names the conversation it was admitted to (`IdsNameConversations`:
a new id is above every id that is held anywhere) and that the conversation
keeps its owner (`HeldThreadIsOwn`).  That a reply tells what is stored
(`RepliesAreTrue`) needs where a record of a request can come from
(`RecordsFollowRequests`) and that a record leaves only with its conversation
(`StoredIsThere`).  `chat_store` checks the conjunction, `ConversationInv`, too.
`DefaultTitleStays` is an action property read off it.  `ContextsAreIsolated` and `PromptIsComplete` add that record ids are
distinct, hence that the newest `ContextTurns` of them are at most that many and
that what they leave out is older (`NewestOf` in `SetLemmas`); `TitlesAreOwn`
adds which request a title held in a session came from.  `FollowUpsKeepTheTitle`
needs that a question with the naming one in its prompt holds a title
(`FollowUpsKnowTheTitle`): a chat reads its thread's title and its prompt without an
await between, so no other names the thread in between, and a record whose request
has ended was read with the title it had set.

*The default thread and the cap*, with or without reuse.  `DefaultThreadIsUnique`
rests on the event loop: of the chats between the query for a default thread and
its insertion there is one at most, and while it is there nobody else inserts
one (`DefaultIsDecidedAlone`).  `DefaultThreadAdopts` follows from the same,
because the insertion adopts the records in its transaction.
`CapHoldsButForOverlaps` counts: the threads of a user, the workers that have
counted them and not yet inserted, and the chat that is about to insert the
default thread are together no more than the cap and the number of workers.

*Refinement.*  `StoreImplemented`: under the mapping of `ChatService` every
handler's step is a step of `ConversationStore` or a stutter, without reuse of
ids.

### AccountsProofs

`AccountsTypeCorrect`, then for every property the knowledge that a worker has of
the tables between two commits.

* `AdministratorsAreNamed`: a grant is for an email the operator's script named,
  and a cookie opens the account whose email it bears.
* `AdministratorsAreNotDeleted`: a deletion that passed its checks has a target
  without a grant, or with one given `late`.
* `ResetRequestsAreCapped`: the requester holds the loop between its count and
  its insertion, so that what it counted is still what there is.
* `TokensAreSpentOnce`: a second use is of a completion that had checked the token
  before the first committed, which is the only way to hold an unspent row that is
  spent.
* `ResetPasswordsStand`: a login that checked its password writes back what it
  read; if that is no longer the password, a reset was committed between
  (`raced`).
* `RevokedSessionsStayOut`, `SpentTokensRevoke`: an epoch that a worker is about to
  write is not below the one in the table unless two revocations overlap
  (`clashed`), and a completion that has committed the password either is going to
  write its epoch, has written it, or was stopped (`halfway`).

Ids of accounts are SQLite's and come back: a stale revocation or reset may
reach the row of another account that has the id now.  The invariants therefore
speak of the account (`acct`) a worker looked up, and say what follows when the
row is another's.

### AiCallProofs

`AiTypeCorrect`; `CallsAreExplained`, with the strengthening `Paced` (every attempt
but the first has had its pause); and `OutcomeIsAsExpected`, the safety part of the
refinement: every step is a step of `AiOutcome` (an exception nobody catches and
a late loop included) or a stutter.  It rests on what
`Unwind` can tell: with both timers due, three cancellations are counted only if
the client left too (`RunsUncancelled`).

### ChatPageProofs

The invariant is `PageInv`.  Its parts say of every running task what it knows:
`TasksSound` and `BubblesSound` (types, and whose bubble is whose), `TasksOnShow`
and `BubblesOnShow` (a task's thread is the one on show, unless it was `moved` or
`init` has `rechosen`), `OneSending` (a question being sent has the button
disabled, unless a restore `reenabled` it), `AnswersOverlap` and `RestoreIsFirst` (two
tasks that show the same answer ran together, unless a restore was `blind`).  From
these `PageTypeCorrect`, `OneQuestion`, `ForeignBubbles` and `AnswersShownTwice`.
The long part is that every way out of every async function keeps them: there is a
lemma that says, for each step, which task and which bubbles change, and the
invariants are proved from those shapes.

### DeploymentProofs

The migrations are unfolded statement by statement: after each prefix of a script
the database is one of a few that `Sound` describes, for the connection's view
(`db`) and for what is committed (`disk`).  From this `DeploymentTypeCorrect` and
`NoLogIsLost`.  `ReadinessIsTrue` adds `WholeWithoutFault`: a database that was
whole, with no fault and no half-made restore, is whole whenever no start runs.
`BackupsStand` rests on `CallsInTurn` (without an overlap the calls are in the order
of their files) and `NewestStand` (the newest copies are complete).

### RecordsProofs

The invariant is `RecordsInv`.  `NewestKept` and `RowsNumbered` hold each other up:
the last row ever written is there, so that max(id) + 1 is the number of rows written
and one more (`NextIdCounts`), hence no id is given twice and a deletion up to
max(id) - `Keep`, with a max(id) read long before, leaves the newest `Keep`.  Chat
records may be deleted at the top, so there an id does come back.
`RequestsKnow` ties the code a request would log to the reply its client gets, and
`RowsFollowRequests` says that no request has left a row of a kind it has yet to
write: from these `RequestsAreRecorded`.

`PagesAreExact` has one more part for each leg of a page's way: the cursor is the
last row the client has (`PagerKnows`); a row that was there at the start and is
gone does not come back, even where its id does, because it names the request that
wrote it (`FirstIsPast`); and a page on its way lies below the cursor and leaves
out no older row that it should hold (`PageIsExact`, from `NewestOf`).  It stays so
while rows are inserted and deleted before the client takes it.

Every action is first brought to one shape: one request changes, and the tables
gain rows of that request, lose old ones or stay (`StepShape`).  The parts of the
invariant are proved from that shape.

### RateLimiterProofs

The table holds the end of each key's history (`HeldIsEnd`): a deque is what is
left when stamps leave on the left and arrive on the right of both.  So all
there is to know of a method is which stamps it may lose, and that is what
`SectionLoses` says: those that were lost before, those expired at the time its
caller read, and those of a key the cleanup `dropped` live.  `CountAppended` and
`CountIsHeld` turn this into numbers.

*In worker threads.*  `OverlapInv` says, for every key and every tick `t`: either
nothing that the table has lost counts at `t`, so that the deque's length bounds
what does, or the clock is past `t` and no caller that reads the time from now on
counts at `t` at all; then the count and the callers that may still add to it
(`Pending`) are together at most the limit and the number of callers less one.
The critical section that turns the first into the second is one whose caller
read a later time than `t`, so that this caller is not pending: hence one less.  A
login makes its decision and its record in two sections, so there the sum is
bounded at every `t`, and one is made up for by the place that `blocked_for` saw
free.  From this `OverlapIsAllThatExceeds`, with `LimiterTypeCorrect` before it.

*On the event loop.*  `LoopInv`: a caller's time is the clock's, histories are in
order, and what the table lost of them is expired.  Hence a deque's last stamp is
its latest and the cleanup drops nothing live (`CleanupLosesNothing`); the pruned
deque is the window, and stays as long as its first stamp is live
(`QueueIsWindow`); and the seconds until that stamp expires, rounded up, are the
least wait that suffices (`SecondsUpIs`, `RetryAfterIsLeast`).  From these
`LoopImplementsWindow`.

### What is only model-checked

`EveryChatEnds` and the liveness of `ImplementsOutcome`: liveness under fairness is
out of the prover's reach.  Of everything else that a passing run checks there is a
theorem.  The refuted properties have runs alone.

## 5. The plan

The modules planned are written, and their properties proved where the prover
reaches them.

## 6. Not modelled

* Rendering of pages and the forms, the theme, scrolling, hints and suggestions:
  display, without state of their own.
* The parsing of filters (a filter is its meaning, `Wanted`), validation of
  request bodies and settings, security headers, the wording of prompts, replies,
  mails and log lines: functions of one input with no interleaving.
* Counts and statistics of the console, `/health`, the ping of `/readyz`:
  read-only.
* Old rows that break the CHECKs of the migration b11425: its copy would fail at every
  start, as a failing statement does (`StatementFails`); `Accepts` is about tables and
  columns only.
* A backup whose rotation looks at a file that an overlapping one removes in the same
  moment: the call raises, after its own copy is complete.  `BackupStands` says
  nothing of overlapping calls, among which the last good backup may go; it is about
  calls in turn and calls that are killed.
* Records added while the service runs, in `Deployment`: a restore loses those that
  are younger than its copy, as every restore does.  What `LogsSafe` says is that no
  start, migration or crash loses a record, in a database of its own or a restored one.
* Trims of the two logs at the end of one request: at most one of them, and after
  both rows; they are of different tables.
* PostgreSQL's transactional DDL and the offline mode of Alembic: SQLite is the
  default and the case where a crash leaves something behind.
* The evidence, evaluation, seeding and mock scripts: straight-line tools outside
  the service.
