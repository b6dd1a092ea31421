-------------------------------- MODULE Records --------------------------------
(***************************************************************************)
(* What the service writes about itself and how it is read back: the       *)
(* events (audit_events) and requests (request_logs) that the middleware   *)
(* and the recorder store and trim (src/app/middleware/request_logging.py, *)
(* src/app/services/event_recorder.py), and the lists of them and of the   *)
(* chat records that logs_client.py and an administrator's browser read    *)
(* page by page while requests go on.                                      *)
(*                                                                         *)
(* A request runs on the event loop up to its handler and again after it;  *)
(* the handlers that list records run in worker threads.  The loop is held *)
(* by one request at a time.  Every insertion, every reading of max(id)    *)
(* and every deletion is a transaction, and a step, of its own.            *)
(*                                                                         *)
(* Definitions marked "Fault" are no part of the model: each is what a     *)
(* plausible slip would make of the definition after it.                   *)
(***************************************************************************)
EXTENDS Naturals, FiniteSets, FiniteSetsExt, Sequences, SequencesExt

CONSTANTS
    None,        \* Python's None
    Threads,     \* the threads of all accounts
    Mine,        \* the threads of the account that reads its own records
    Keep,        \* admin_log_keep_rows
    MaxPage,     \* MAX_LOG_PAGE_SIZE
    PageSize,    \* the page size of the HTML pages
    OldChats,    \* the threads and statuses of the records there are already
    MaxReqs,     \* bound: requests ever
    MaxActive,   \* bound: requests at the same time
    MaxPages,    \* bound: pages a client reads
    Asked,       \* bound: the lists that are asked for, with their page sizes
    Saved,       \* bound: the threads and statuses of the records that are saved
    MaxIncidents \* bound: requests that arrive, are refused, cancelled or fail, trims, and
                 \* failures of the recorder's transactions, all together

ASSUME RecordsAssumption ==
    /\ Mine \subseteq Threads /\ Saved \subseteq Threads \X {"success", "ai_error"}
    /\ {Keep, MaxPage, PageSize, MaxPages} \subseteq Nat \ {0}
    /\ {MaxReqs, MaxActive, MaxIncidents} \subseteq Nat
    /\ OldChats \in Seq(Threads \X {"success", "ai_error"}) /\ Len(OldChats) < MaxReqs

OldReqs  == Len(OldChats)
Tables   == {"chats", "events", "requests"}
LogNames == {"events", "requests"}
Reqs     == OldReqs + 1 .. MaxReqs
Statuses == {"ok", "refused", "error", "left"}   \* 2xx, 4xx, 500, 499

\* What the lists filter by, beside a record's thread: its status, an event's name, a
\* request's status.
Whats == [chats    |-> {"success", "ai_error"},
          events   |-> {"received", "viewed", "unhandled", "finished"},
          requests |-> Statuses]

ThreadsOf(table) == IF table = "chats" THEN Threads ELSE {None}

\* `req`, the request that wrote the row, tells it from a later row with its id.
Row == [id : Nat, thread : Threads \cup {None}, what : UNION Range(Whats), req : 1 .. MaxReqs]

\* What a list endpoint selects; `audited`: it logs an event of its own.
View == [table : Tables, threads : SUBSET (Threads \cup {None}), whats : SUBSET UNION Range(Whats),
         api : BOOLEAN, audited : BOOLEAN]

\* Python's None is none of the values it stands beside.
ASSUME NoneIsNoValue ==
    /\ None \notin Nat \cup Statuses \cup View
    /\ None \notin [table : LogNames, max : Nat, loop : BOOLEAN]

Stage == {"none", "handling", "viewing", "answered", "raised", "unwinding", "done"}

VARIABLES
    tables,    \* [Tables -> rows]
    written,   \* history: rows ever written to each of the two logs
    reqs,      \* [Reqs -> Request]
    pager,     \* a client that reads page after page
    incidents  \* of what MaxIncidents bounds, all but the arrivals so far

vars == <<tables, written, reqs, pager, incidents>>

\* `code` is log_requests' status_code and `reply` what the client gets; `trim` the
\* table to trim and the max(id) read for it, 0 before.
Request == [stage : Stage, kind : {"none", "list", "save", "drop"}, api : BOOLEAN,
            code : Statuses \cup {None}, reply : Statuses \cup {None}, seen : SUBSET Row,
            trim : {None} \cup [table : LogNames, max : Nat, loop : BOOLEAN]]

\* Fault: status_code is not set before the handler.
UnsetCode == None

InitialCode == "error"

NoRequest == [stage |-> "none", kind |-> "none", api |-> TRUE, code |-> InitialCode,
              reply |-> None, seen |-> {}, trim |-> None]

\* `first`: the rows of the table when the first page was asked for; `full`: the last
\* page was the end of the list.
NoPager == [stage |-> "idle", view |-> None, limit |-> 1, before |-> None,
            rows |-> <<>>, left |-> MaxPages, req |-> None, first |-> {}, full |-> FALSE]

NewRow(id, thread, what, req) == [id |-> id, thread |-> thread, what |-> what, req |-> req]

\* What is left of the rows of a log when it has been trimmed.
Kept(rows, max) == {x \in rows : x.id > max - Keep}

\* Each earlier request saved a record and logged its two events, and the logs have just
\* been trimmed.
RecordsInit ==
    /\ tables = [chats    |-> {NewRow(n, OldChats[n][1], OldChats[n][2], n) : n \in 1 .. OldReqs},
                 events   |-> Kept({NewRow(2 * n - 1, None, "received", n) : n \in 1 .. OldReqs}
                                     \cup {NewRow(2 * n, None, "finished", n) : n \in 1 .. OldReqs},
                                   2 * OldReqs),
                 requests |-> Kept({NewRow(n, None, "ok", n) : n \in 1 .. OldReqs}, OldReqs)]
    /\ written = [events |-> 2 * OldReqs, requests |-> OldReqs]
    /\ reqs = [r \in Reqs |-> NoRequest]
    /\ pager = NoPager /\ incidents = 0

-----------------------------------------------------------------------------
(* Building blocks.                                                        *)

IdsOf(table) == {x.id : x \in tables[table]}

\* The ids are not AUTOINCREMENT: the next is one more than the highest there is.
NextId(table) == Max(IdsOf(table) \cup {0}) + 1

HoldsLoop(r) ==
    \/ reqs[r].stage \in {"raised", "unwinding"}
    \/ reqs[r].trim # None /\ reqs[r].trim.loop

LoopFree == \A r \in Reqs : ~ HoldsLoop(r)

At(r, stage) == reqs[r].stage = stage /\ reqs[r].trim = None

Room == incidents + Cardinality({r \in Reqs : reqs[r].stage # "none"}) < MaxIncidents

Incident == Room /\ incidents' = incidents + 1

Becomes(r, rec) == reqs' = [reqs EXCEPT ![r] = rec]

\* record_event, record_request: a row is inserted, and one time in a hundred the table
\* is trimmed after it; a failure is swallowed.  `whats`: what is inserted, by table (the
\* two rows at the end of a request are in different tables, and nothing is awaited
\* between them, so a trim of the first may as well come after the second; a database
\* that is locked takes neither); the request goes on as `rec`; `loop`: on the event loop.
Record(r, whats, loop, rec) ==
    LET inserted(into) ==
            /\ tables' = [t \in Tables |-> IF t \in into
                              THEN tables[t] \cup {NewRow(NextId(t), None, whats[t], r)} ELSE tables[t]]
            /\ written' = [t \in LogNames |-> IF t \in into THEN written[t] + 1 ELSE written[t]]
    IN  \/ inserted(DOMAIN whats) /\ Becomes(r, rec) /\ UNCHANGED incidents
        \/ \E t \in DOMAIN whats :
              /\ inserted(DOMAIN whats) /\ Incident
              /\ Becomes(r, [rec EXCEPT !.trim = [table |-> t, max |-> 0, loop |-> loop]])
        \/ \E into \in SUBSET DOMAIN whats \ {DOMAIN whats} :
              inserted(into) /\ Becomes(r, rec) /\ Incident

\* log_requests leaves rows of a request of the API, and none of another.
RecordIfApi(r, whats, rec) ==
    IF rec.api THEN Record(r, whats, TRUE, rec)
    ELSE Becomes(r, rec) /\ UNCHANGED <<tables, written, incidents>>

-----------------------------------------------------------------------------
(* Trimming: _maybe_trim.                                                  *)

\* max(id) is read; up to `Keep` there is nothing to delete.
ReadMax(r) ==
    LET t == reqs[r].trim IN
    /\ t # None /\ t.max = 0
    /\ reqs' = [reqs EXCEPT ![r].trim =
                   IF Max(IdsOf(t.table)) <= Keep THEN None ELSE [t EXCEPT !.max = Max(IdsOf(t.table))]]
    /\ UNCHANGED <<tables, written, pager, incidents>>

\* Fault: one row too many is deleted.
OldestKept(max) == max - Keep + 1

\* The newest row that goes.
NewestTrimmed(max) == max - Keep

Trim(r) ==
    LET t == reqs[r].trim IN
    /\ t # None /\ t.max > 0
    /\ tables' = [tables EXCEPT ![t.table] = {x \in @ : x.id > NewestTrimmed(t.max)}]
    /\ reqs' = [reqs EXCEPT ![r].trim = None]
    /\ UNCHANGED <<written, pager, incidents>>

\* The reading or the deletion fails.
TrimFails(r) ==
    /\ reqs[r].trim # None /\ Incident
    /\ reqs' = [reqs EXCEPT ![r].trim = None]
    /\ UNCHANGED <<tables, written, pager>>

-----------------------------------------------------------------------------
(* A request: log_requests.                                                *)

IsNext(r) ==
    /\ Room /\ reqs[r].stage = "none" /\ \A q \in Reqs : q < r => reqs[q].stage # "none"
    /\ Cardinality({q \in Reqs : reqs[q].stage \notin {"none", "done"}}) < MaxActive

Arrives(r, kind, api) ==
    /\ IsNext(r) /\ LoopFree
    /\ RecordIfApi(r, [events |-> "received"], [NoRequest EXCEPT !.kind = kind, !.api = api, !.stage = "handling"])

\* A chat or the deletion of a thread, from whoever uses the service.
Arrive(r, kind) ==
    /\ Arrives(r, kind, TRUE)
    /\ UNCHANGED pager

\* The handler's reply, or that of the middleware before it.
Answers(r, reply) == Becomes(r, [reqs[r] EXCEPT !.stage = "answered", !.reply = reply])

\* Another origin, too large a body, no login, no permission, no such thread.
Refuse(r) ==
    /\ At(r, "handling")
    /\ Answers(r, "refused") /\ Incident
    /\ UNCHANGED <<tables, written, pager>>

SaveLog(r) ==
    /\ At(r, "handling") /\ reqs[r].kind = "save"
    /\ \E c \in Saved :
          tables' = [tables EXCEPT !.chats = @ \cup {NewRow(NextId("chats"), c[1], c[2], r)}]
    /\ Answers(r, "ok")
    /\ UNCHANGED <<written, pager, incidents>>

\* The records of a deleted thread go with it.
DropThread(r) ==
    /\ At(r, "handling") /\ reqs[r].kind = "drop"
    /\ \E t \in Threads : tables' = [tables EXCEPT !.chats = {x \in @ : x.thread # t}]
    /\ Answers(r, "ok")
    /\ UNCHANGED <<written, pager, incidents>>

\* The effective limit.
Clamped(limit) == Max({1, Min({limit, MaxPage})})

Newest(rows, n) == {x \in rows : Cardinality({y \in rows : y.id > x.id}) < n}

Before(rows, cursor) == IF cursor = None THEN rows ELSE {x \in rows : x.id < cursor}

Selected(rows, view) == {x \in rows : x.thread \in view.threads /\ x.what \in view.whats}

\* Fault: the page is cut before it is filtered.
CutFirst(view, cursor, n) == Selected(Newest(Before(tables[view.table], cursor), n), view)

\* The rows that are asked for, before the cursor, the newest `n` of them.
ListPage(view, cursor, n) == Newest(Before(Selected(tables[view.table], view), cursor), n)

\* A list endpoint reads its page.
ReadPage(r) ==
    LET v == pager.view
        page == ListPage(v, pager.before, Clamped(pager.limit))
    IN  /\ At(r, "handling") /\ reqs[r].kind = "list"
        /\ Becomes(r, [reqs[r] EXCEPT !.seen = page, !.reply = "ok",
                                      !.stage = IF v.audited THEN "viewing" ELSE "answered"])
        /\ UNCHANGED <<tables, written, pager, incidents>>

\* The lists of the console log that they were read, after they were.
LogViewed(r) ==
    /\ At(r, "viewing")
    /\ Record(r, [events |-> "viewed"], FALSE, [reqs[r] EXCEPT !.stage = "answered"])
    /\ UNCHANGED pager

\* The request is over, with `reply` for its client and `code` for the logs.
Finishes(r, reply, code) ==
    RecordIfApi(r, [events |-> "finished", requests |-> code],
                [NoRequest EXCEPT !.stage = "done", !.api = reqs[r].api, !.reply = reply, !.seen = reqs[r].seen])

\* The handler raises, or what it calls.
Raise(r) ==
    /\ At(r, "handling") /\ LoopFree /\ Incident
    /\ Becomes(r, [reqs[r] EXCEPT !.stage = "raised"])
    /\ UNCHANGED <<tables, written, pager>>

\* unhandled_exception_handler: an event, and 500.
Mask(r) ==
    /\ At(r, "raised")
    /\ Record(r, [events |-> "unhandled"], TRUE, [reqs[r] EXCEPT !.stage = "unwinding", !.reply = "error"])
    /\ UNCHANGED pager

\* The exception has been handled, or goes on: `finally`.
FinishRaised(r) ==
    /\ At(r, "unwinding")
    /\ Finishes(r, reqs[r].reply, reqs[r].code)
    /\ UNCHANGED pager

\* call_next returns the reply.
Finish(r) ==
    /\ At(r, "answered") /\ LoopFree
    /\ Finishes(r, reqs[r].reply, reqs[r].reply)
    /\ UNCHANGED pager

\* Fault: a request that was cancelled keeps the code it started with.
CodeKept(code) == code

\* 499.
CancelledCode(code) == "left"

\* The request's task is cancelled: the client gets no reply.  A worker thread has ended
\* by then.
Cancel(r) ==
    /\ At(r, "handling") \/ At(r, "answered")
    /\ LoopFree
    /\ Becomes(r, [reqs[r] EXCEPT !.stage = "unwinding", !.reply = None, !.seen = {},
                                  !.code = CancelledCode(@)])
    /\ Incident /\ UNCHANGED <<tables, written, pager>>

-----------------------------------------------------------------------------
(* The lists, each the set of what it can be asked for.                    *)

\* No filter, or one value.
Wanted(values) == {values} \cup {{x} : x \in values}

ChatLists(threads, api, audited) ==
    {[table |-> "chats", threads |-> t, whats |-> w, api |-> api, audited |-> audited] :
        t \in Wanted(threads), w \in Wanted(Whats.chats)}

LogLists(table, api) ==
    {[table |-> table, threads |-> {None}, whats |-> w, api |-> api, audited |-> TRUE] :
        w \in Wanted(Whats[table])}

WholeTables(api) ==
    {[table |-> t, threads |-> ThreadsOf(t), whats |-> Whats[t], api |-> api, audited |-> TRUE] :
        t \in Tables}

MyChats     == ChatLists(Mine, TRUE, FALSE)
ThreadChats == UNION {ChatLists({t}, TRUE, FALSE) : t \in Mine}
AllChats    == ChatLists(Threads, TRUE, TRUE)
AllEvents   == LogLists("events", TRUE)
AllRequests == LogLists("requests", TRUE)
DbTableRows == WholeTables(TRUE)

\* The same as HTML pages.
AdminLogsPage    == ChatLists(Threads, FALSE, TRUE)
AdminEventsPage  == LogLists("events", FALSE)
AdminNetworkPage == LogLists("requests", FALSE)
AdminDbPage      == WholeTables(FALSE)

Views == MyChats \cup ThreadChats \cup AllChats \cup AllEvents \cup AllRequests \cup DbTableRows
           \cup AdminLogsPage \cup AdminEventsPage \cup AdminNetworkPage \cup AdminDbPage

\* The client of one's own records asks for no more than a page holds, and a page of the
\* console for its fixed size.
ASSUME AskedAssumption ==
    \A a \in Asked : /\ a.view \in Views /\ a.limit \in Nat \ {0}
                     /\ a.view.audited \/ a.limit <= MaxPage
                     /\ a.view.api \/ a.limit = PageSize

-----------------------------------------------------------------------------
(* The client: paginate in logs_client.py, or the links to older rows.     *)

\* The first page.
Open(r) ==
    /\ pager.stage = "idle"
    /\ \E a \in Asked :
          /\ Arrives(r, "list", a.view.api)
          /\ pager' = [pager EXCEPT !.stage = "waiting", !.view = a.view, !.limit = a.limit, !.req = r,
                                   !.first = tables[a.view.table]]

AskNext(r) ==
    /\ pager.stage = "reading"
    /\ Arrives(r, "list", pager.view.api)
    /\ pager' = [pager EXCEPT !.stage = "waiting", !.req = r]

\* Where the next page starts, when this one is full.
NextBefore(items, n) ==
    IF items # {} /\ Cardinality(items) = n THEN Min({x.id : x \in items}) ELSE None

\* In descending order of their ids.
NewestFirst(rows) ==
    [i \in 1 .. Cardinality(rows) |->
        CHOOSE x \in rows : Cardinality({y \in rows : y.id > x.id}) = i - 1]

\* The server compares with its effective limit, the client of one's own records with
\* the limit it asked for.
TakePage(r) ==
    LET items  == reqs[r].seen
        cursor == NextBefore(items, IF pager.view.audited THEN Clamped(pager.limit) ELSE pager.limit)
    IN  /\ pager.stage = "waiting" /\ pager.req = r /\ At(r, "done")
        /\ IF reqs[r].reply = "ok"
           THEN pager' = [pager EXCEPT
                    !.rows = @ \o NewestFirst(items),
                    !.before = cursor, !.left = @ - 1, !.full = (cursor = None),
                    !.stage = IF cursor = None \/ pager.left = 1 THEN "ended" ELSE "reading"]
           ELSE pager' = [pager EXCEPT !.stage = "failed"]
        /\ reqs' = [reqs EXCEPT ![r].seen = {}]
        /\ UNCHANGED <<tables, written, incidents>>

-----------------------------------------------------------------------------
RequestStep(r) ==
    \/ Refuse(r) \/ SaveLog(r) \/ DropThread(r) \/ ReadPage(r)
    \/ LogViewed(r) \/ Raise(r) \/ Mask(r) \/ FinishRaised(r) \/ Finish(r) \/ Cancel(r)
    \/ ReadMax(r) \/ Trim(r) \/ TrimFails(r)

RecordsNext ==
    \E r \in Reqs :
        \/ RequestStep(r)
        \/ \E kind \in {"save", "drop"} : Arrive(r, kind)
        \/ Open(r) \/ AskNext(r) \/ TakePage(r)

RecordsSpec == RecordsInit /\ [][RecordsNext]_vars

-----------------------------------------------------------------------------
(* What makes it correct.                                                  *)

\* The state has its type, and an id names one row of its table.
RecordsTypeOK ==
    /\ \A t \in Tables : /\ tables[t] \subseteq Row
                         /\ \A x \in tables[t] : x.thread \in ThreadsOf(t) /\ x.what \in Whats[t]
                         /\ Cardinality(IdsOf(t)) = Cardinality(tables[t])
    /\ reqs \in [Reqs -> Request]
    /\ incidents \in 0 .. MaxIncidents
    /\ pager.view \in View \cup {None} /\ pager.left \in 0 .. MaxPages

\* However insertions and trims of several threads overlap, the newest `Keep` events and
\* requests ever written are there (docs: the logs keep that many).
NewestKept ==
    \A t \in LogNames :
        \A n \in 1 .. written[t] : n > written[t] - Keep => n \in IdsOf(t)

\* A client that reads page after page gets no row twice and every row that was there
\* all the time, however many were added and deleted meanwhile.
PagingExact ==
    LET p == pager.rows IN
    /\ \A i, j \in DOMAIN p : i < j => p[i].id > p[j].id
    /\ pager.view # None =>
          \A x \in Selected(pager.first \cap tables[pager.view.table], pager.view) :
              pager.full \/ (p # <<>> /\ x.id >= p[Len(p)].id) => x \in Range(p)

\* The row of a request says what its client got, 499 where it got nothing; and its
\* events are in the order they happened in.
RecordedAsAnswered ==
    /\ \A x \in tables["requests"] : x.req \in Reqs =>
          x.what = IF reqs[x.req].reply = None THEN "left" ELSE reqs[x.req].reply
    /\ \A x, y \in tables["events"] :
          x.req = y.req /\ x.id < y.id => x.what # "finished" /\ y.what # "received"

=============================================================================
