------------------------------ MODULE MCRecords ------------------------------
(* The instance of Records for TLC: three records there already, of two threads, and *)
(* lists of each table, some filtered, some not, as data and as pages.               *)
EXTENDS Records

MCOldChats == <<<<"t", "success">>, <<"u", "ai_error">>, <<"t", "success">>>>

MCSaved == {<<"t", "success">>}

With(limit, views) == {[view |-> v, limit |-> limit] : v \in views}

MCAsked ==
    With(1, {v \in MyChats : v.whats = {"success"}})
    \cup With(3, {v \in AllChats : v.threads = Threads /\ v.whats = Whats.chats})
    \cup With(1, {v \in AdminLogsPage : v.threads = {"t"} /\ v.whats = Whats.chats})
    \cup With(1, {v \in AdminEventsPage : v.whats = {"finished"}})
    \cup With(3, {v \in AllRequests : v.whats = Whats.requests})

=============================================================================
