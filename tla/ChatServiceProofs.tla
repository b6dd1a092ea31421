-------------------------- MODULE ChatServiceProofs --------------------------
(***************************************************************************)
(* Proofs about ChatService, for any users, requests and workers and any   *)
(* value of the settings.                                                  *)
(***************************************************************************)
EXTENDS ChatService, SetLemmas, FiniteSetTheorems, TLAPS

\* The local state of a chat is a ChatRequest.
LEMMA ChatType ==
    ASSUME TypeOK, NEW c \in Chats
    PROVE  chat[c] \in ChatRequest
BY DEF TypeOK

\* A chat's local state keeps its type when one field at a time is given a value
\* of its type.
LEMMA EndedType ==
    ASSUME TypeOK, NEW c \in Chats, NEW code \in ChatCode
    PROVE  Ended(c, code) \in ChatRequest
BY DEF TypeOK, Ended, Bare, ChatRequest, ChatPc, Titles, ChatCode

\* The end of a chat, Reply, leaves every chat with a state of its type.
LEMMA ReplyType ==
    ASSUME TypeOK, NEW c \in Chats, NEW code \in ChatCode, Reply(c, code)
    PROVE  chat' \in [Chats -> ChatRequest]
BY EndedType DEF TypeOK, Reply

\* So does holding a thread, its title as it was read.
LEMMA HoldType ==
    ASSUME NEW r \in ChatRequest, NEW t \in ThreadId, NEW v \in ThreadId,
           NEW title \in Titles
    PROVE  [r EXCEPT !.pc = "resolved", !.thread = t, !.conv = v, !.title = title]
             \in ChatRequest
<1>1. [r EXCEPT !.pc = "resolved", !.thread = t] \in ChatRequest
  BY DEF ChatRequest, ChatPc
<1>2. \A q \in ChatRequest : [q EXCEPT !.conv = v, !.title = title] \in ChatRequest
  BY DEF ChatRequest
<1>3. QED
  BY <1>1, <1>2

\* An insertion into threads keeps the table's type, within the bound on insertions.
LEMMA InsertType ==
    ASSUME TypeOK, NEW t \in ThreadId, NEW u \in Users, NEW title \in Titles,
           InsertThread(t, u, title)
    PROVE  /\ threads' \in [ThreadId -> Thread \cup {None}]
           /\ created' \in 0 .. MaxCreated
           /\ created + 1 \in ThreadId
<1>1. created \in 0 .. MaxCreated /\ created < MaxCreated /\ MaxCreated \in Nat
  BY ConstantsAssumption DEF TypeOK, InsertThread
<1>2. created + 1 \in ThreadId /\ created' \in 0 .. MaxCreated
  BY <1>1 DEF ThreadId, InsertThread
<1>3. [user |-> u, title |-> title, conv |-> created + 1] \in Thread
  BY <1>2 DEF Thread
<1>4. QED
  BY <1>2, <1>3 DEF TypeOK, InsertThread

\* The tables, and the local state of every request, keep their types, whether or
\* not ids are used again.
THEOREM TypeCorrect == Spec => []TypeOK
<1>1. Init => TypeOK
  <2> SUFFICES ASSUME Init PROVE TypeOK
    OBVIOUS
  <2>1. logs \subseteq Log
    BY ConstantsAssumption DEF Init, LegacyLogs, Log
  <2>2. NewChat \in ChatRequest
    BY DEF NewChat, Bare, ChatRequest, ChatPc, Titles, ChatCode
  <2>3. IdleCreator \in CreatorRequest /\ IdleDeleter \in DeleterRequest
    BY DEF IdleCreator, CreatorRequest, IdleDeleter, DeleterRequest
  <2>4. created \in 0 .. MaxCreated
    BY ConstantsAssumption DEF Init
  <2>5. QED
    BY <2>1, <2>2, <2>3, <2>4 DEF Init, TypeOK
<1>2. TypeOK /\ [Next]_vars => TypeOK'
  <2> SUFFICES ASSUME TypeOK, [Next]_vars PROVE TypeOK'
    OBVIOUS
  <2> USE DEF db
  <2>1. ASSUME NEW c \in Chats, Arrive(c) PROVE TypeOK'
    <3>1. PICK u \in users, t \in KnownIds \cup {None} :
             chat' = [chat EXCEPT ![c].pc = "authed", ![c].user = u, ![c].target = t]
      BY <2>1 DEF Arrive
    <3>2. u \in Users /\ t \in ThreadId \cup {None}
      BY DEF TypeOK, KnownIds
    <3>3. [chat[c] EXCEPT !.pc = "authed"] \in ChatRequest
      BY ChatType DEF ChatRequest, ChatPc
    <3>4. \A q \in ChatRequest : [q EXCEPT !.user = u, !.target = t] \in ChatRequest
      BY <3>2 DEF ChatRequest
    <3>5. [chat[c] EXCEPT !.pc = "authed", !.user = u, !.target = t] \in ChatRequest
      BY <3>3, <3>4
    <3>6. QED
      BY <2>1, <3>1, <3>5 DEF TypeOK, Arrive
  <2>2. ASSUME NEW c \in Chats, Refuse(c) PROVE TypeOK'
    BY <2>2, ReplyType DEF TypeOK, Refuse, ChatCode
  <2>3. ASSUME NEW c \in Chats, NEW t \in ThreadId, Exists(t), Hold(c, t)
        PROVE  chat' \in [Chats -> ChatRequest]
    <3>1. threads[t] \in Thread
      BY <2>3 DEF TypeOK, Exists
    <3>2. [chat[c] EXCEPT !.pc = "resolved", !.thread = t, !.conv = threads[t].conv,
                          !.title = threads[t].title] \in ChatRequest
      BY <3>1, HoldType DEF TypeOK, Thread
    <3>3. QED
      BY <2>3, <3>2 DEF TypeOK, Hold
  <2>4. ASSUME NEW c \in Chats, ResolveGiven(c) PROVE TypeOK'
    <3>1. CASE GetThread(chat[c].target, chat[c].user)
      BY <2>3, <2>4, <3>1 DEF TypeOK, ResolveGiven, GetThread, Exists
    <3>2. CASE ~ GetThread(chat[c].target, chat[c].user)
      BY <2>4, <3>2, ReplyType DEF TypeOK, ResolveGiven, ChatCode
    <3>3. QED
      BY <3>1, <3>2
  <2>5. ASSUME NEW c \in Chats, ResolveDefault(c) PROVE TypeOK'
    <3>1. CASE \E t \in ThreadsOf(chat[c].user) : Hold(c, t)
      BY <2>3, <2>5, <3>1 DEF TypeOK, ResolveDefault, ThreadsOf
    <3>2. CASE chat' = [chat EXCEPT ![c].pc = "creating"]
      <4>1. [chat[c] EXCEPT !.pc = "creating"] \in ChatRequest
        BY ChatType DEF ChatRequest, ChatPc
      <4>2. QED
        BY <2>5, <3>2, <4>1 DEF TypeOK, ResolveDefault
    <3>3. QED
      BY <2>5, <3>1, <3>2 DEF ResolveDefault
  <2>6. ASSUME NEW c \in Chats, CreateDefault(c) PROVE TypeOK'
    <3>1. CASE chat[c].user \in users
      <4>0. UNCHANGED <<users, written, creator, deleter>>
        BY <2>6, <3>1 DEF CreateDefault
      <4>1. PICK t \in ThreadId :
               /\ InsertThread(t, chat[c].user, DefaultTitle)
               /\ logs' = Adopted(chat[c].user, t)
               /\ chat' = [chat EXCEPT ![c].pc = "resolved", ![c].thread = t,
                                       ![c].conv = created + 1, ![c].title = DefaultTitle]
        BY <2>6, <3>1 DEF CreateDefault
      <4>2. /\ threads' \in [ThreadId -> Thread \cup {None}]
            /\ created' \in 0 .. MaxCreated
            /\ created + 1 \in ThreadId
        BY <3>1, <4>1, InsertType DEF TypeOK, Titles
      <4>3. \A l \in Log : [l EXCEPT !.thread = t, !.conv = created + 1] \in Log
        BY <4>2 DEF Log
      <4>4. logs' \subseteq Log
        BY <4>1, <4>3 DEF TypeOK, Adopted
      <4>5. [chat[c] EXCEPT !.pc = "resolved", !.thread = t, !.conv = created + 1,
                            !.title = DefaultTitle] \in ChatRequest
        BY <4>2, HoldType DEF TypeOK, Titles
      <4>6. chat' \in [Chats -> ChatRequest]
        BY <4>1, <4>5 DEF TypeOK
      <4>7. QED
        BY <4>0, <4>2, <4>4, <4>6 DEF TypeOK
    <3>2. CASE chat[c].user \notin users
      <4>1. Reply(c, 500) /\ UNCHANGED <<users, threads, logs, created, written, creator, deleter>>
        BY <2>6, <3>2 DEF CreateDefault
      <4>2. chat' \in [Chats -> ChatRequest]
        BY <4>1, ReplyType DEF ChatCode
      <4>3. QED
        BY <4>1, <4>2 DEF TypeOK
    <3>3. QED
      BY <3>1, <3>2
  <2>7. ASSUME NEW c \in Chats, LoadContext(c) PROVE TypeOK'
    <3>1. SuccessfulContext(chat[c].user, chat[c].thread) \subseteq Log
      BY DEF TypeOK, SuccessfulContext
    <3>2. [chat[c] EXCEPT !.pc = "awaiting",
              !.context = SuccessfulContext(chat[c].user, chat[c].thread)] \in ChatRequest
      BY <3>1, ChatType DEF ChatRequest, ChatPc
    <3>3. QED
      BY <2>7, <3>2 DEF TypeOK, LoadContext
  <2>8. ASSUME NEW c \in Chats, NEW o \in {"success", "error", "timeout"}, Resume(c, o)
        PROVE  TypeOK'
    <3>1. [chat[c] EXCEPT !.pc = "answered", !.outcome = o] \in ChatRequest
      BY ChatType DEF ChatRequest, ChatPc
    <3>2. QED
      BY <2>8, <3>1 DEF TypeOK, Resume
  <2>9. ASSUME NEW c \in Chats, Cancel(c) \/ AiRaises(c) PROVE TypeOK'
    BY <2>9, ReplyType DEF TypeOK, Cancel, AiRaises, ChatCode
  <2>10. ASSUME NEW c \in Chats, Save(c) PROVE TypeOK'
    <3>1. [id |-> written + 1, chat |-> c, user |-> chat[c].user,
           thread |-> chat[c].thread, conv |-> chat[c].conv,
           status |-> StatusOf(chat[c].outcome)] \in Log
      BY <2>10 DEF TypeOK, Save, ForeignKeysHold, ChatRequest, Log, StatusOf
    <3>2. [chat[c] EXCEPT !.pc = "saved", !.stored = TRUE] \in ChatRequest
      BY ChatType DEF ChatRequest, ChatPc
    <3>3. QED
      BY <2>10, <3>1, <3>2 DEF TypeOK, Save
  <2>11. ASSUME NEW c \in Chats, SaveFails(c) PROVE TypeOK'
    <3>1. CASE Exists(chat[c].thread)
      <4>1. threads[chat[c].thread].title \in Titles
        BY <3>1 DEF TypeOK, Exists, Thread
      <4>2. [chat[c] EXCEPT !.pc = "saved", !.stored = FALSE,
                            !.title = threads[chat[c].thread].title] \in ChatRequest
        BY <4>1, ChatType DEF ChatRequest, ChatPc
      <4>3. QED
        BY <2>11, <3>1, <4>2 DEF TypeOK, SaveFails
    <3>2. CASE ~ Exists(chat[c].thread)
      BY <2>11, <3>2, ReplyType DEF TypeOK, SaveFails, ChatCode
    <3>3. QED
      BY <3>1, <3>2
  <2>12. ASSUME NEW c \in Chats PROVE FinalCode(c) \in ChatCode
    BY DEF FinalCode, ChatCode
  <2>13. ASSUME NEW c \in Chats, Touch(c) PROVE TypeOK'
    <3>1. chat' \in [Chats -> ChatRequest]
      BY <2>12, <2>13, ReplyType DEF Touch
    <3>2. threads' \in [ThreadId -> Thread \cup {None}]
      <4>1. CASE Exists(chat[c].thread) /\ NeedsTitle(c)
        <5>1. [threads[chat[c].thread] EXCEPT !.title = c] \in Thread
          BY <4>1 DEF TypeOK, Exists, Thread, Titles
        <5>2. QED
          BY <2>13, <4>1, <5>1 DEF TypeOK, Touch
      <4>2. CASE ~ (Exists(chat[c].thread) /\ NeedsTitle(c))
        BY <2>13, <4>2 DEF TypeOK, Touch
      <4>3. QED
        BY <4>1, <4>2
    <3>3. QED
      BY <2>13, <3>1, <3>2 DEF TypeOK, Touch
  <2>14. ASSUME NEW c \in Chats, TouchFails(c) PROVE TypeOK'
    BY <2>12, <2>14, ReplyType DEF TypeOK, TouchFails
  <2>15. ASSUME NEW k \in Creators, CountThreads(k) PROVE TypeOK'
    BY <2>15 DEF TypeOK, CountThreads, CreatorRequest
  <2>16. ASSUME NEW k \in Creators, CreateThread(k) PROVE TypeOK'
    <3>1. creator' \in [Creators -> CreatorRequest]
      BY <2>16 DEF TypeOK, CreateThread, CreatorRequest, IdleCreator
    <3>2. CASE creator[k].user \in users
      <4>1. PICK t \in ThreadId : InsertThread(t, creator[k].user, None)
        BY <2>16, <3>2 DEF CreateThread
      <4>2. creator[k].user \in Users /\ None \in Titles
        BY <3>2 DEF TypeOK, Titles
      <4>3. QED
        BY <2>16, <3>1, <3>2, <4>1, <4>2, InsertType DEF TypeOK, CreateThread
    <3>3. CASE creator[k].user \notin users
      BY <2>16, <3>1, <3>3 DEF TypeOK, CreateThread
    <3>4. QED
      BY <3>2, <3>3
  <2>17. ASSUME NEW d \in Deleters, CheckOwner(d) PROVE TypeOK'
    <3>1. \A t \in ThreadId : Exists(t) => threads[t].conv \in ThreadId
      BY DEF TypeOK, Exists, Thread
    <3>2. QED
      BY <2>17, <3>1 DEF TypeOK, CheckOwner, DeleterRequest, ThreadsOf
  <2>18. ASSUME NEW d \in Deleters, DeleteThread(d) PROVE TypeOK'
    BY <2>18 DEF TypeOK, DeleteThread, DeleterRequest, IdleDeleter
  <2>19. ASSUME NEW u \in Users, DeleteUser(u) PROVE TypeOK'
    BY <2>19 DEF TypeOK, DeleteUser
  <2>20. ASSUME Crash PROVE TypeOK'
    <3>1. Lost \in ChatCode
      BY DEF ChatCode
    <3>2. chat' \in [Chats -> ChatRequest]
      BY <2>20, <3>1, EndedType DEF TypeOK, Crash
    <3>3. QED
      BY <2>20, <3>2 DEF TypeOK, Crash, CreatorRequest, IdleCreator, DeleterRequest, IdleDeleter
  <2>21. CASE UNCHANGED vars
    BY <2>21 DEF TypeOK, vars
  <2>22. QED
    BY <2>1, <2>2, <2>4, <2>5, <2>6, <2>7, <2>8, <2>9, <2>10, <2>11, <2>13, <2>14,
       <2>15, <2>16, <2>17, <2>18, <2>19, <2>20, <2>21
       DEF Next, ChatNext, ChatStep, AiAnswers, AiFails, AiTimeout
<1>3. QED
  BY <1>1, <1>2, PTL DEF Spec

-----------------------------------------------------------------------------
(* The inductive invariant.  Everything from here on assumes that ids are not *)
(* given out twice: on SQLite the conclusion fails (run chat_id_reuse).       *)

\* What InsertThread does when ids are not reused.
LEMMA FreshThread ==
    ASSUME ~ RowidReuse, TypeOK, IdsNameConversations,
           NEW t \in ThreadId, NEW u \in Users, NEW title \in Titles,
           InsertThread(t, u, title)
    PROVE  /\ t = created + 1 /\ created' = created + 1 /\ created \in Nat
           /\ ~ Exists(t)
           /\ threads'[t] = [user |-> u, title |-> title, conv |-> t]
           /\ threads'[t] # None
           /\ \A s \in ThreadId \ {t} : threads'[s] = threads[s]
<1>1. t = created + 1 /\ created' = created + 1 /\ created \in Nat
  BY ConstantsAssumption DEF InsertThread, IsNewId, TypeOK
<1>2. ~ Exists(t)
  BY <1>1 DEF IdsNameConversations, ThreadId
<1>3. threads'[t] = [user |-> u, title |-> title, conv |-> t]
  BY <1>1 DEF InsertThread, TypeOK
<1>4. threads'[t] # None
  BY <1>3, NoneAssumption DEF Thread
<1>5. QED
  BY <1>1, <1>2, <1>3, <1>4 DEF InsertThread, TypeOK

\* The two outcomes of resolve_default_thread's query.
LEMMA DefaultQuery ==
    ASSUME TypeOK, NEW c \in Chats, ResolveDefault(c)
    PROVE  /\ UNCHANGED <<users, threads, logs, created, written, creator, deleter>>
           /\ chat[c].pc = "authed"
           /\ \/ chat' = [chat EXCEPT ![c].pc = "creating"]
              \/ \E t \in ThreadId : /\ threads[t] \in Thread
                                     /\ threads[t].user = chat[c].user
                                     /\ Hold(c, t)
BY DEF ResolveDefault, ThreadsOf, Exists, TypeOK, db

\* The two outcomes of its insert.
LEMMA DefaultInsert ==
    ASSUME TypeOK, NEW c \in Chats, CreateDefault(c)
    PROVE  /\ chat[c].pc = "creating"
           /\ UNCHANGED <<users, written, creator, deleter>>
           /\ \/ Reply(c, 500) /\ UNCHANGED <<threads, logs, created>>
              \/ \E t \in ThreadId :
                    /\ chat[c].user \in Users
                    /\ InsertThread(t, chat[c].user, DefaultTitle)
                    /\ logs' = Adopted(chat[c].user, t)
                    /\ chat' = [chat EXCEPT ![c].pc = "resolved", ![c].thread = t,
                                            ![c].conv = created + 1,
                                            ![c].title = DefaultTitle]
BY DEF CreateDefault, TypeOK, db

\* Naming a thread changes nothing else about it.
LEMMA TouchKeepsThreads ==
    ASSUME TypeOK, NEW c \in Chats, Touch(c)
    PROVE  /\ logs' = logs /\ Reply(c, FinalCode(c)) /\ chat[c].pc = "saved"
           /\ UNCHANGED <<created, deleter>>
           /\ \A s \in ThreadId :
                 /\ Exists(s)' <=> Exists(s)
                 /\ Exists(s) => /\ threads'[s].user = threads[s].user
                                 /\ threads'[s].conv = threads[s].conv
<1>1. /\ logs' = logs /\ Reply(c, FinalCode(c))
      /\ chat[c].pc = "saved" /\ UNCHANGED <<created, deleter>>
  BY DEF Touch
<1>2. ASSUME NEW s \in ThreadId
      PROVE  /\ Exists(s)' <=> Exists(s)
             /\ Exists(s) => /\ threads'[s].user = threads[s].user
                             /\ threads'[s].conv = threads[s].conv
  <2>1. CASE threads' = threads
    BY <2>1 DEF Exists
  <2>2. CASE Exists(chat[c].thread) /\ threads' = [threads EXCEPT ![chat[c].thread].title = c]
    <3>1. CASE s = chat[c].thread
      <4>1. threads[s] \in Thread /\ threads'[s] = [threads[s] EXCEPT !.title = c]
        BY <2>2, <3>1 DEF TypeOK, Exists
      <4>2. threads'[s] \in Thread /\ threads'[s].user = threads[s].user
            /\ threads'[s].conv = threads[s].conv
        BY <4>1 DEF Thread, Titles
      <4>3. QED
        BY <4>1, <4>2, NoneAssumption DEF Exists
    <3>2. CASE s # chat[c].thread
      BY <2>2, <3>2 DEF TypeOK, Exists
    <3>3. QED
      BY <3>1, <3>2
  <2>3. QED
    BY <2>1, <2>2 DEF Touch
<1>3. QED
  BY <1>1, <1>2

\* A new id is above every id in use, so no id held anywhere changes its meaning.
LEMMA IdsNameConversationsStep ==
    ASSUME ~ RowidReuse, TypeOK, IdsNameConversations, [Next]_vars
    PROVE  IdsNameConversations'
<1>1. ASSUME NEW c \in Chats, Arrive(c) PROVE IdsNameConversations'
  BY <1>1 DEF TypeOK, Exists, db, IdsNameConversations, Arrive
<1>2. ASSUME NEW c \in Chats, Refuse(c) PROVE IdsNameConversations'
  BY <1>2 DEF Exists, db, IdsNameConversations, Refuse, Reply, Ended, Bare
<1>3. ASSUME NEW c \in Chats, ResolveGiven(c) PROVE IdsNameConversations'
  BY <1>3
     DEF ChatRequest, TypeOK, Exists, db, IdsNameConversations, ResolveGiven, Reply,
         Ended, Bare, Hold, GetThread
<1>4. ASSUME NEW c \in Chats, ResolveDefault(c) PROVE IdsNameConversations'
  <2>0. UNCHANGED <<users, threads, logs, created, written, creator, deleter>>
        /\ chat[c].pc = "authed"
    BY <1>4, DefaultQuery
  <2>1. CASE chat' = [chat EXCEPT ![c].pc = "creating"]
    BY <2>0, <2>1 DEF Exists, IdsNameConversations
  <2>2. ASSUME NEW t \in ThreadId, threads[t] \in Thread, threads[t].user = chat[c].user,
               Hold(c, t)
        PROVE  IdsNameConversations'
    BY <2>0, <2>2, NoneAssumption DEF Hold, TypeOK, Exists, IdsNameConversations
  <2>3. QED
    BY <1>4, <2>1, <2>2, DefaultQuery
<1>5. ASSUME NEW c \in Chats, CreateDefault(c) PROVE IdsNameConversations'
  <2>0. UNCHANGED <<users, written, creator, deleter>> /\ chat[c].pc = "creating"
    BY <1>5, DefaultInsert
  <2>1. CASE Reply(c, 500) /\ UNCHANGED <<threads, logs, created>>
    BY <2>0, <2>1 DEF Reply, Ended, Bare, Exists, IdsNameConversations
  <2>2. ASSUME NEW t \in ThreadId, chat[c].user \in Users,
               InsertThread(t, chat[c].user, DefaultTitle),
               logs' = Adopted(chat[c].user, t),
               chat' = [chat EXCEPT ![c].pc = "resolved", ![c].thread = t,
                                    ![c].conv = created + 1, ![c].title = DefaultTitle]
        PROVE  IdsNameConversations'
    <3>1. /\ t = created + 1 /\ created' = created + 1 /\ created \in Nat
          /\ ~ Exists(t)
          /\ threads'[t] = [user |-> chat[c].user, title |-> DefaultTitle, conv |-> t]
          /\ threads'[t] # None
          /\ \A s \in ThreadId \ {t} : threads'[s] = threads[s]
      BY <2>2, FreshThread DEF Titles
    <3>2. \A s \in ThreadId : Exists(s)' => threads'[s].conv = s /\ s <= created'
      BY <3>1, ConstantsAssumption DEF Exists, IdsNameConversations, ThreadId
    <3>3. ASSUME NEW e \in Chats
          PROVE  /\ chat'[e].thread # None => chat'[e].conv = chat'[e].thread
                 /\ chat'[e].conv # None => chat'[e].conv <= created'
      <4>1. chat[e] \in ChatRequest /\ chat[e].conv \in ThreadId \cup {None}
        BY DEF TypeOK, ChatRequest
      <4>2. chat[e].conv # None => chat[e].conv <= created /\ chat[e].conv \in Nat
        BY <4>1 DEF IdsNameConversations, ThreadId
      <4>3. CASE e = c
        BY <2>2, <3>1, <4>1, <4>3 DEF TypeOK, ChatRequest
      <4>4. CASE e # c
        <5>1. chat'[e] = chat[e]
          BY <2>2, <4>4 DEF TypeOK
        <5>2. QED
          BY <3>1, <4>2, <5>1 DEF IdsNameConversations
      <4>5. QED
        BY <4>3, <4>4
    <3>4. ASSUME NEW d \in Deleters, deleter'[d].thread # None
          PROVE  deleter'[d].conv = deleter'[d].thread /\ deleter'[d].thread <= created'
      <4>1. deleter[d].thread \in ThreadId /\ deleter' = deleter
        BY <2>2, <2>0, <3>4 DEF TypeOK, DeleterRequest
      <4>2. deleter[d].thread <= created /\ deleter[d].thread \in Nat
        BY <3>4, <4>1 DEF IdsNameConversations, ThreadId
      <4>3. QED
        BY <3>1, <3>4, <4>1, <4>2 DEF IdsNameConversations
    <3>5. ASSUME NEW l \in logs' PROVE l.conv = l.thread
      <4>1. PICK m \in logs :
               l = IF m.user = chat[c].user /\ m.thread = None
                   THEN [m EXCEPT !.thread = t, !.conv = created + 1] ELSE m
        BY <2>2 DEF Adopted
      <4>2. m.conv = m.thread /\ m \in Log
        BY DEF IdsNameConversations, TypeOK
      <4>3. QED
        BY <3>1, <4>1, <4>2 DEF Log
    <3>6. QED
      BY <3>2, <3>3, <3>4, <3>5 DEF IdsNameConversations
  <2>3. QED
    BY <1>5, <2>1, <2>2, DefaultInsert
<1>6. ASSUME NEW c \in Chats, LoadContext(c) PROVE IdsNameConversations'
  BY <1>6 DEF TypeOK, Exists, db, IdsNameConversations, LoadContext
<1>7. ASSUME NEW c \in Chats, NEW o \in {"success", "error", "timeout"}, Resume(c, o)
      PROVE  IdsNameConversations'
  BY <1>7 DEF TypeOK, Exists, db, IdsNameConversations, Resume
<1>8. ASSUME NEW c \in Chats, Cancel(c) \/ AiRaises(c) PROVE IdsNameConversations'
  <2>1. PICK code \in ChatCode : /\ Reply(c, code) /\ code \in {499, 500}
                               /\ chat[c].pc = "awaiting" /\ UNCHANGED <<db, creator, deleter>>
    BY <1>8 DEF Cancel, AiRaises, Lost, ChatCode
  <2>2. QED
    BY <2>1 DEF TypeOK, Exists, db, IdsNameConversations, Reply, Ended, Bare
<1>9. ASSUME NEW c \in Chats, Save(c) PROVE IdsNameConversations'
  BY <1>9, NoneAssumption DEF TypeOK, Exists, IdsNameConversations, Save, ForeignKeysHold
<1>10. ASSUME NEW c \in Chats, SaveFails(c) PROVE IdsNameConversations'
  BY <1>10
     DEF ChatRequest, TypeOK, Exists, db, IdsNameConversations, SaveFails, Reply, Ended,
         Bare
<1>11. ASSUME NEW c \in Chats, Touch(c) PROVE IdsNameConversations'
  BY <1>11
     DEF Thread, TypeOK, Exists, IdsNameConversations, Touch, Reply, Ended, Bare,
         NeedsTitle
<1>12. ASSUME NEW c \in Chats, TouchFails(c) PROVE IdsNameConversations'
  BY <1>12 DEF Exists, db, IdsNameConversations, TouchFails, Reply, Ended, Bare
<1>13. ASSUME NEW k \in Creators, CountThreads(k) PROVE IdsNameConversations'
  BY <1>13 DEF Exists, db, IdsNameConversations, CountThreads
<1>14. ASSUME NEW k \in Creators, CreateThread(k) PROVE IdsNameConversations'
  <2>1. CASE UNCHANGED <<users, threads, logs, created, written, chat, deleter>>
    BY <2>1 DEF Thread, Log, ChatRequest, DeleterRequest, TypeOK, Exists, IdsNameConversations
  <2>2. ASSUME NEW t \in ThreadId, NEW u \in Users, InsertThread(t, u, None),
               UNCHANGED <<users, logs, written, chat, deleter>>
        PROVE  IdsNameConversations'
    <3>1. /\ t = created + 1 /\ created' = created + 1 /\ created \in Nat
          /\ ~ Exists(t)
          /\ threads'[t] = [user |-> u, title |-> None, conv |-> t]
          /\ threads'[t] # None
          /\ \A s \in ThreadId \ {t} : threads'[s] = threads[s]
      BY <2>2, FreshThread DEF Titles
    <3>2. \A s \in ThreadId : Exists(s)' => threads'[s].conv = s /\ s <= created'
      BY <3>1, ConstantsAssumption DEF Exists, IdsNameConversations, ThreadId
    <3>3. ASSUME NEW e \in Chats
          PROVE  /\ chat'[e].thread # None => chat'[e].conv = chat'[e].thread
                 /\ chat'[e].conv # None => chat'[e].conv <= created'
      <4>1. chat[e] \in ChatRequest /\ chat[e].conv \in ThreadId \cup {None}
        BY DEF TypeOK, ChatRequest
      <4>2. chat[e].conv # None => chat[e].conv <= created /\ chat[e].conv \in Nat
        BY <4>1 DEF IdsNameConversations, ThreadId
      <4>3. QED
        BY <2>2, <3>1, <4>2 DEF IdsNameConversations
    <3>4. ASSUME NEW d \in Deleters, deleter'[d].thread # None
          PROVE  deleter'[d].conv = deleter'[d].thread /\ deleter'[d].thread <= created'
      <4>1. deleter[d].thread \in ThreadId /\ deleter' = deleter
        BY <2>2, <3>4 DEF TypeOK, DeleterRequest
      <4>2. deleter[d].thread <= created /\ deleter[d].thread \in Nat
        BY <3>4, <4>1 DEF IdsNameConversations, ThreadId
      <4>3. QED
        BY <3>1, <3>4, <4>1, <4>2 DEF IdsNameConversations
    <3>5. QED
      BY <2>2, <3>2, <3>3, <3>4 DEF IdsNameConversations
  <2>3. QED
    BY <1>14, <2>1, <2>2 DEF CreateThread, TypeOK, db
<1>15. ASSUME NEW d \in Deleters, CheckOwner(d) PROVE IdsNameConversations'
  BY <1>15 DEF Exists, db, IdsNameConversations, CheckOwner, ThreadsOf
<1>16. ASSUME NEW d \in Deleters, DeleteThread(d) PROVE IdsNameConversations'
  BY <1>16 DEF Exists, IdsNameConversations, DeleteThread, IdleDeleter
<1>17. ASSUME NEW u \in Users, DeleteUser(u) PROVE IdsNameConversations'
  BY <1>17 DEF Exists, IdsNameConversations, DeleteUser
<1>18. ASSUME Crash PROVE IdsNameConversations'
  BY <1>18 DEF Exists, db, IdsNameConversations, Crash, Ended, Bare, IdleDeleter
<1>19. CASE UNCHANGED vars
  BY <1>19 DEF vars, Exists, IdsNameConversations
<1>20. QED
  BY <1>1, <1>2, <1>3, <1>4, <1>5, <1>6, <1>7, <1>8, <1>9, <1>10, <1>11, <1>12, <1>13,
     <1>14, <1>15, <1>16, <1>17, <1>18, <1>19
     DEF Next, ChatNext, ChatStep, AiAnswers, AiFails, AiTimeout

\* The conversation a chat was admitted to has the owner it had then.
LEMMA HeldThreadIsOwnStep ==
    ASSUME ~ RowidReuse, TypeOK, IdsNameConversations, HeldThreadIsOwn, [Next]_vars
    PROVE  HeldThreadIsOwn'
<1>1. ASSUME NEW c \in Chats, Arrive(c) PROVE HeldThreadIsOwn'
  BY <1>1 DEF ChatRequest, TypeOK, Exists, db, HeldThreadIsOwn, Arrive
<1>2. ASSUME NEW c \in Chats, Refuse(c) PROVE HeldThreadIsOwn'
  BY <1>2 DEF Exists, db, HeldThreadIsOwn, Refuse, Reply, Ended, Bare
<1>3. ASSUME NEW c \in Chats, ResolveGiven(c) PROVE HeldThreadIsOwn'
  BY <1>3
     DEF ChatRequest, TypeOK, Exists, db, HeldThreadIsOwn, ResolveGiven, Reply, Ended,
         Bare, Hold
<1>4. ASSUME NEW c \in Chats, ResolveDefault(c) PROVE HeldThreadIsOwn'
  <2>0. UNCHANGED <<users, threads, logs, created, written, creator, deleter>>
        /\ chat[c].pc = "authed"
    BY <1>4, DefaultQuery
  <2>1. CASE chat' = [chat EXCEPT ![c].pc = "creating"]
    BY <2>0, <2>1 DEF Exists, HeldThreadIsOwn
  <2>2. ASSUME NEW t \in ThreadId, threads[t] \in Thread, threads[t].user = chat[c].user,
               Hold(c, t)
        PROVE  HeldThreadIsOwn'
    BY <2>0, <2>2, NoneAssumption DEF Hold, ChatRequest, TypeOK, Exists, HeldThreadIsOwn
  <2>3. QED
    BY <1>4, <2>1, <2>2, DefaultQuery
<1>5. ASSUME NEW c \in Chats, CreateDefault(c) PROVE HeldThreadIsOwn'
  <2>0. UNCHANGED <<users, written, creator, deleter>> /\ chat[c].pc = "creating"
    BY <1>5, DefaultInsert
  <2>1. CASE Reply(c, 500) /\ UNCHANGED <<threads, logs, created>>
    BY <2>1 DEF Reply, Ended, Bare, Exists, HeldThreadIsOwn
  <2>2. ASSUME NEW t \in ThreadId, chat[c].user \in Users,
               InsertThread(t, chat[c].user, DefaultTitle),
               logs' = Adopted(chat[c].user, t),
               chat' = [chat EXCEPT ![c].pc = "resolved", ![c].thread = t,
                                    ![c].conv = created + 1, ![c].title = DefaultTitle]
        PROVE  HeldThreadIsOwn'
    <3>1. /\ t = created + 1 /\ created' = created + 1 /\ created \in Nat
          /\ ~ Exists(t)
          /\ threads'[t] = [user |-> chat[c].user, title |-> DefaultTitle, conv |-> t]
          /\ threads'[t] # None
          /\ \A s \in ThreadId \ {t} : threads'[s] = threads[s]
      BY <2>2, FreshThread DEF Titles
    <3>2. ASSUME NEW e \in Chats
          PROVE  /\ chat'[e].pc \in {"resolved", "awaiting", "answered", "saved"}
                      => chat'[e].thread # None
                 /\ (/\ chat'[e].conv # None /\ chat'[e].conv \in ThreadId
                     /\ threads'[chat'[e].conv] # None)
                      => threads'[chat'[e].conv].user = chat'[e].user
      <4>1. CASE e = c
        <5>1. chat'[c].thread = t /\ chat'[c].conv = t /\ chat'[c].user = chat[c].user
          BY <2>2, <3>1 DEF TypeOK, ChatRequest
        <5>2. QED
          BY <3>1, <4>1, <5>1, NoneAssumption
      <4>2. CASE e # c
        <5>1. chat'[e] = chat[e]
          BY <2>2, <4>2 DEF TypeOK
        <5>2. chat[e].conv # t
          <6>1. chat[e].conv \in ThreadId \cup {None}
            BY DEF TypeOK, ChatRequest
          <6>2. chat[e].conv \in ThreadId => chat[e].conv <= created
            BY NoneAssumption DEF IdsNameConversations
          <6>3. QED
            BY <3>1, <6>1, <6>2, NoneAssumption DEF ThreadId
        <5>3. /\ chat[e].pc \in {"resolved", "awaiting", "answered", "saved"}
                    => chat[e].thread # None
              /\ (/\ chat[e].conv # None /\ chat[e].conv \in ThreadId
                  /\ threads[chat[e].conv] # None)
                    => threads[chat[e].conv].user = chat[e].user
          BY DEF HeldThreadIsOwn, Exists
        <5>4. QED
          BY <3>1, <5>1, <5>2, <5>3
      <4>3. QED
        BY <4>1, <4>2
    <3>3. QED
      BY <3>2 DEF HeldThreadIsOwn, Exists
  <2>3. QED
    BY <1>5, <2>1, <2>2, DefaultInsert
<1>6. ASSUME NEW c \in Chats, LoadContext(c) PROVE HeldThreadIsOwn'
  BY <1>6 DEF TypeOK, Exists, db, HeldThreadIsOwn, LoadContext
<1>7. ASSUME NEW c \in Chats, NEW o \in {"success", "error", "timeout"}, Resume(c, o)
      PROVE  HeldThreadIsOwn'
  BY <1>7 DEF TypeOK, Exists, db, HeldThreadIsOwn, Resume
<1>8. ASSUME NEW c \in Chats, Cancel(c) \/ AiRaises(c) PROVE HeldThreadIsOwn'
  <2>1. PICK code \in ChatCode : /\ Reply(c, code) /\ code \in {499, 500}
                               /\ chat[c].pc = "awaiting" /\ UNCHANGED <<db, creator, deleter>>
    BY <1>8 DEF Cancel, AiRaises, Lost, ChatCode
  <2>2. QED
    BY <2>1 DEF TypeOK, Exists, db, HeldThreadIsOwn, Reply, Ended, Bare
<1>9. ASSUME NEW c \in Chats, Save(c) PROVE HeldThreadIsOwn'
  BY <1>9 DEF TypeOK, Exists, HeldThreadIsOwn, Save
<1>10. ASSUME NEW c \in Chats, SaveFails(c) PROVE HeldThreadIsOwn'
  BY <1>10
     DEF ChatRequest, TypeOK, Exists, db, HeldThreadIsOwn, SaveFails, Reply, Ended, Bare
<1>11. ASSUME NEW c \in Chats, Touch(c) PROVE HeldThreadIsOwn'
  BY <1>11 DEF Thread, TypeOK, Exists, HeldThreadIsOwn, Touch, Reply, Ended, Bare
<1>12. ASSUME NEW c \in Chats, TouchFails(c) PROVE HeldThreadIsOwn'
  BY <1>12 DEF Exists, db, HeldThreadIsOwn, TouchFails, Reply, Ended, Bare
<1>13. ASSUME NEW k \in Creators, CountThreads(k) PROVE HeldThreadIsOwn'
  BY <1>13 DEF Exists, db, HeldThreadIsOwn, CountThreads
<1>14. ASSUME NEW k \in Creators, CreateThread(k) PROVE HeldThreadIsOwn'
  <2>1. CASE UNCHANGED <<users, threads, logs, created, written, chat, deleter>>
    BY <2>1 DEF Thread, ChatRequest, TypeOK, Exists, IdsNameConversations, HeldThreadIsOwn
  <2>2. ASSUME NEW t \in ThreadId, NEW u \in Users, InsertThread(t, u, None),
               UNCHANGED <<users, logs, written, chat, deleter>>
        PROVE  HeldThreadIsOwn'
    <3>1. /\ t = created + 1 /\ created' = created + 1 /\ created \in Nat
          /\ ~ Exists(t)
          /\ threads'[t] = [user |-> u, title |-> None, conv |-> t]
          /\ threads'[t] # None
          /\ \A s \in ThreadId \ {t} : threads'[s] = threads[s]
      BY <2>2, FreshThread DEF Titles
    <3>2. ASSUME NEW e \in Chats PROVE chat[e].conv # t
      <4>1. chat[e].conv \in ThreadId \cup {None}
        BY DEF TypeOK, ChatRequest
      <4>2. chat[e].conv \in ThreadId => chat[e].conv <= created
        BY NoneAssumption DEF IdsNameConversations
      <4>3. QED
        BY <3>1, <4>1, <4>2, NoneAssumption DEF ThreadId
    <3>3. QED
      BY <2>2, <3>1, <3>2 DEF Exists, HeldThreadIsOwn
  <2>3. QED
    BY <1>14, <2>1, <2>2 DEF CreateThread, TypeOK, db
<1>15. ASSUME NEW d \in Deleters, CheckOwner(d) PROVE HeldThreadIsOwn'
  BY <1>15 DEF Exists, db, HeldThreadIsOwn, CheckOwner
<1>16. ASSUME NEW d \in Deleters, DeleteThread(d) PROVE HeldThreadIsOwn'
  BY <1>16 DEF Exists, HeldThreadIsOwn, DeleteThread
<1>17. ASSUME NEW u \in Users, DeleteUser(u) PROVE HeldThreadIsOwn'
  BY <1>17 DEF Exists, HeldThreadIsOwn, DeleteUser
<1>18. ASSUME Crash PROVE HeldThreadIsOwn'
  BY <1>18 DEF Exists, db, HeldThreadIsOwn, Crash, Ended, Bare
<1>19. CASE UNCHANGED vars
  BY <1>19 DEF vars, Thread, ChatRequest, TypeOK, Exists, IdsNameConversations, HeldThreadIsOwn
<1>20. QED
  BY <1>1, <1>2, <1>3, <1>4, <1>5, <1>6, <1>7, <1>8, <1>9, <1>10, <1>11, <1>12, <1>13,
     <1>14, <1>15, <1>16, <1>17, <1>18, <1>19
     DEF Next, ChatNext, ChatStep, AiAnswers, AiFails, AiTimeout

\* A record is inserted only beside its thread, and leaves with it.
LEMMA RecordsStayInConversationStep ==
    ASSUME ~ RowidReuse, TypeOK, IdsNameConversations, HeldThreadIsOwn,
           RecordsStayInConversation, [Next]_vars
    PROVE  RecordsStayInConversation'
<1>1. ASSUME NEW c \in Chats, Arrive(c) PROVE RecordsStayInConversation'
  BY <1>1 DEF Exists, db, RecordsStayInConversation, Arrive
<1>2. ASSUME NEW c \in Chats, Refuse(c) PROVE RecordsStayInConversation'
  BY <1>2 DEF Exists, db, RecordsStayInConversation, Refuse
<1>3. ASSUME NEW c \in Chats, ResolveGiven(c) PROVE RecordsStayInConversation'
  BY <1>3 DEF Exists, db, RecordsStayInConversation, ResolveGiven
<1>4. ASSUME NEW c \in Chats, ResolveDefault(c) PROVE RecordsStayInConversation'
  <2>0. UNCHANGED <<users, threads, logs, created, written, creator, deleter>>
        /\ chat[c].pc = "authed"
    BY <1>4, DefaultQuery
  <2>1. CASE chat' = [chat EXCEPT ![c].pc = "creating"]
    BY <2>0 DEF Exists, RecordsStayInConversation
  <2>2. ASSUME NEW t \in ThreadId, threads[t] \in Thread, threads[t].user = chat[c].user,
               Hold(c, t)
        PROVE  RecordsStayInConversation'
    BY <2>0 DEF Exists, RecordsStayInConversation
  <2>3. QED
    BY <1>4, <2>1, <2>2, DefaultQuery
<1>5. ASSUME NEW c \in Chats, CreateDefault(c) PROVE RecordsStayInConversation'
  <2>0. UNCHANGED <<users, written, creator, deleter>> /\ chat[c].pc = "creating"
    BY <1>5, DefaultInsert
  <2>1. CASE Reply(c, 500) /\ UNCHANGED <<threads, logs, created>>
    BY <2>1 DEF Exists, RecordsStayInConversation
  <2>2. ASSUME NEW t \in ThreadId, chat[c].user \in Users,
               InsertThread(t, chat[c].user, DefaultTitle),
               logs' = Adopted(chat[c].user, t),
               chat' = [chat EXCEPT ![c].pc = "resolved", ![c].thread = t,
                                    ![c].conv = created + 1, ![c].title = DefaultTitle]
        PROVE  RecordsStayInConversation'
    <3>1. /\ t = created + 1 /\ created' = created + 1 /\ created \in Nat
          /\ ~ Exists(t)
          /\ threads'[t] = [user |-> chat[c].user, title |-> DefaultTitle, conv |-> t]
          /\ threads'[t] # None
          /\ \A s \in ThreadId \ {t} : threads'[s] = threads[s]
      BY <2>2, FreshThread DEF Titles
    <3>2. ASSUME NEW l \in logs', l.thread # None
          PROVE  /\ l.thread \in ThreadId /\ threads'[l.thread] # None
                 /\ threads'[l.thread].user = l.user
                 /\ threads'[l.thread].conv = l.conv
      <4>1. PICK m \in logs :
               l = IF m.user = chat[c].user /\ m.thread = None
                   THEN [m EXCEPT !.thread = t, !.conv = created + 1] ELSE m
        BY <2>2 DEF Adopted
      <4>2. CASE m.user = chat[c].user /\ m.thread = None
        <5>1. l.thread = t /\ l.conv = t /\ l.user = chat[c].user
          BY <3>1, <4>1, <4>2 DEF TypeOK, Log
        <5>2. QED
          BY <3>1, <5>1 DEF Exists
      <4>3. CASE ~ (m.user = chat[c].user /\ m.thread = None)
        <5>1. l = m
          BY <4>1, <4>3
        <5>2. Exists(l.thread) /\ threads[l.thread].user = l.user
              /\ threads[l.thread].conv = l.conv
          BY <3>2, <5>1 DEF RecordsStayInConversation
        <5>3. l.thread \in ThreadId \ {t}
          BY <3>1, <5>2 DEF Exists
        <5>4. threads'[l.thread] = threads[l.thread]
          BY <3>1, <5>3
        <5>5. QED
          BY <5>2, <5>4 DEF Exists
      <4>4. QED
        BY <4>2, <4>3
    <3>3. QED
      BY <3>2 DEF RecordsStayInConversation, Exists
  <2>3. QED
    BY <1>5, <2>1, <2>2, DefaultInsert
<1>6. ASSUME NEW c \in Chats, LoadContext(c) PROVE RecordsStayInConversation'
  BY <1>6 DEF Exists, db, RecordsStayInConversation, LoadContext
<1>7. ASSUME NEW c \in Chats, NEW o \in {"success", "error", "timeout"}, Resume(c, o)
      PROVE  RecordsStayInConversation'
  BY <1>7 DEF Exists, db, RecordsStayInConversation, Resume
<1>8. ASSUME NEW c \in Chats, Cancel(c) \/ AiRaises(c) PROVE RecordsStayInConversation'
  BY <1>8 DEF Exists, db, RecordsStayInConversation, Cancel, AiRaises
<1>9. ASSUME NEW c \in Chats, Save(c) PROVE RecordsStayInConversation'
  BY <1>9
     DEF Exists, IdsNameConversations, HeldThreadIsOwn, RecordsStayInConversation, Save,
         ForeignKeysHold
<1>10. ASSUME NEW c \in Chats, SaveFails(c) PROVE RecordsStayInConversation'
  BY <1>10 DEF Exists, db, RecordsStayInConversation, SaveFails
<1>11. ASSUME NEW c \in Chats, Touch(c) PROVE RecordsStayInConversation'
  <2>1. /\ logs' = logs /\ Reply(c, FinalCode(c)) /\ chat[c].pc = "saved"
        /\ UNCHANGED <<created, deleter>>
        /\ \A s \in ThreadId :
              /\ Exists(s)' <=> Exists(s)
              /\ Exists(s) => /\ threads'[s].user = threads[s].user
                              /\ threads'[s].conv = threads[s].conv
    BY <1>11, TouchKeepsThreads
  <2>2. QED
    BY <2>1 DEF RecordsStayInConversation, Exists
<1>12. ASSUME NEW c \in Chats, TouchFails(c) PROVE RecordsStayInConversation'
  BY <1>12 DEF Exists, db, RecordsStayInConversation, TouchFails
<1>13. ASSUME NEW k \in Creators, CountThreads(k) PROVE RecordsStayInConversation'
  BY <1>13 DEF Exists, db, RecordsStayInConversation, CountThreads
<1>14. ASSUME NEW k \in Creators, CreateThread(k) PROVE RecordsStayInConversation'
  <2>1. CASE UNCHANGED <<users, threads, logs, created, written, chat, deleter>>
    BY <2>1 DEF Exists, RecordsStayInConversation
  <2>2. ASSUME NEW t \in ThreadId, NEW u \in Users, InsertThread(t, u, None),
               UNCHANGED <<users, logs, written, chat, deleter>>
        PROVE  RecordsStayInConversation'
    <3>1. /\ t = created + 1 /\ created' = created + 1 /\ created \in Nat
          /\ ~ Exists(t)
          /\ threads'[t] = [user |-> u, title |-> None, conv |-> t]
          /\ threads'[t] # None
          /\ \A s \in ThreadId \ {t} : threads'[s] = threads[s]
      BY <2>2, FreshThread DEF Titles
    <3>2. QED
      BY <2>2, <3>1, NoneAssumption
         DEF Thread, Log, TypeOK, Exists, RecordsStayInConversation
  <2>3. QED
    BY <1>14, <2>1, <2>2 DEF CreateThread, TypeOK, db
<1>15. ASSUME NEW d \in Deleters, CheckOwner(d) PROVE RecordsStayInConversation'
  BY <1>15 DEF Exists, db, RecordsStayInConversation, CheckOwner
<1>16. ASSUME NEW d \in Deleters, DeleteThread(d) PROVE RecordsStayInConversation'
  BY <1>16 DEF Exists, RecordsStayInConversation, DeleteThread
<1>17. ASSUME NEW u \in Users, DeleteUser(u) PROVE RecordsStayInConversation'
  BY <1>17 DEF Exists, RecordsStayInConversation, DeleteUser
<1>18. ASSUME Crash PROVE RecordsStayInConversation'
  BY <1>18 DEF Exists, db, RecordsStayInConversation, Crash
<1>19. CASE UNCHANGED vars
  BY <1>19 DEF vars, Exists, RecordsStayInConversation
<1>20. QED
  BY <1>1, <1>2, <1>3, <1>4, <1>5, <1>6, <1>7, <1>8, <1>9, <1>10, <1>11, <1>12, <1>13,
     <1>14, <1>15, <1>16, <1>17, <1>18, <1>19
     DEF Next, ChatNext, ChatStep, AiAnswers, AiFails, AiTimeout

\* Only Save inserts a record of a request, once.
LEMMA RecordsFollowRequestsStep ==
    ASSUME ~ RowidReuse, TypeOK, IdsNameConversations, HeldThreadIsOwn,
           RecordsFollowRequests, StoredIsThere, [Next]_vars
    PROVE  RecordsFollowRequests'
<1>1. ASSUME NEW c \in Chats, Arrive(c) PROVE RecordsFollowRequests'
  BY <1>1 DEF Log, TypeOK, db, RecordsFollowRequests, Arrive
<1>2. ASSUME NEW c \in Chats, Refuse(c) PROVE RecordsFollowRequests'
  BY <1>2 DEF db, RecordsFollowRequests, Refuse, Reply
<1>3. ASSUME NEW c \in Chats, ResolveGiven(c) PROVE RecordsFollowRequests'
  BY <1>3 DEF Log, TypeOK, db, RecordsFollowRequests, ResolveGiven, Reply, Hold
<1>4. ASSUME NEW c \in Chats, ResolveDefault(c) PROVE RecordsFollowRequests'
  <2>0. UNCHANGED <<users, threads, logs, created, written, creator, deleter>>
        /\ chat[c].pc = "authed"
    BY <1>4, DefaultQuery
  <2>1. CASE chat' = [chat EXCEPT ![c].pc = "creating"]
    BY <2>0, <2>1 DEF RecordsFollowRequests
  <2>2. ASSUME NEW t \in ThreadId, threads[t] \in Thread, threads[t].user = chat[c].user,
               Hold(c, t)
        PROVE  RecordsFollowRequests'
    BY <2>0, <2>2 DEF Hold, Log, TypeOK, RecordsFollowRequests
  <2>3. QED
    BY <1>4, <2>1, <2>2, DefaultQuery
<1>5. ASSUME NEW c \in Chats, CreateDefault(c) PROVE RecordsFollowRequests'
  <2>0. UNCHANGED <<users, written, creator, deleter>> /\ chat[c].pc = "creating"
    BY <1>5, DefaultInsert
  <2>1. CASE Reply(c, 500) /\ UNCHANGED <<threads, logs, created>>
    BY <2>0, <2>1 DEF Reply, RecordsFollowRequests
  <2>2. ASSUME NEW t \in ThreadId, chat[c].user \in Users,
               InsertThread(t, chat[c].user, DefaultTitle),
               logs' = Adopted(chat[c].user, t),
               chat' = [chat EXCEPT ![c].pc = "resolved", ![c].thread = t,
                                    ![c].conv = created + 1, ![c].title = DefaultTitle]
        PROVE  RecordsFollowRequests'
    <3>1. /\ t = created + 1 /\ created' = created + 1 /\ created \in Nat
          /\ ~ Exists(t)
          /\ threads'[t] = [user |-> chat[c].user, title |-> DefaultTitle, conv |-> t]
          /\ threads'[t] # None
          /\ \A s \in ThreadId \ {t} : threads'[s] = threads[s]
      BY <2>2, FreshThread DEF Titles
    <3>2. ASSUME NEW l \in logs', l.chat # None PROVE l \in logs
      <4>1. PICK m \in logs :
               l = IF m.user = chat[c].user /\ m.thread = None
                   THEN [m EXCEPT !.thread = t, !.conv = created + 1] ELSE m
        BY <2>2 DEF Adopted
      <4>2. m \in Log
        BY DEF TypeOK
      <4>3. l.chat = m.chat
        BY <4>1, <4>2 DEF Log
      <4>4. m.thread # None
        BY <3>2, <4>3 DEF RecordsFollowRequests
      <4>5. QED
        BY <4>1, <4>4
    <3>3. ASSUME NEW l \in logs, l.chat # None PROVE chat'[l.chat] = chat[l.chat]
      <4>1. l.chat \in Chats
        BY <3>3 DEF TypeOK, Log
      <4>2. l.chat # c
        BY <2>0, <3>3, <4>1 DEF RecordsFollowRequests
      <4>3. QED
        BY <2>2, <4>1, <4>2 DEF TypeOK
    <3>4. QED
      BY <3>2, <3>3 DEF RecordsFollowRequests
  <2>3. QED
    BY <1>5, <2>1, <2>2, DefaultInsert
<1>6. ASSUME NEW c \in Chats, LoadContext(c) PROVE RecordsFollowRequests'
  BY <1>6 DEF Log, TypeOK, db, RecordsFollowRequests, LoadContext
<1>7. ASSUME NEW c \in Chats, NEW o \in {"success", "error", "timeout"}, Resume(c, o)
      PROVE  RecordsFollowRequests'
  BY <1>7 DEF Log, TypeOK, db, RecordsFollowRequests, Resume
<1>8. ASSUME NEW c \in Chats, Cancel(c) \/ AiRaises(c) PROVE RecordsFollowRequests'
  <2>1. PICK code \in ChatCode : /\ Reply(c, code) /\ code \in {499, 500}
                               /\ chat[c].pc = "awaiting" /\ UNCHANGED <<db, creator, deleter>>
    BY <1>8 DEF Cancel, AiRaises, Lost, ChatCode
  <2>2. QED
    BY <2>1 DEF TypeOK, db, RecordsFollowRequests, Reply, Ended, Bare, Log
<1>9. ASSUME NEW c \in Chats, Save(c) PROVE RecordsFollowRequests'
  BY <1>9 DEF Log, TypeOK, HeldThreadIsOwn, RecordsFollowRequests, Save
<1>10. ASSUME NEW c \in Chats, SaveFails(c) PROVE RecordsFollowRequests'
  BY <1>10 DEF Log, TypeOK, db, RecordsFollowRequests, SaveFails, Reply
<1>11. ASSUME NEW c \in Chats, Touch(c) PROVE RecordsFollowRequests'
  <2>1. /\ logs' = logs /\ Reply(c, FinalCode(c)) /\ chat[c].pc = "saved"
        /\ UNCHANGED <<created, deleter>>
        /\ \A s \in ThreadId :
              /\ Exists(s)' <=> Exists(s)
              /\ Exists(s) => /\ threads'[s].user = threads[s].user
                              /\ threads'[s].conv = threads[s].conv
    BY <1>11, TouchKeepsThreads
  <2>2. /\ chat' = [chat EXCEPT ![c] = Ended(c, FinalCode(c))]
        /\ Ended(c, FinalCode(c)).pc = "done" /\ Ended(c, FinalCode(c)).conv = chat[c].conv
        /\ Ended(c, FinalCode(c)).code = FinalCode(c)
        /\ Ended(c, FinalCode(c)).stored = FALSE
    BY <2>1 DEF Reply, Ended, Bare
  <2>3. /\ FinalCode(c) = 201 => chat[c].stored /\ StatusOf(chat[c].outcome) = "success"
        /\ StatusOf(chat[c].outcome) = "success" /\ chat[c].stored => FinalCode(c) = 201
        /\ StatusOf(chat[c].outcome) # "success" => FinalCode(c) \in {502, 504}
        /\ StatusOf(chat[c].outcome) \in {"success", "ai_error"}
    <3>1. chat[c].outcome \in {"success", "error", "timeout"}
      BY <2>1 DEF StoredIsThere, TypeOK, ChatRequest
    <3>2. QED
      BY <3>1 DEF FinalCode, StatusOf
  <2>4. ASSUME NEW l \in logs, l.chat # None
        PROVE  LET r == chat'[l.chat] IN
               /\ l.thread # None /\ l.conv = r.conv
               /\ \/ r.pc = "saved" /\ r.stored /\ l.status = StatusOf(r.outcome)
                  \/ r.pc = "done" /\ r.code = 201 /\ l.status = "success"
                  \/ r.pc = "done" /\ r.code \in {502, 504} /\ l.status = "ai_error"
                  \/ r.pc = "done" /\ r.code = Lost
    <3>1. l.chat \in Chats /\ l.status \in {"success", "ai_error"}
      BY <2>4 DEF TypeOK, Log
    <3>2. CASE l.chat = c
      <4>1. chat[c].stored /\ l.status = StatusOf(chat[c].outcome) /\ l.thread # None
            /\ l.conv = chat[c].conv
        BY <2>1, <2>4, <3>2 DEF RecordsFollowRequests
      <4>2. chat'[c] = Ended(c, FinalCode(c))
        BY <2>2 DEF TypeOK
      <4>3. \/ FinalCode(c) = 201 /\ l.status = "success"
            \/ FinalCode(c) \in {502, 504} /\ l.status = "ai_error"
        BY <2>3, <3>1, <4>1
      <4>4. QED
        BY <2>2, <3>2, <4>1, <4>2, <4>3
    <3>3. CASE l.chat # c
      <4>1. chat'[l.chat] = chat[l.chat]
        BY <2>2, <3>1, <3>3 DEF TypeOK
      <4>2. QED
        BY <2>4, <4>1 DEF RecordsFollowRequests
    <3>4. QED
      BY <3>2, <3>3
  <2>5. QED
    BY <2>1, <2>4 DEF RecordsFollowRequests
<1>12. ASSUME NEW c \in Chats, TouchFails(c) PROVE RecordsFollowRequests'
  <2>1. /\ UNCHANGED <<logs, threads>> /\ Reply(c, FinalCode(c)) /\ chat[c].pc = "saved"
    BY <1>12 DEF TouchFails, db
  <2>2. /\ chat' = [chat EXCEPT ![c] = Ended(c, FinalCode(c))]
        /\ Ended(c, FinalCode(c)).pc = "done" /\ Ended(c, FinalCode(c)).conv = chat[c].conv
        /\ Ended(c, FinalCode(c)).code = FinalCode(c)
        /\ Ended(c, FinalCode(c)).stored = FALSE
    BY <2>1 DEF Reply, Ended, Bare
  <2>3. /\ FinalCode(c) = 201 => chat[c].stored /\ StatusOf(chat[c].outcome) = "success"
        /\ StatusOf(chat[c].outcome) = "success" /\ chat[c].stored => FinalCode(c) = 201
        /\ StatusOf(chat[c].outcome) # "success" => FinalCode(c) \in {502, 504}
        /\ StatusOf(chat[c].outcome) \in {"success", "ai_error"}
    <3>1. chat[c].outcome \in {"success", "error", "timeout"}
      BY <2>1 DEF StoredIsThere, TypeOK, ChatRequest
    <3>2. QED
      BY <3>1 DEF FinalCode, StatusOf
  <2>4. ASSUME NEW l \in logs, l.chat # None
        PROVE  LET r == chat'[l.chat] IN
               /\ l.thread # None /\ l.conv = r.conv
               /\ \/ r.pc = "saved" /\ r.stored /\ l.status = StatusOf(r.outcome)
                  \/ r.pc = "done" /\ r.code = 201 /\ l.status = "success"
                  \/ r.pc = "done" /\ r.code \in {502, 504} /\ l.status = "ai_error"
                  \/ r.pc = "done" /\ r.code = Lost
    <3>1. l.chat \in Chats /\ l.status \in {"success", "ai_error"}
      BY <2>4 DEF TypeOK, Log
    <3>2. CASE l.chat = c
      <4>1. chat[c].stored /\ l.status = StatusOf(chat[c].outcome) /\ l.thread # None
            /\ l.conv = chat[c].conv
        BY <2>1, <2>4, <3>2 DEF RecordsFollowRequests
      <4>2. chat'[c] = Ended(c, FinalCode(c))
        BY <2>2 DEF TypeOK
      <4>3. \/ FinalCode(c) = 201 /\ l.status = "success"
            \/ FinalCode(c) \in {502, 504} /\ l.status = "ai_error"
        BY <2>3, <3>1, <4>1
      <4>4. QED
        BY <2>2, <3>2, <4>1, <4>2, <4>3
    <3>3. CASE l.chat # c
      <4>1. chat'[l.chat] = chat[l.chat]
        BY <2>2, <3>1, <3>3 DEF TypeOK
      <4>2. QED
        BY <2>4, <4>1 DEF RecordsFollowRequests
    <3>4. QED
      BY <3>2, <3>3
  <2>5. QED
    BY <2>1, <2>4 DEF RecordsFollowRequests
<1>13. ASSUME NEW k \in Creators, CountThreads(k) PROVE RecordsFollowRequests'
  BY <1>13 DEF db, RecordsFollowRequests, CountThreads
<1>14. ASSUME NEW k \in Creators, CreateThread(k) PROVE RecordsFollowRequests'
  <2>1. CASE UNCHANGED <<users, threads, logs, created, written, chat, deleter>>
    BY <2>1 DEF RecordsFollowRequests
  <2>2. ASSUME NEW t \in ThreadId, NEW u \in Users, InsertThread(t, u, None),
               UNCHANGED <<users, logs, written, chat, deleter>>
        PROVE  RecordsFollowRequests'
    <3>1. /\ t = created + 1 /\ created' = created + 1 /\ created \in Nat
          /\ ~ Exists(t)
          /\ threads'[t] = [user |-> u, title |-> None, conv |-> t]
          /\ threads'[t] # None
          /\ \A s \in ThreadId \ {t} : threads'[s] = threads[s]
      BY <2>2, FreshThread DEF Titles
    <3>2. QED
      BY <2>2 DEF RecordsFollowRequests
  <2>3. QED
    BY <1>14, <2>1, <2>2 DEF CreateThread, TypeOK, db
<1>15. ASSUME NEW d \in Deleters, CheckOwner(d) PROVE RecordsFollowRequests'
  BY <1>15 DEF db, RecordsFollowRequests, CheckOwner
<1>16. ASSUME NEW d \in Deleters, DeleteThread(d) PROVE RecordsFollowRequests'
  BY <1>16 DEF RecordsFollowRequests, DeleteThread
<1>17. ASSUME NEW u \in Users, DeleteUser(u) PROVE RecordsFollowRequests'
  BY <1>17 DEF RecordsFollowRequests, DeleteUser
<1>18. ASSUME Crash PROVE RecordsFollowRequests'
  BY <1>18 DEF Log, TypeOK, db, RecordsFollowRequests, Crash, Ended, Bare
<1>19. CASE UNCHANGED vars
  BY <1>19 DEF vars, RecordsFollowRequests
<1>20. QED
  BY <1>1, <1>2, <1>3, <1>4, <1>5, <1>6, <1>7, <1>8, <1>9, <1>10, <1>11, <1>12, <1>13,
     <1>14, <1>15, <1>16, <1>17, <1>18, <1>19
     DEF Next, ChatNext, ChatStep, AiAnswers, AiFails, AiTimeout

\* A stored record is lost only with its conversation.
LEMMA StoredIsThereStep ==
    ASSUME ~ RowidReuse, TypeOK, IdsNameConversations, HeldThreadIsOwn,
           RecordsStayInConversation, RecordsFollowRequests, StoredIsThere, [Next]_vars
    PROVE  StoredIsThere'
<1>1. ASSUME NEW c \in Chats, Arrive(c) PROVE StoredIsThere'
  BY <1>1 DEF TypeOK, Exists, db, StoredIsThere, Arrive
<1>2. ASSUME NEW c \in Chats, Refuse(c) PROVE StoredIsThere'
  BY <1>2 DEF Exists, db, StoredIsThere, Refuse, Reply, Ended, Bare
<1>3. ASSUME NEW c \in Chats, ResolveGiven(c) PROVE StoredIsThere'
  BY <1>3
     DEF ChatRequest, TypeOK, Exists, db, HeldThreadIsOwn, StoredIsThere, ResolveGiven,
         Reply, Ended, Bare, Hold
<1>4. ASSUME NEW c \in Chats, ResolveDefault(c) PROVE StoredIsThere'
  <2>0. UNCHANGED <<users, threads, logs, created, written, creator, deleter>>
        /\ chat[c].pc = "authed"
    BY <1>4, DefaultQuery
  <2>1. CASE chat' = [chat EXCEPT ![c].pc = "creating"]
    BY <2>0, <2>1 DEF Exists, StoredIsThere
  <2>2. ASSUME NEW t \in ThreadId, threads[t] \in Thread, threads[t].user = chat[c].user,
               Hold(c, t)
        PROVE  StoredIsThere'
    BY <2>0, <2>2, NoneAssumption DEF Hold, TypeOK, Exists, StoredIsThere
  <2>3. QED
    BY <1>4, <2>1, <2>2, DefaultQuery
<1>5. ASSUME NEW c \in Chats, CreateDefault(c) PROVE StoredIsThere'
  <2>0. UNCHANGED <<users, written, creator, deleter>> /\ chat[c].pc = "creating"
    BY <1>5, DefaultInsert
  <2>1. CASE Reply(c, 500) /\ UNCHANGED <<threads, logs, created>>
    BY <2>1 DEF Reply, Ended, Bare, Exists, StoredIsThere
  <2>2. ASSUME NEW t \in ThreadId, chat[c].user \in Users,
               InsertThread(t, chat[c].user, DefaultTitle),
               logs' = Adopted(chat[c].user, t),
               chat' = [chat EXCEPT ![c].pc = "resolved", ![c].thread = t,
                                    ![c].conv = created + 1, ![c].title = DefaultTitle]
        PROVE  StoredIsThere'
    <3>1. /\ t = created + 1 /\ created' = created + 1 /\ created \in Nat
          /\ ~ Exists(t)
          /\ threads'[t] = [user |-> chat[c].user, title |-> DefaultTitle, conv |-> t]
          /\ threads'[t] # None
          /\ \A s \in ThreadId \ {t} : threads'[s] = threads[s]
      BY <2>2, FreshThread DEF Titles
    <3>2. ASSUME NEW l \in logs PROVE \E m \in logs' : m.chat = l.chat
      <4>1. [l EXCEPT !.thread = t, !.conv = created + 1].chat = l.chat
        BY DEF TypeOK, Log
      <4>2. QED
        BY <2>2, <4>1 DEF Adopted
    <3>3. ASSUME NEW e \in Chats
          PROVE  /\ chat'[e].pc \in {"answered", "saved"} => chat'[e].outcome # None
                 /\ chat'[e].pc \notin {"saved", "done"}
                      => ~ chat'[e].stored /\ chat'[e].code = None
                 /\ chat'[e].pc = "saved" => chat'[e].code = None
                 /\ \/ chat'[e].pc = "saved" /\ chat'[e].stored
                    \/ chat'[e].code = 201
                    => \/ ~ (chat'[e].conv \in ThreadId /\ threads'[chat'[e].conv] # None)
                       \/ \E l \in logs' : l.chat = e
      <4>1. CASE e = c
        <5>1. /\ chat'[c].pc = "resolved" /\ chat'[c].stored = chat[c].stored
              /\ chat'[c].code = chat[c].code
          BY <2>2 DEF TypeOK, ChatRequest
        <5>2. QED
          BY <2>0, <4>1, <5>1, NoneAssumption DEF StoredIsThere
      <4>2. CASE e # c
        <5>1. chat'[e] = chat[e]
          BY <2>2, <4>2 DEF TypeOK
        <5>2. chat[e].conv # t
          <6>1. chat[e].conv \in ThreadId \cup {None}
            BY DEF TypeOK, ChatRequest
          <6>2. chat[e].conv \in ThreadId => chat[e].conv <= created
            BY NoneAssumption DEF IdsNameConversations
          <6>3. QED
            BY <3>1, <6>1, <6>2, NoneAssumption DEF ThreadId
        <5>3. chat[e].conv \in ThreadId /\ threads'[chat[e].conv] # None => Exists(chat[e].conv)
          BY <3>1, <5>2 DEF Exists
        <5>4. QED
          BY <3>2, <5>1, <5>3 DEF StoredIsThere, Exists
      <4>3. QED
        BY <4>1, <4>2
    <3>4. QED
      BY <3>3 DEF StoredIsThere, Exists
  <2>3. QED
    BY <1>5, <2>1, <2>2, DefaultInsert
<1>6. ASSUME NEW c \in Chats, LoadContext(c) PROVE StoredIsThere'
  BY <1>6 DEF TypeOK, Exists, db, StoredIsThere, LoadContext
<1>7. ASSUME NEW c \in Chats, NEW o \in {"success", "error", "timeout"}, Resume(c, o)
      PROVE  StoredIsThere'
  BY <1>7, NoneAssumption DEF TypeOK, Exists, db, StoredIsThere, Resume
<1>8. ASSUME NEW c \in Chats, Cancel(c) \/ AiRaises(c) PROVE StoredIsThere'
  <2>1. PICK code \in {499, 500} : Reply(c, code) /\ UNCHANGED <<threads, logs>>
    BY <1>8 DEF Cancel, AiRaises, Lost, db
  <2>2. ASSUME NEW e \in Chats
        PROVE  \/ chat'[e] = chat[e]
               \/ chat'[e].pc = "done" /\ chat'[e].code \in {499, 500}
    BY <2>1 DEF TypeOK, Reply, Ended, Bare
  <2>3. QED
    BY <2>1, <2>2 DEF StoredIsThere, Exists
<1>9. ASSUME NEW c \in Chats, Save(c) PROVE StoredIsThere'
  BY <1>9 DEF ChatRequest, TypeOK, StoredIsThere, Save
<1>10. ASSUME NEW c \in Chats, SaveFails(c) PROVE StoredIsThere'
  BY <1>10
     DEF ChatRequest, TypeOK, Exists, db, IdsNameConversations, StoredIsThere, SaveFails,
         Reply, Ended, Bare
<1>11. ASSUME NEW c \in Chats, Touch(c) PROVE StoredIsThere'
  <2>1. /\ logs' = logs /\ Reply(c, FinalCode(c)) /\ chat[c].pc = "saved"
        /\ UNCHANGED <<created, deleter>>
        /\ \A s \in ThreadId :
              /\ Exists(s)' <=> Exists(s)
              /\ Exists(s) => /\ threads'[s].user = threads[s].user
                              /\ threads'[s].conv = threads[s].conv
    BY <1>11, TouchKeepsThreads
  <2>2. /\ chat' = [chat EXCEPT ![c] = Ended(c, FinalCode(c))]
        /\ Ended(c, FinalCode(c)).pc = "done" /\ Ended(c, FinalCode(c)).conv = chat[c].conv
        /\ Ended(c, FinalCode(c)).code = FinalCode(c)
        /\ Ended(c, FinalCode(c)).stored = FALSE
    BY <2>1 DEF Reply, Ended, Bare
  <2>3. /\ FinalCode(c) = 201 => chat[c].stored /\ StatusOf(chat[c].outcome) = "success"
        /\ StatusOf(chat[c].outcome) = "success" /\ chat[c].stored => FinalCode(c) = 201
        /\ StatusOf(chat[c].outcome) # "success" => FinalCode(c) \in {502, 504}
        /\ StatusOf(chat[c].outcome) \in {"success", "ai_error"}
    <3>1. chat[c].outcome \in {"success", "error", "timeout"}
      BY <2>1 DEF StoredIsThere, TypeOK, ChatRequest
    <3>2. QED
      BY <3>1 DEF FinalCode, StatusOf
  <2>4. ASSUME NEW e \in Chats
          PROVE  /\ chat'[e].pc \in {"answered", "saved"} => chat'[e].outcome # None
                 /\ chat'[e].pc \notin {"saved", "done"}
                      => ~ chat'[e].stored /\ chat'[e].code = None
                 /\ chat'[e].pc = "saved" => chat'[e].code = None
                 /\ \/ chat'[e].pc = "saved" /\ chat'[e].stored
                    \/ chat'[e].code = 201
                    => \/ ~ (chat'[e].conv \in ThreadId /\ threads'[chat'[e].conv] # None)
                       \/ \E l \in logs' : l.chat = e
    <3>1. CASE e = c
      <4>1. chat'[c] = Ended(c, FinalCode(c))
        BY <2>2 DEF TypeOK
      <4>2. chat[c].conv \in ThreadId => 
               (threads'[chat[c].conv] # None <=> threads[chat[c].conv] # None)
        BY <2>1 DEF Exists
      <4>3. QED
        BY <2>1, <2>2, <2>3, <3>1, <4>1, <4>2 DEF StoredIsThere, Exists
    <3>2. CASE e # c
      <4>1. chat'[e] = chat[e]
        BY <2>2, <3>2 DEF TypeOK
      <4>2. chat[e].conv \in ThreadId => 
               (threads'[chat[e].conv] # None <=> threads[chat[e].conv] # None)
        BY <2>1 DEF Exists
      <4>3. QED
        BY <2>1, <4>1, <4>2 DEF StoredIsThere, Exists
    <3>3. QED
      BY <3>1, <3>2
  <2>5. QED
    BY <2>4 DEF StoredIsThere, Exists
<1>12. ASSUME NEW c \in Chats, TouchFails(c) PROVE StoredIsThere'
  BY <1>12 DEF Exists, db, StoredIsThere, TouchFails, Reply, Ended, Bare, FinalCode
<1>13. ASSUME NEW k \in Creators, CountThreads(k) PROVE StoredIsThere'
  BY <1>13 DEF Exists, db, StoredIsThere, CountThreads
<1>14. ASSUME NEW k \in Creators, CreateThread(k) PROVE StoredIsThere'
  <2>1. CASE UNCHANGED <<users, threads, logs, created, written, chat, deleter>>
    BY <2>1 DEF Exists, StoredIsThere
  <2>2. ASSUME NEW t \in ThreadId, NEW u \in Users, InsertThread(t, u, None),
               UNCHANGED <<users, logs, written, chat, deleter>>
        PROVE  StoredIsThere'
    <3>1. /\ t = created + 1 /\ created' = created + 1 /\ created \in Nat
          /\ ~ Exists(t)
          /\ threads'[t] = [user |-> u, title |-> None, conv |-> t]
          /\ threads'[t] # None
          /\ \A s \in ThreadId \ {t} : threads'[s] = threads[s]
      BY <2>2, FreshThread DEF Titles
    <3>2. ASSUME NEW e \in Chats PROVE Exists(chat[e].conv)' => Exists(chat[e].conv)
      <4>1. chat[e].conv \in ThreadId \cup {None}
        BY DEF TypeOK, ChatRequest
      <4>2. chat[e].conv \in ThreadId => chat[e].conv <= created
        BY NoneAssumption DEF IdsNameConversations
      <4>3. chat[e].conv # t
        BY <3>1, <4>1, <4>2, NoneAssumption DEF ThreadId
      <4>4. QED
        BY <2>2, <3>1, <4>3 DEF Exists
    <3>3. QED
      BY <2>2, <3>2 DEF StoredIsThere
  <2>3. QED
    BY <1>14, <2>1, <2>2 DEF CreateThread, TypeOK, db
<1>15. ASSUME NEW d \in Deleters, CheckOwner(d) PROVE StoredIsThere'
  BY <1>15 DEF Exists, db, StoredIsThere, CheckOwner
<1>16. ASSUME NEW d \in Deleters, DeleteThread(d) PROVE StoredIsThere'
  BY <1>16, NoneAssumption
     DEF TypeOK, Exists, IdsNameConversations, RecordsFollowRequests, StoredIsThere,
         DeleteThread
<1>17. ASSUME NEW u \in Users, DeleteUser(u) PROVE StoredIsThere'
  BY <1>17, NoneAssumption
     DEF Exists, IdsNameConversations, RecordsStayInConversation, RecordsFollowRequests,
         StoredIsThere, DeleteUser, ThreadsOf
<1>18. ASSUME Crash PROVE StoredIsThere'
  <2>1. UNCHANGED <<threads, logs>>
    BY <1>18 DEF Crash, db
  <2>2. ASSUME NEW e \in Chats
        PROVE  \/ chat'[e] = chat[e]
               \/ chat'[e].pc = "done" /\ chat'[e].code = 499
    <3>1. chat'[e] = IF InFlight(e) THEN Ended(e, Lost) ELSE chat[e]
      BY <1>18 DEF Crash
    <3>2. Ended(e, Lost).pc = "done" /\ Ended(e, Lost).code = 499
      BY DEF Ended, Bare, Lost
    <3>3. QED
      BY <3>1, <3>2
  <2>3. QED
    BY <2>1, <2>2 DEF StoredIsThere, Exists
<1>19. CASE UNCHANGED vars
  BY <1>19 DEF vars, Exists, StoredIsThere
<1>20. QED
  BY <1>1, <1>2, <1>3, <1>4, <1>5, <1>6, <1>7, <1>8, <1>9, <1>10, <1>11, <1>12, <1>13,
     <1>14, <1>15, <1>16, <1>17, <1>18, <1>19
     DEF Next, ChatNext, ChatStep, AiAnswers, AiFails, AiTimeout

-----------------------------------------------------------------------------
(* The theorems.                                                           *)

\* Where the database never gives a thread id out twice, a thread id names one
\* conversation for ever, and a record of a request is in the conversation the
\* request was admitted to, says what became of it, and is there when the reply
\* says so, whatever threads and accounts are made and deleted meanwhile.
THEOREM ConversationInvariant ==
    ASSUME ~ RowidReuse
    PROVE  Spec => []ConversationInv
<1>1. Init => ConversationInv
  <2> SUFFICES ASSUME Init PROVE ConversationInv
    OBVIOUS
  <2>1. \A c \in Chats : /\ chat[c].pc = "idle" /\ chat[c].thread = None
                         /\ chat[c].conv = None /\ chat[c].code = None
                         /\ chat[c].stored = FALSE
    BY DEF Init, NewChat, Bare
  <2>2. \A t \in ThreadId : ~ Exists(t)
    BY DEF Init, Exists
  <2>3. \A l \in logs : l.chat = None /\ l.thread = None /\ l.conv = None
    BY DEF Init, LegacyLogs
  <2>4. \A d \in Deleters : deleter[d].thread = None
    BY DEF Init, IdleDeleter
  <2>5. IdsNameConversations /\ HeldThreadIsOwn
    BY <2>1, <2>2, <2>3, <2>4 DEF IdsNameConversations, HeldThreadIsOwn
  <2>6. RecordsStayInConversation /\ RecordsFollowRequests
    BY <2>3 DEF RecordsStayInConversation, RecordsFollowRequests
  <2>7. StoredIsThere
    BY <2>1, NoneAssumption DEF StoredIsThere
  <2>8. QED
    BY <2>5, <2>6, <2>7 DEF ConversationInv
<1>2. TypeOK /\ ConversationInv /\ [Next]_vars => ConversationInv'
  BY IdsNameConversationsStep, HeldThreadIsOwnStep, RecordsStayInConversationStep,
     RecordsFollowRequestsStep, StoredIsThereStep DEF ConversationInv
<1>3. QED
  BY <1>1, <1>2, TypeCorrect, PTL DEF Spec

\* A chat is stored in the conversation whose thread_id it gave, or nowhere.
THEOREM RecordsStay ==
    ASSUME ~ RowidReuse
    PROVE  Spec => []RecordsStayInConversation
<1>1. ConversationInv => RecordsStayInConversation
  BY DEF ConversationInv
<1>2. QED
  BY <1>1, ConversationInvariant, PTL

\* What the invariant says of a request's records, read off its code.
LEMMA ReplyIsTrue ==
    ASSUME TypeOK, ConversationInv
    PROVE  ReplyTellsWhatIsStored
<1> SUFFICES ASSUME NEW c \in Chats
             PROVE  LET mine == {l \in logs : l.chat = c} IN
                    /\ \A l, m \in mine : l = m
                    /\ chat[c].code = 201 /\ ConversationLives(c) =>
                          \E l \in mine : l.status = "success" /\ l.conv = chat[c].conv
                    /\ chat[c].code \in {200, 404, 429, 500} => mine = {}
                    /\ chat[c].code \in {502, 504} => \A l \in mine : l.status = "ai_error"
  BY DEF ReplyTellsWhatIsStored
<1>1. c # None
  BY NoneAssumption
<1>2. ASSUME NEW l \in logs, l.chat = c
      PROVE  /\ l.conv = chat[c].conv
             /\ \/ chat[c].pc = "saved"
                \/ chat[c].code = 201 /\ l.status = "success"
                \/ chat[c].code \in {502, 504} /\ l.status = "ai_error"
                \/ chat[c].code = Lost
  BY <1>1, <1>2 DEF ConversationInv, RecordsFollowRequests
<1>3. chat[c].pc = "saved" => chat[c].code = None
  BY DEF ConversationInv, StoredIsThere
<1>4. \A l, m \in logs : l.chat = c /\ m.chat = c => l = m
  BY <1>1 DEF ConversationInv, RecordsFollowRequests
<1>5. ASSUME chat[c].code = 201, ConversationLives(c)
      PROVE  \E l \in logs : l.chat = c /\ l.status = "success" /\ l.conv = chat[c].conv
  <2>1. PICK t \in ThreadId : Exists(t) /\ threads[t].conv = chat[c].conv
    BY <1>5 DEF ConversationLives
  <2>2. Exists(chat[c].conv)
    BY <2>1 DEF ConversationInv, IdsNameConversations
  <2>3. PICK l \in logs : l.chat = c
    BY <1>5, <2>2 DEF ConversationInv, StoredIsThere
  <2>4. l.status = "success"
    BY <1>2, <1>3, <1>5, <2>3, NoneAssumption DEF Lost
  <2>5. QED
    BY <1>2, <2>3, <2>4
<1>6. ASSUME chat[c].code \in {200, 404, 429, 500}, NEW l \in logs, l.chat = c
      PROVE  FALSE
  BY <1>2, <1>3, <1>6, NoneAssumption DEF Lost
<1>7. ASSUME chat[c].code \in {502, 504}, NEW l \in logs, l.chat = c
      PROVE  l.status = "ai_error"
  BY <1>2, <1>3, <1>7, NoneAssumption DEF Lost
<1>8. QED
  BY <1>4, <1>5, <1>6, <1>7

\* The code of a chat's reply tells what is stored: 201 the answer, as long as
\* its conversation exists; 200, 404, 429 and 500 nothing; 502 and 504 no success.
THEOREM RepliesAreTrue ==
    ASSUME ~ RowidReuse
    PROVE  Spec => []ReplyTellsWhatIsStored
BY ReplyIsTrue, TypeCorrect, ConversationInvariant, PTL

-----------------------------------------------------------------------------
(* Default threads and the cap on threads, whether or not ids are used again. *)

\* What InsertThread does, whichever way the database numbers its rows.
LEMMA NewThread ==
    ASSUME TypeOK, \A s \in ThreadId : Exists(s) => s <= created,
           NEW t \in ThreadId, NEW u \in Users, NEW title \in Titles,
           InsertThread(t, u, title)
    PROVE  /\ t <= created + 1 /\ created' = created + 1 /\ created \in Nat
           /\ ~ Exists(t)
           /\ threads'[t] = [user |-> u, title |-> title, conv |-> created + 1]
           /\ threads'[t] # None
           /\ \A s \in ThreadId \ {t} : threads'[s] = threads[s]
           /\ \A s \in ThreadId : Exists(s)' <=> Exists(s) \/ s = t
<1>1. /\ created' = created + 1 /\ created \in Nat /\ t \in Nat
      /\ created + 1 \in ThreadId
  BY ConstantsAssumption, InsertType DEF InsertThread, TypeOK, ThreadId
<1>2. ~ Exists(t) /\ t <= created + 1
  <2>1. CASE RowidReuse
    <3>1. NextRowid(t)
      BY <2>1 DEF InsertThread, IsNewId
    <3>2. ~ Exists(t)
      BY <1>1, <3>1 DEF NextRowid
    <3>3. CASE t > 1
      <4>1. t - 1 \in ThreadId /\ Exists(t - 1)
        BY <3>1, <3>3 DEF NextRowid, Exists
      <4>2. QED
        BY <1>1, <3>2, <4>1
    <3>4. QED
      BY <1>1, <3>2, <3>3
  <2>2. CASE ~ RowidReuse
    BY <1>1, <2>2 DEF InsertThread, IsNewId
  <2>3. QED
    BY <2>1, <2>2
<1> DEFINE row == [user |-> u, title |-> title, conv |-> created + 1]
<1>3. row \in Thread /\ row # None
  BY <1>1, NoneAssumption DEF Thread
<1>4. threads' = [threads EXCEPT ![t] = row]
  BY DEF InsertThread
<1> HIDE DEF row
<1>5. /\ threads'[t] = row
      /\ \A s \in ThreadId \ {t} : threads'[s] = threads[s]
  BY <1>4 DEF TypeOK
<1>6. \A s \in ThreadId : Exists(s)' <=> Exists(s) \/ s = t
  BY <1>3, <1>5 DEF Exists
<1>7. QED
  BY <1>1, <1>2, <1>3, <1>5, <1>6 DEF row

\* One chat at a time decides whether its user needs a default thread.
LEMMA DefaultIsDecidedAloneStep ==
    ASSUME TypeOK, DefaultIsDecidedAlone, [Next]_vars
    PROVE  DefaultIsDecidedAlone'
<1>1. ASSUME NEW c \in Chats, Arrive(c) PROVE DefaultIsDecidedAlone'
  BY <1>1 DEF Arrive, TypeOK, DefaultIsDecidedAlone, HoldsLoop, Exists, GetThread, db, ChatRequest
<1>2. ASSUME NEW c \in Chats, Refuse(c) PROVE DefaultIsDecidedAlone'
  BY <1>2 DEF Refuse, TypeOK, DefaultIsDecidedAlone, HoldsLoop, LoopFree, Exists, GetThread, Reply,
     Ended, Bare, db, ChatRequest
<1>3. ASSUME NEW c \in Chats, ResolveGiven(c) PROVE DefaultIsDecidedAlone'
  BY <1>3 DEF ResolveGiven, TypeOK, DefaultIsDecidedAlone, HoldsLoop, LoopFree, Exists,
     GetThread, Reply, Ended, Bare, Hold, db, ChatRequest
<1>4. ASSUME NEW c \in Chats, ResolveDefault(c) PROVE DefaultIsDecidedAlone'
  <2>0. UNCHANGED <<threads, created>> /\ chat[c].pc = "authed" /\ LoopFree
    BY <1>4 DEF ResolveDefault, db
  <2>1. CASE /\ ThreadsOf(chat[c].user) = {}
             /\ chat' = [chat EXCEPT ![c].pc = "creating"]
    BY <2>0, <2>1 DEF DefaultIsDecidedAlone, HoldsLoop, LoopFree, Exists, GetThread, ThreadsOf, TypeOK, ChatRequest
  <2>2. ASSUME NEW t \in ThreadId, Hold(c, t) PROVE DefaultIsDecidedAlone'
    BY <2>0, <2>2, NoneAssumption
       DEF DefaultIsDecidedAlone, HoldsLoop, LoopFree, Exists, GetThread, Hold, TypeOK, ChatRequest
  <2>3. QED
    BY <1>4, <2>1, <2>2 DEF ResolveDefault, ThreadsOf
<1>5. ASSUME NEW c \in Chats, CreateDefault(c) PROVE DefaultIsDecidedAlone'
  <2>0. chat[c].pc = "creating"
    BY <1>5, DefaultInsert
  <2>1. CASE Reply(c, 500) /\ UNCHANGED <<threads, logs, created>>
    BY <2>0, <2>1 DEF DefaultIsDecidedAlone, HoldsLoop, Exists, GetThread, Reply, Ended, Bare, TypeOK, ChatRequest
  <2>2. ASSUME NEW t \in ThreadId, chat[c].user \in Users,
               InsertThread(t, chat[c].user, DefaultTitle),
               chat' = [chat EXCEPT ![c].pc = "resolved", ![c].thread = t,
                                    ![c].conv = created + 1, ![c].title = DefaultTitle]
        PROVE  DefaultIsDecidedAlone'
    <3>1. /\ t <= created + 1 /\ created' = created + 1 /\ created \in Nat /\ ~ Exists(t)
          /\ threads'[t] = [user |-> chat[c].user, title |-> DefaultTitle, conv |-> created + 1]
          /\ \A s \in ThreadId \ {t} : threads'[s] = threads[s]
          /\ \A s \in ThreadId : Exists(s)' <=> Exists(s) \/ s = t
      BY <2>2, NewThread DEF DefaultIsDecidedAlone, Titles
    <3>2. \A s \in ThreadId : Exists(s)' => s <= created'
      BY <3>1 DEF DefaultIsDecidedAlone, ThreadId
    <3>3. /\ chat'[c].pc = "resolved" /\ chat'[c].thread = t
          /\ \A e \in Chats \ {c} : chat'[e] = chat[e]
      BY <2>2 DEF TypeOK, ChatRequest
    <3>4. \A e \in Chats : chat'[e].pc # "creating"
      BY <2>0, <3>3 DEF DefaultIsDecidedAlone, HoldsLoop
    <3>5. \A e, f \in Chats : HoldsLoop(e)' /\ HoldsLoop(f)' => e = f
      BY <2>0, <3>3 DEF DefaultIsDecidedAlone, HoldsLoop
    <3>6. QED
      BY <3>2, <3>3, <3>4, <3>5, NoneAssumption DEF DefaultIsDecidedAlone
  <2>3. QED
    BY <1>5, <2>1, <2>2, DefaultInsert
<1>6. ASSUME NEW c \in Chats, LoadContext(c) PROVE DefaultIsDecidedAlone'
  BY <1>6 DEF LoadContext, TypeOK, DefaultIsDecidedAlone, HoldsLoop, Exists, GetThread, db,
     ChatRequest
<1>7. ASSUME NEW c \in Chats, NEW o \in {"success", "error", "timeout"}, Resume(c, o)
      PROVE  DefaultIsDecidedAlone'
  BY <1>7 DEF Resume, TypeOK, DefaultIsDecidedAlone, HoldsLoop, LoopFree, Exists, GetThread, db,
     ChatRequest
<1>8. ASSUME NEW c \in Chats, Cancel(c) \/ AiRaises(c) PROVE DefaultIsDecidedAlone'
  BY <1>8 DEF Cancel, AiRaises, TypeOK, DefaultIsDecidedAlone, HoldsLoop, Exists, GetThread, Reply, Ended,
     Bare, db, ChatRequest
<1>9. ASSUME NEW c \in Chats, Save(c) PROVE DefaultIsDecidedAlone'
  BY <1>9 DEF Save, TypeOK, DefaultIsDecidedAlone, HoldsLoop, Exists, GetThread, ChatRequest
<1>10. ASSUME NEW c \in Chats, SaveFails(c) PROVE DefaultIsDecidedAlone'
  BY <1>10 DEF SaveFails, TypeOK, DefaultIsDecidedAlone, HoldsLoop, Exists, GetThread, Reply, Ended,
     Bare, db, ChatRequest
<1>11. ASSUME NEW c \in Chats, Touch(c) PROVE DefaultIsDecidedAlone'
  <2>1. /\ chat[c].pc = "saved" /\ UNCHANGED <<created>>
        /\ chat'[c].pc = "done" /\ \A e \in Chats \ {c} : chat'[e] = chat[e]
    BY <1>11 DEF Touch, Reply, Ended, Bare, TypeOK
  <2>2. \A s \in ThreadId :
           /\ Exists(s)' => Exists(s)
           /\ Exists(s)' => /\ threads'[s].user = threads[s].user
                            /\ threads'[s].title = DefaultTitle => threads[s].title = DefaultTitle
    <3>1. \A s \in ThreadId :
           /\ Exists(s)' <=> Exists(s)
           /\ Exists(s) => threads'[s].user = threads[s].user
      BY <1>11, TouchKeepsThreads
    <3>2. ASSUME NEW s \in ThreadId, Exists(s), threads'[s].title = DefaultTitle
          PROVE  threads[s].title = DefaultTitle
      BY <1>11, <3>2, NoneAssumption DEF Touch, TypeOK, Exists, Thread
    <3>3. QED
      BY <3>1, <3>2
  <2>3. QED
    BY <2>1, <2>2 DEF DefaultIsDecidedAlone, HoldsLoop, GetThread
<1>12. ASSUME NEW c \in Chats, TouchFails(c) PROVE DefaultIsDecidedAlone'
  BY <1>12 DEF TouchFails, TypeOK, DefaultIsDecidedAlone, HoldsLoop, Exists, GetThread, Reply,
     Ended, Bare, db, ChatRequest
<1>13. ASSUME NEW k \in Creators, CountThreads(k) PROVE DefaultIsDecidedAlone'
  BY <1>13 DEF CountThreads, TypeOK, DefaultIsDecidedAlone, HoldsLoop, Exists, GetThread, db,
     ChatRequest
<1>14. ASSUME NEW k \in Creators, CreateThread(k) PROVE DefaultIsDecidedAlone'
  <2>1. CASE UNCHANGED <<threads, created, chat>>
    BY <2>1 DEF Exists, GetThread, HoldsLoop, DefaultIsDecidedAlone
  <2>2. ASSUME NEW t \in ThreadId, NEW v \in Users, InsertThread(t, v, None),
               UNCHANGED chat
        PROVE  DefaultIsDecidedAlone'
    <3>1. /\ t <= created + 1 /\ created' = created + 1 /\ created \in Nat /\ ~ Exists(t)
          /\ threads'[t] = [user |-> v, title |-> None, conv |-> created + 1]
          /\ \A s \in ThreadId \ {t} : threads'[s] = threads[s]
          /\ \A s \in ThreadId : Exists(s)' <=> Exists(s) \/ s = t
      BY <2>2, NewThread DEF DefaultIsDecidedAlone, Titles
    <3>2. \A s \in ThreadId : Exists(s)' => s <= created'
      BY <3>1 DEF DefaultIsDecidedAlone, ThreadId
    <3>3. \A s \in ThreadId : Exists(s)' /\ threads'[s].title = DefaultTitle =>
             Exists(s) /\ threads'[s] = threads[s]
      BY <3>1, NoneAssumption
    <3>4. QED
      BY <2>2, <3>2, <3>3 DEF DefaultIsDecidedAlone, HoldsLoop, GetThread
  <2>3. QED
    BY <1>14, <2>1, <2>2 DEF CreateThread, TypeOK, db
<1>15. ASSUME NEW d \in Deleters, CheckOwner(d) PROVE DefaultIsDecidedAlone'
  BY <1>15 DEF CheckOwner, TypeOK, DefaultIsDecidedAlone, HoldsLoop, Exists, GetThread, db,
     ChatRequest
<1>16. ASSUME NEW d \in Deleters, DeleteThread(d) PROVE DefaultIsDecidedAlone'
  BY <1>16 DEF DeleteThread, TypeOK, DefaultIsDecidedAlone, HoldsLoop, Exists, GetThread,
     ChatRequest
<1>17. ASSUME NEW u \in Users, DeleteUser(u) PROVE DefaultIsDecidedAlone'
  BY <1>17 DEF DeleteUser, TypeOK, DefaultIsDecidedAlone, HoldsLoop, Exists, GetThread, ChatRequest
<1>18. ASSUME Crash PROVE DefaultIsDecidedAlone'
  BY <1>18 DEF Crash, TypeOK, DefaultIsDecidedAlone, HoldsLoop, Exists, GetThread, Ended, Bare, db,
     ChatRequest
<1>19. CASE UNCHANGED vars
  BY <1>19 DEF vars, DefaultIsDecidedAlone, HoldsLoop, Exists, GetThread
<1>20. QED
  BY <1>1, <1>2, <1>3, <1>4, <1>5, <1>6, <1>7, <1>8, <1>9, <1>10, <1>11, <1>12, <1>13,
     <1>14, <1>15, <1>16, <1>17, <1>18, <1>19 DEF Next, ChatNext, ChatStep, AiAnswers,
     AiFails, AiTimeout

\* What the two properties of default threads say together.
DefaultsInOrder == OneDefaultPerUser /\ DefaultAdoptsLegacy

\* A step that makes no thread a default one, and leaves no more records without a
\* thread, keeps both.
LEMMA DefaultsKept ==
    ASSUME TypeOK, DefaultsInOrder,
           \A s \in ThreadId : Exists(s)' /\ threads'[s].title = DefaultTitle =>
              Exists(s) /\ threads[s].title = DefaultTitle /\ threads'[s].user = threads[s].user,
           \A l \in logs' : l.thread = None => l \in logs
    PROVE  DefaultsInOrder'
BY DEF DefaultsInOrder, OneDefaultPerUser, DefaultAdoptsLegacy, ThreadsOf

\* Naming a thread makes none a default one.
LEMMA TouchIsNoDefault ==
    ASSUME TypeOK, NEW c \in Chats, Touch(c)
    PROVE  \A s \in ThreadId : Exists(s)' /\ threads'[s].title = DefaultTitle =>
              Exists(s) /\ threads[s].title = DefaultTitle /\ threads'[s].user = threads[s].user
<1>1. \A s \in ThreadId :
         /\ Exists(s)' <=> Exists(s)
         /\ Exists(s) => threads'[s].user = threads[s].user
  BY TouchKeepsThreads
<1>2. ASSUME NEW s \in ThreadId, Exists(s), threads'[s].title = DefaultTitle
      PROVE  threads[s].title = DefaultTitle
  BY <1>2, NoneAssumption DEF Touch, TypeOK, Exists, Thread
<1>3. QED
  BY <1>1, <1>2

\* Every step keeps the default threads in order.
LEMMA DefaultsInOrderStep ==
    ASSUME TypeOK, DefaultIsDecidedAlone, DefaultsInOrder, [Next]_vars
    PROVE  DefaultsInOrder'
<1>1. ASSUME NEW c \in Chats, Arrive(c) PROVE DefaultsInOrder'
  BY DefaultsKept, <1>1 DEF Arrive, Exists, db
<1>2. ASSUME NEW c \in Chats, Refuse(c) PROVE DefaultsInOrder'
  BY DefaultsKept, <1>2 DEF Refuse, Exists, db
<1>3. ASSUME NEW c \in Chats, ResolveGiven(c) PROVE DefaultsInOrder'
  BY DefaultsKept, <1>3 DEF ResolveGiven, db, Exists
<1>4. ASSUME NEW c \in Chats, ResolveDefault(c) PROVE DefaultsInOrder'
  BY DefaultsKept, <1>4 DEF ResolveDefault, Exists, db
<1>5. ASSUME NEW c \in Chats, CreateDefault(c) PROVE DefaultsInOrder'
  <2>0. chat[c].pc = "creating"
    BY <1>5, DefaultInsert
  <2>1. CASE Reply(c, 500) /\ UNCHANGED <<threads, logs, created>>
    BY <2>1, DefaultsKept DEF Exists
  <2>2. ASSUME NEW t \in ThreadId, chat[c].user \in Users,
               InsertThread(t, chat[c].user, DefaultTitle),
               logs' = Adopted(chat[c].user, t)
        PROVE  DefaultsInOrder'
    <3>1. /\ ~ Exists(t)
          /\ threads'[t] = [user |-> chat[c].user, title |-> DefaultTitle, conv |-> created + 1]
          /\ \A s \in ThreadId \ {t} : threads'[s] = threads[s]
          /\ \A s \in ThreadId : Exists(s)' <=> Exists(s) \/ s = t
      BY <2>2, NewThread DEF DefaultIsDecidedAlone, Titles
    <3> DEFINE v == chat[c].user
    <3>2. \A s \in ThreadId : Exists(s) /\ threads[s].user = v => threads[s].title # DefaultTitle
      BY <2>0 DEF DefaultIsDecidedAlone, GetThread
    <3>3. \A s \in ThreadId :
             Exists(s)' /\ threads'[s].title = DefaultTitle =>
                \/ s = t
                \/ /\ Exists(s) /\ threads[s].title = DefaultTitle
                   /\ threads'[s].user = threads[s].user /\ threads[s].user # v
      BY <3>1, <3>2
    <3>4. threads'[t].user = v
      BY <3>1
    <3> HIDE DEF v
    <3>5. OneDefaultPerUser'
      BY <3>3, <3>4 DEF DefaultsInOrder, OneDefaultPerUser, ThreadsOf
    <3>6. ASSUME NEW l \in logs', l.thread = None PROVE l \in logs /\ l.user # v
      <4>1. PICK m \in logs :
               l = IF m.user = v /\ m.thread = None
                   THEN [m EXCEPT !.thread = t, !.conv = created + 1] ELSE m
        BY <2>2 DEF Adopted, v
      <4>2. m \in Log /\ t # None
        BY NoneAssumption DEF TypeOK
      <4>3. [m EXCEPT !.thread = t, !.conv = created + 1].thread = t
        BY <4>2 DEF Log
      <4>4. CASE m.user = v /\ m.thread = None
        BY <3>6, <4>1, <4>2, <4>3, <4>4
      <4>5. CASE ~ (m.user = v /\ m.thread = None)
        BY <3>6, <4>1, <4>5
      <4>6. QED
        BY <4>4, <4>5
    <3>7. DefaultAdoptsLegacy'
      BY <3>3, <3>4, <3>6 DEF DefaultsInOrder, DefaultAdoptsLegacy, ThreadsOf
    <3>8. QED
      BY <3>5, <3>7 DEF DefaultsInOrder
  <2>3. QED
    BY <1>5, <2>1, <2>2, DefaultInsert
<1>6. ASSUME NEW c \in Chats, LoadContext(c) PROVE DefaultsInOrder'
  BY DefaultsKept, <1>6 DEF LoadContext, Exists, db
<1>7. ASSUME NEW c \in Chats, NEW o \in {"success", "error", "timeout"}, Resume(c, o)
      PROVE  DefaultsInOrder'
  BY DefaultsKept, <1>7 DEF Resume, Exists, db
<1>8. ASSUME NEW c \in Chats, Cancel(c) \/ AiRaises(c) PROVE DefaultsInOrder'
  BY DefaultsKept, <1>8 DEF Cancel, AiRaises, Exists, db
<1>9. ASSUME NEW c \in Chats, Save(c) PROVE DefaultsInOrder'
  <2>1. UNCHANGED threads /\ chat[c].thread # None
    BY <1>9 DEF Save, DefaultIsDecidedAlone
  <2>2. \A l \in logs' : l.thread = None => l \in logs
    BY <1>9, <2>1 DEF Save
  <2>3. QED
    BY <2>1, <2>2, DefaultsKept DEF Exists
<1>10. ASSUME NEW c \in Chats, SaveFails(c) PROVE DefaultsInOrder'
  BY DefaultsKept, <1>10 DEF SaveFails, Exists, db
<1>11. ASSUME NEW c \in Chats, Touch(c) PROVE DefaultsInOrder'
  BY <1>11, TouchKeepsThreads, TouchIsNoDefault, DefaultsKept
<1>12. ASSUME NEW c \in Chats, TouchFails(c) PROVE DefaultsInOrder'
  BY DefaultsKept, <1>12 DEF TouchFails, Exists, db
<1>13. ASSUME NEW k \in Creators, CountThreads(k) PROVE DefaultsInOrder'
  BY DefaultsKept, <1>13 DEF CountThreads, Exists, db
<1>14. ASSUME NEW k \in Creators, CreateThread(k) PROVE DefaultsInOrder'
  <2>1. CASE UNCHANGED <<threads, logs>>
    BY <2>1, DefaultsKept DEF Exists
  <2>2. ASSUME NEW t \in ThreadId, NEW v \in Users, InsertThread(t, v, None),
               UNCHANGED logs
        PROVE  DefaultsInOrder'
    <3>1. /\ ~ Exists(t)
          /\ threads'[t] = [user |-> v, title |-> None, conv |-> created + 1]
          /\ \A s \in ThreadId \ {t} : threads'[s] = threads[s]
          /\ \A s \in ThreadId : Exists(s)' <=> Exists(s) \/ s = t
      BY <2>2, NewThread DEF DefaultIsDecidedAlone, Titles
    <3>2. \A s \in ThreadId : Exists(s)' /\ threads'[s].title = DefaultTitle =>
             Exists(s) /\ threads'[s] = threads[s]
      BY <3>1, NoneAssumption
    <3>3. QED
      BY <2>2, <3>2, DefaultsKept
  <2>3. QED
    BY <1>14, <2>1, <2>2 DEF CreateThread, TypeOK, db
<1>15. ASSUME NEW d \in Deleters, CheckOwner(d) PROVE DefaultsInOrder'
  BY DefaultsKept, <1>15 DEF CheckOwner, Exists, db
<1>16. ASSUME NEW d \in Deleters, DeleteThread(d) PROVE DefaultsInOrder'
  BY DefaultsKept, <1>16 DEF DeleteThread, Exists
<1>17. ASSUME NEW u \in Users, DeleteUser(u) PROVE DefaultsInOrder'
  BY DefaultsKept, <1>17 DEF DeleteUser, Exists
<1>18. ASSUME Crash PROVE DefaultsInOrder'
  BY DefaultsKept, <1>18 DEF Crash, Exists, db
<1>19. CASE UNCHANGED vars
  BY <1>19, DefaultsKept DEF vars, Exists
<1>20. QED
  BY <1>1, <1>2, <1>3, <1>4, <1>5, <1>6, <1>7, <1>8, <1>9, <1>10, <1>11, <1>12, <1>13,
     <1>14, <1>15, <1>16, <1>17, <1>18, <1>19 DEF Next, ChatNext, ChatStep, AiAnswers,
     AiFails, AiTimeout

\* Whether or not ids are used again, one chat at a time decides about the default
\* thread, at most one of a user's threads is one, and it has taken the records of
\* before threads existed.
LEMMA DefaultThreadsInvariant == Spec => [](DefaultIsDecidedAlone /\ DefaultsInOrder)
<1>1. Init => DefaultIsDecidedAlone /\ DefaultsInOrder
  <2> SUFFICES ASSUME Init PROVE DefaultIsDecidedAlone /\ DefaultsInOrder
    OBVIOUS
  <2>1. \A t \in ThreadId : ~ Exists(t)
    BY DEF Init, Exists
  <2>2. \A c \in Chats : chat[c].pc = "idle"
    BY DEF Init, NewChat, Bare
  <2>3. DefaultIsDecidedAlone
    BY <2>1, <2>2 DEF DefaultIsDecidedAlone, HoldsLoop, GetThread
  <2>4. DefaultsInOrder
    BY <2>1 DEF DefaultsInOrder, OneDefaultPerUser, DefaultAdoptsLegacy, ThreadsOf
  <2>5. QED
    BY <2>3, <2>4
<1>2. TypeOK /\ DefaultIsDecidedAlone /\ DefaultsInOrder /\ [Next]_vars
         => (DefaultIsDecidedAlone /\ DefaultsInOrder)'
  BY DefaultIsDecidedAloneStep, DefaultsInOrderStep
<1>3. QED
  BY <1>1, <1>2, TypeCorrect, PTL DEF Spec

\* A user never has two default threads, however chats and creations race.
THEOREM DefaultThreadIsUnique == Spec => []OneDefaultPerUser
<1>1. DefaultsInOrder => OneDefaultPerUser
  BY DEF DefaultsInOrder
<1>2. QED
  BY <1>1, DefaultThreadsInvariant, PTL

\* Once a user has a default thread, no record of theirs is without a thread.
THEOREM DefaultThreadAdopts == Spec => []DefaultAdoptsLegacy
<1>1. DefaultsInOrder => DefaultAdoptsLegacy
  BY DEF DefaultsInOrder
<1>2. QED
  BY <1>1, DefaultThreadsInvariant, PTL

\* The sets that RoomForInserts counts are finite, and one chat at most is in the last.
LEMMA RoomIsFinite ==
    ASSUME TypeOK, DefaultIsDecidedAlone, NEW u \in Users
    PROVE  /\ IsFiniteSet(ThreadsOf(u)) /\ Cardinality(ThreadsOf(u)) \in Nat
           /\ IsFiniteSet(CountedFor(u)) /\ Cardinality(CountedFor(u)) \in Nat
           /\ IsFiniteSet(DefaultsFor(u)) /\ Cardinality(DefaultsFor(u)) \in {0, 1}
           /\ Cardinality(Creators) \in Nat
<1>1. IsFiniteSet(ThreadsOf(u)) /\ Cardinality(ThreadsOf(u)) \in Nat
  <2>1. IsFiniteSet(ThreadId)
    BY ConstantsAssumption, FS_Interval DEF ThreadId
  <2>2. ThreadsOf(u) \subseteq ThreadId
    BY DEF ThreadsOf
  <2>3. QED
    BY <2>1, <2>2, FS_Subset, FS_CardinalityType
<1>2. IsFiniteSet(CountedFor(u)) /\ Cardinality(CountedFor(u)) \in Nat /\ Cardinality(Creators) \in Nat
  <2>1. CountedFor(u) \subseteq Creators
    BY DEF CountedFor, Counted
  <2>2. QED
    BY <2>1, ConstantsAssumption, FS_Subset, FS_CardinalityType
<1>3. IsFiniteSet(DefaultsFor(u)) /\ Cardinality(DefaultsFor(u)) \in {0, 1}
  <2>1. CASE DefaultsFor(u) = {}
    BY <2>1, FS_EmptySet
  <2>2. CASE DefaultsFor(u) # {}
    <3>1. PICK c : c \in DefaultsFor(u)
      BY <2>2
    <3>2. DefaultsFor(u) = {c}
      BY <3>1 DEF DefaultsFor, DefaultIsDecidedAlone, HoldsLoop
    <3>3. QED
      BY <3>2, FS_Singleton
  <2>3. QED
    BY <2>1, <2>2
<1>4. QED
  BY <1>1, <1>2, <1>3

\* A step that makes none of these sets larger keeps the room.
LEMMA RoomKept ==
    ASSUME TypeOK, DefaultIsDecidedAlone, RoomForInserts,
           \A u \in Users : /\ ThreadsOf(u)' \subseteq ThreadsOf(u)
                            /\ CountedFor(u)' \subseteq CountedFor(u)
                            /\ DefaultsFor(u)' \subseteq DefaultsFor(u)
    PROVE  RoomForInserts'
<1> SUFFICES ASSUME NEW u \in Users
             PROVE  (Cardinality(ThreadsOf(u)) + Cardinality(CountedFor(u)) + Cardinality(DefaultsFor(u))
                       <= MaxThreads + Cardinality(Creators))'
  BY DEF RoomForInserts
<1>1. PICK T, K, C : T = ThreadsOf(u)' /\ K = CountedFor(u)' /\ C = DefaultsFor(u)'
  OBVIOUS
<1>2. /\ IsFiniteSet(ThreadsOf(u)) /\ Cardinality(ThreadsOf(u)) \in Nat
      /\ IsFiniteSet(CountedFor(u)) /\ Cardinality(CountedFor(u)) \in Nat
      /\ IsFiniteSet(DefaultsFor(u)) /\ Cardinality(DefaultsFor(u)) \in Nat
      /\ Cardinality(Creators) \in Nat /\ MaxThreads \in Nat
  BY RoomIsFinite, ConstantsAssumption
<1>3. T \subseteq ThreadsOf(u) /\ K \subseteq CountedFor(u) /\ C \subseteq DefaultsFor(u)
  BY <1>1
<1>4. /\ Cardinality(T) <= Cardinality(ThreadsOf(u)) /\ Cardinality(T) \in Nat
      /\ Cardinality(K) <= Cardinality(CountedFor(u)) /\ Cardinality(K) \in Nat
      /\ Cardinality(C) <= Cardinality(DefaultsFor(u)) /\ Cardinality(C) \in Nat
  BY <1>2, <1>3, FS_Subset, FS_CardinalityType
<1>5. Cardinality(ThreadsOf(u)) + Cardinality(CountedFor(u)) + Cardinality(DefaultsFor(u))
         <= MaxThreads + Cardinality(Creators)
  BY DEF RoomForInserts
<1>6. Cardinality(T) + Cardinality(K) + Cardinality(C) <= MaxThreads + Cardinality(Creators)
  BY <1>2, <1>4, <1>5
<1>7. QED
  BY <1>1, <1>6

\* So does one that takes from one of them what it adds to another, or adds when
\* there is room.
LEMMA RoomMoved ==
    ASSUME TypeOK, DefaultIsDecidedAlone, RoomForInserts, NEW u \in Users,
           NEW T, NEW K, NEW C,
           \/ \E t : T = ThreadsOf(u) \cup {t} /\ K = CountedFor(u) /\ DefaultsFor(u) # {} /\ C = {}
           \/ \E t, k : /\ T = ThreadsOf(u) \cup {t} /\ k \in CountedFor(u)
                        /\ K = CountedFor(u) \ {k} /\ C = DefaultsFor(u)
           \/ /\ T = ThreadsOf(u) /\ BelowCap(u) /\ K \subseteq Creators /\ C = DefaultsFor(u)
           \/ /\ T = {} /\ K = CountedFor(u) /\ \E c : C = {c}
    PROVE  Cardinality(T) + Cardinality(K) + Cardinality(C) <= MaxThreads + Cardinality(Creators)
<1>1. /\ IsFiniteSet(ThreadsOf(u)) /\ Cardinality(ThreadsOf(u)) \in Nat
      /\ IsFiniteSet(CountedFor(u)) /\ Cardinality(CountedFor(u)) \in Nat
      /\ IsFiniteSet(DefaultsFor(u)) /\ Cardinality(DefaultsFor(u)) \in {0, 1}
      /\ Cardinality(Creators) \in Nat /\ MaxThreads \in Nat \ {0}
      /\ IsFiniteSet(Creators)
  BY RoomIsFinite, ConstantsAssumption
<1>2. Cardinality(ThreadsOf(u)) + Cardinality(CountedFor(u)) + Cardinality(DefaultsFor(u))
         <= MaxThreads + Cardinality(Creators)
  BY DEF RoomForInserts
<1>3. CASE \E t : T = ThreadsOf(u) \cup {t} /\ K = CountedFor(u) /\ DefaultsFor(u) # {} /\ C = {}
  <2>1. Cardinality(T) <= Cardinality(ThreadsOf(u)) + 1 /\ Cardinality(T) \in Nat
    <3>1. PICK t : T = ThreadsOf(u) \cup {t}
      BY <1>3
    <3>2. Cardinality(T) = IF t \in ThreadsOf(u) THEN Cardinality(ThreadsOf(u))
                                               ELSE Cardinality(ThreadsOf(u)) + 1
      BY <1>1, <3>1, FS_AddElement
    <3>3. QED
      BY <1>1, <3>2
  <2>2. Cardinality(DefaultsFor(u)) = 1 /\ Cardinality(C) = 0
    BY <1>1, <1>3, FS_EmptySet
  <2>3. QED
    BY <1>1, <1>2, <1>3, <2>1, <2>2
<1>4. CASE \E t, k : /\ T = ThreadsOf(u) \cup {t} /\ k \in CountedFor(u)
                     /\ K = CountedFor(u) \ {k} /\ C = DefaultsFor(u)
  <2>1. Cardinality(T) <= Cardinality(ThreadsOf(u)) + 1 /\ Cardinality(T) \in Nat
    <3>1. PICK t : T = ThreadsOf(u) \cup {t}
      BY <1>4
    <3>2. Cardinality(T) = IF t \in ThreadsOf(u) THEN Cardinality(ThreadsOf(u))
                                               ELSE Cardinality(ThreadsOf(u)) + 1
      BY <1>1, <3>1, FS_AddElement
    <3>3. QED
      BY <1>1, <3>2
  <2>2. Cardinality(K) = Cardinality(CountedFor(u)) - 1
    BY <1>1, <1>4, FS_RemoveElement
  <2>3. QED
    BY <1>1, <1>2, <1>4, <2>1, <2>2
<1>5. CASE T = ThreadsOf(u) /\ BelowCap(u) /\ K \subseteq Creators /\ C = DefaultsFor(u)
  <2>1. Cardinality(K) <= Cardinality(Creators) /\ Cardinality(K) \in Nat
    BY <1>1, <1>5, FS_Subset, FS_CardinalityType
  <2>2. QED
    BY <1>1, <1>5, <2>1 DEF BelowCap
<1>6. CASE T = {} /\ K = CountedFor(u) /\ \E c : C = {c}
  <2>1. Cardinality(T) = 0 /\ Cardinality(C) = 1
    BY <1>6, FS_EmptySet, FS_Singleton
  <2>2. Cardinality(CountedFor(u)) <= Cardinality(Creators)
    BY <1>1, FS_Subset DEF CountedFor, Counted
  <2>3. QED
    BY <1>1, <1>6, <2>1, <2>2
<1>7. QED
  BY <1>3, <1>4, <1>5, <1>6

\* Every step keeps the room.
LEMMA RoomForInsertsStep ==
    ASSUME TypeOK, DefaultIsDecidedAlone, RoomForInserts, [Next]_vars
    PROVE  RoomForInserts'
<1>1. ASSUME NEW c \in Chats, Arrive(c) PROVE RoomForInserts'
  BY RoomKept, <1>1 DEF Arrive, ThreadsOf, CountedFor, Counted, DefaultsFor, Exists, db,
     TypeOK
<1>2. ASSUME NEW c \in Chats, Refuse(c) PROVE RoomForInserts'
  BY RoomKept, <1>2 DEF Refuse, ThreadsOf, CountedFor, Counted, DefaultsFor, Exists, db,
     TypeOK, Reply, Ended, Bare
<1>3. ASSUME NEW c \in Chats, ResolveGiven(c) PROVE RoomForInserts'
  <2>1. /\ UNCHANGED <<threads, creator>> /\ chat'[c].pc # "creating"
        /\ \A e \in Chats \ {c} : chat'[e] = chat[e]
    BY <1>3 DEF ResolveGiven, db, Reply, Ended, Bare, Hold, TypeOK, ChatRequest
  <2>2. QED
    BY <2>1, RoomKept DEF ThreadsOf, CountedFor, Counted, DefaultsFor, Exists
<1>4. ASSUME NEW c \in Chats, ResolveDefault(c) PROVE RoomForInserts'
  <2>0. UNCHANGED <<threads, creator>> /\ chat[c].pc = "authed" /\ LoopFree
    BY <1>4 DEF ResolveDefault, db
  <2>1. \A v \in Users : ThreadsOf(v)' = ThreadsOf(v) /\ CountedFor(v)' = CountedFor(v)
    BY <2>0 DEF ThreadsOf, CountedFor, Counted, Exists
  <2>2. CASE /\ ThreadsOf(chat[c].user) = {}
             /\ chat' = [chat EXCEPT ![c].pc = "creating"]
    <3>1. ASSUME NEW v \in Users
          PROVE  (Cardinality(ThreadsOf(v)) + Cardinality(CountedFor(v)) + Cardinality(DefaultsFor(v))
               <= MaxThreads + Cardinality(Creators))'
      <4>1. CASE v = chat[c].user
        <5>1. DefaultsFor(v)' = {c}
          BY <2>0, <2>2, <4>1 DEF DefaultsFor, TypeOK, ChatRequest, LoopFree, HoldsLoop
        <5>2. Cardinality({}) + Cardinality(CountedFor(v)) + Cardinality({c})
                <= MaxThreads + Cardinality(Creators)
          BY RoomMoved
        <5>3. QED
          BY <2>1, <2>2, <4>1, <5>1, <5>2
      <4>2. CASE v # chat[c].user
        <5>1. DefaultsFor(v)' = DefaultsFor(v)
          BY <2>0, <2>2, <4>2 DEF DefaultsFor, TypeOK, ChatRequest
        <5>2. QED
          BY <2>1, <5>1 DEF RoomForInserts
      <4>3. QED
        BY <4>1, <4>2
    <3>2. QED
      BY <3>1 DEF RoomForInserts
  <2>3. ASSUME NEW t \in ThreadId, Hold(c, t) PROVE RoomForInserts'
    <3>1. \A v \in Users : DefaultsFor(v)' \subseteq DefaultsFor(v)
      BY <2>3 DEF DefaultsFor, Hold, TypeOK, ChatRequest
    <3>2. QED
      BY <2>1, <3>1, RoomKept
  <2>4. QED
    BY <1>4, <2>2, <2>3 DEF ResolveDefault, ThreadsOf
<1>5. ASSUME NEW c \in Chats, CreateDefault(c) PROVE RoomForInserts'
  <2>0. chat[c].pc = "creating" /\ UNCHANGED creator
    BY <1>5, DefaultInsert
  <2>1. CASE Reply(c, 500) /\ UNCHANGED <<threads, logs, created>>
    BY <2>0, <2>1, RoomKept
       DEF ThreadsOf, CountedFor, Counted, DefaultsFor, Exists, TypeOK, Reply, Ended, Bare
  <2>2. ASSUME NEW t \in ThreadId, chat[c].user \in Users,
               InsertThread(t, chat[c].user, DefaultTitle),
               chat' = [chat EXCEPT ![c].pc = "resolved", ![c].thread = t,
                                    ![c].conv = created + 1, ![c].title = DefaultTitle]
        PROVE  RoomForInserts'
    <3>1. /\ ~ Exists(t)
          /\ threads'[t] = [user |-> chat[c].user, title |-> DefaultTitle, conv |-> created + 1]
          /\ \A s \in ThreadId \ {t} : threads'[s] = threads[s]
          /\ \A s \in ThreadId : Exists(s)' <=> Exists(s) \/ s = t
      BY <2>2, NewThread DEF DefaultIsDecidedAlone, Titles
    <3>2. chat'[c].pc = "resolved" /\ \A e \in Chats \ {c} : chat'[e] = chat[e]
      BY <2>2 DEF TypeOK, ChatRequest
    <3>3. \A e \in Chats : chat'[e].pc # "creating"
      BY <2>0, <3>2 DEF DefaultIsDecidedAlone, HoldsLoop
    <3>4. \A v \in Users : DefaultsFor(v)' = {} /\ CountedFor(v)' = CountedFor(v)
      BY <2>0, <3>3 DEF DefaultsFor, CountedFor, Counted
    <3>5. ASSUME NEW v \in Users
          PROVE  (Cardinality(ThreadsOf(v)) + Cardinality(CountedFor(v)) + Cardinality(DefaultsFor(v))
               <= MaxThreads + Cardinality(Creators))'
      <4>1. CASE v = chat[c].user
        <5>1. ThreadsOf(v)' = ThreadsOf(v) \cup {t}
          BY <3>1, <4>1 DEF ThreadsOf
        <5>2. c \in DefaultsFor(v)
          BY <2>0, <4>1 DEF DefaultsFor
        <5>3. Cardinality(ThreadsOf(v) \cup {t}) + Cardinality(CountedFor(v)) + Cardinality({})
                <= MaxThreads + Cardinality(Creators)
          BY <5>2, RoomMoved
        <5>4. QED
          BY <3>4, <5>1, <5>3
      <4>2. CASE v # chat[c].user
        <5>1. ThreadsOf(v)' = ThreadsOf(v)
          BY <3>1, <4>2 DEF ThreadsOf
        <5>2. DefaultsFor(v) = {}
          BY <2>0, <4>2 DEF DefaultsFor, DefaultIsDecidedAlone, HoldsLoop
        <5>3. QED
          BY <3>4, <5>1, <5>2 DEF RoomForInserts
      <4>3. QED
        BY <4>1, <4>2
    <3>6. QED
      BY <3>5 DEF RoomForInserts
  <2>3. QED
    BY <1>5, <2>1, <2>2, DefaultInsert
<1>6. ASSUME NEW c \in Chats, LoadContext(c) PROVE RoomForInserts'
  BY RoomKept, <1>6 DEF LoadContext, ThreadsOf, CountedFor, Counted, DefaultsFor, Exists,
     db, TypeOK
<1>7. ASSUME NEW c \in Chats, NEW o \in {"success", "error", "timeout"}, Resume(c, o)
      PROVE  RoomForInserts'
  BY RoomKept, <1>7 DEF Resume, ThreadsOf, CountedFor, Counted, DefaultsFor, Exists, db,
     TypeOK
<1>8. ASSUME NEW c \in Chats, Cancel(c) \/ AiRaises(c) PROVE RoomForInserts'
  BY RoomKept, <1>8 DEF Cancel, AiRaises, ThreadsOf, CountedFor, Counted, DefaultsFor, Exists, db,
     TypeOK, Reply, Ended, Bare
<1>9. ASSUME NEW c \in Chats, Save(c) PROVE RoomForInserts'
  BY RoomKept, <1>9 DEF Save, ThreadsOf, CountedFor, Counted, DefaultsFor, Exists, TypeOK
<1>10. ASSUME NEW c \in Chats, SaveFails(c) PROVE RoomForInserts'
  <2>1. /\ UNCHANGED <<threads, creator>> /\ chat'[c].pc # "creating"
        /\ \A e \in Chats \ {c} : chat'[e] = chat[e]
    BY <1>10 DEF SaveFails, db, Reply, Ended, Bare, TypeOK, ChatRequest
  <2>2. QED
    BY <2>1, RoomKept DEF ThreadsOf, CountedFor, Counted, DefaultsFor, Exists
<1>11. ASSUME NEW c \in Chats, Touch(c) PROVE RoomForInserts'
  <2>1. UNCHANGED creator /\ chat'[c].pc = "done" /\ \A e \in Chats \ {c} : chat'[e] = chat[e]
    BY <1>11 DEF Touch, Reply, Ended, Bare, TypeOK
  <2>2. \A v \in Users : ThreadsOf(v)' = ThreadsOf(v)
    BY <1>11, TouchKeepsThreads DEF ThreadsOf
  <2>3. QED
    BY <2>1, <2>2, RoomKept DEF CountedFor, Counted, DefaultsFor
<1>12. ASSUME NEW c \in Chats, TouchFails(c) PROVE RoomForInserts'
  BY RoomKept, <1>12 DEF TouchFails, ThreadsOf, CountedFor, Counted, DefaultsFor, Exists,
     db, TypeOK, Reply, Ended, Bare
<1>13. ASSUME NEW k \in Creators, CountThreads(k) PROVE RoomForInserts'
  <2>1. UNCHANGED <<threads, chat>>
    BY <1>13 DEF CountThreads, db
  <2>2. PICK u \in Users : BelowCap(u) /\ creator' = [creator EXCEPT ![k] = [pc |-> "counted", user |-> u]]
    BY <1>13 DEF CountThreads, TypeOK
  <2>3. \A v \in Users : ThreadsOf(v)' = ThreadsOf(v) /\ DefaultsFor(v)' = DefaultsFor(v)
    BY <2>1 DEF ThreadsOf, DefaultsFor, Exists
  <2>4. ASSUME NEW v \in Users
        PROVE  (Cardinality(ThreadsOf(v)) + Cardinality(CountedFor(v)) + Cardinality(DefaultsFor(v))
               <= MaxThreads + Cardinality(Creators))'
    <3>1. PICK K : K = CountedFor(v)'
      OBVIOUS
    <3>2. CASE v = u
      <4>1. K \subseteq Creators
        BY <3>1 DEF CountedFor, Counted
      <4>2. Cardinality(ThreadsOf(v)) + Cardinality(K) + Cardinality(DefaultsFor(v))
              <= MaxThreads + Cardinality(Creators)
        BY <2>2, <3>2, <4>1, RoomMoved
      <4>3. QED
        BY <2>3, <3>1, <4>2
    <3>3. CASE v # u
      <4>1. creator[k].pc = "idle"
        BY <1>13 DEF CountThreads
      <4>2. CountedFor(v)' = CountedFor(v)
        BY <2>2, <3>3, <4>1 DEF CountedFor, Counted, TypeOK
      <4>3. QED
        BY <2>3, <4>2 DEF RoomForInserts
    <3>4. QED
      BY <3>2, <3>3
  <2>5. QED
    BY <2>4 DEF RoomForInserts
<1>14. ASSUME NEW k \in Creators, CreateThread(k) PROVE RoomForInserts'
  <2>0. /\ creator[k].pc = "counted" /\ creator' = [creator EXCEPT ![k] = IdleCreator]
        /\ UNCHANGED chat
    BY <1>14 DEF CreateThread
  <2>1. \A v \in Users : /\ CountedFor(v)' = CountedFor(v) \ {k}
                        /\ DefaultsFor(v)' = DefaultsFor(v)
    BY <2>0 DEF CountedFor, Counted, DefaultsFor, TypeOK, IdleCreator
  <2>2. ASSUME NEW t \in ThreadId, creator[k].user \in Users,
               InsertThread(t, creator[k].user, None)
        PROVE  RoomForInserts'
    <3>1. /\ ~ Exists(t)
          /\ threads'[t] = [user |-> creator[k].user, title |-> None, conv |-> created + 1]
          /\ \A s \in ThreadId \ {t} : threads'[s] = threads[s]
          /\ \A s \in ThreadId : Exists(s)' <=> Exists(s) \/ s = t
      BY <2>2, NewThread DEF DefaultIsDecidedAlone, Titles
    <3>2. ASSUME NEW v \in Users
          PROVE  (Cardinality(ThreadsOf(v)) + Cardinality(CountedFor(v)) + Cardinality(DefaultsFor(v))
               <= MaxThreads + Cardinality(Creators))'
      <4>1. CASE v = creator[k].user
        <5>1. ThreadsOf(v)' = ThreadsOf(v) \cup {t}
          BY <3>1, <4>1 DEF ThreadsOf
        <5>2. k \in CountedFor(v)
          BY <2>0, <4>1 DEF CountedFor, Counted
        <5>3. Cardinality(ThreadsOf(v) \cup {t}) + Cardinality(CountedFor(v) \ {k})
                + Cardinality(DefaultsFor(v)) <= MaxThreads + Cardinality(Creators)
          BY <5>2, RoomMoved
        <5>4. QED
          BY <2>1, <5>1, <5>3
      <4>2. CASE v # creator[k].user
        <5>1. ThreadsOf(v)' = ThreadsOf(v)
          BY <3>1, <4>2 DEF ThreadsOf
        <5>2. CountedFor(v) \ {k} = CountedFor(v)
          BY <4>2 DEF CountedFor
        <5>3. QED
          BY <2>1, <5>1, <5>2 DEF RoomForInserts
      <4>3. QED
        BY <4>1, <4>2
    <3>3. QED
      BY <3>2 DEF RoomForInserts
  <2>3. CASE UNCHANGED threads
    BY <2>1, <2>3, RoomKept DEF ThreadsOf, Exists
  <2>4. QED
    BY <1>14, <2>2, <2>3 DEF CreateThread, TypeOK, db
<1>15. ASSUME NEW d \in Deleters, CheckOwner(d) PROVE RoomForInserts'
  BY RoomKept, <1>15 DEF CheckOwner, ThreadsOf, CountedFor, Counted, DefaultsFor, Exists,
     db, TypeOK
<1>16. ASSUME NEW d \in Deleters, DeleteThread(d) PROVE RoomForInserts'
  BY RoomKept, <1>16 DEF DeleteThread, ThreadsOf, CountedFor, Counted, DefaultsFor, Exists, TypeOK
<1>17. ASSUME NEW u \in Users, DeleteUser(u) PROVE RoomForInserts'
  BY RoomKept, <1>17 DEF DeleteUser, ThreadsOf, CountedFor, Counted, DefaultsFor, Exists, TypeOK
<1>18. ASSUME Crash PROVE RoomForInserts'
  BY RoomKept, <1>18 DEF Crash, ThreadsOf, CountedFor, Counted, DefaultsFor, Exists, db,
     TypeOK, Ended, Bare, InFlight, IdleCreator
<1>19. CASE UNCHANGED vars
  BY <1>19, RoomKept DEF vars, ThreadsOf, CountedFor, Counted, DefaultsFor, Exists
<1>20. QED
  BY <1>1, <1>2, <1>3, <1>4, <1>5, <1>6, <1>7, <1>8, <1>9, <1>10, <1>11, <1>12, <1>13,
     <1>14, <1>15, <1>16, <1>17, <1>18, <1>19 DEF Next, ChatNext, ChatStep, AiAnswers,
     AiFails, AiTimeout

\* The cap on a user's threads is exceeded only by as many as can be made at a time.
THEOREM CapHoldsButForOverlaps == Spec => []CapExceededByOverlapOnly
<1>1. Init => RoomForInserts
  <2> SUFFICES ASSUME Init, NEW u \in Users
               PROVE  Cardinality(ThreadsOf(u)) + Cardinality(CountedFor(u)) + Cardinality(DefaultsFor(u))
                        <= MaxThreads + Cardinality(Creators)
    BY DEF RoomForInserts
  <2>1. ThreadsOf(u) = {} /\ CountedFor(u) = {} /\ DefaultsFor(u) = {}
    BY DEF Init, ThreadsOf, Exists, CountedFor, Counted, IdleCreator, DefaultsFor, NewChat, Bare
  <2>2. Cardinality(Creators) \in Nat /\ MaxThreads \in Nat
    BY ConstantsAssumption, FS_CardinalityType
  <2>3. QED
    BY <2>1, <2>2, FS_EmptySet
<1>2. TypeOK /\ DefaultIsDecidedAlone /\ RoomForInserts /\ [Next]_vars => RoomForInserts'
  BY RoomForInsertsStep
<1>3. TypeOK /\ DefaultIsDecidedAlone /\ RoomForInserts => CapExceededByOverlapOnly
  <2> SUFFICES ASSUME TypeOK, DefaultIsDecidedAlone, RoomForInserts, NEW u \in Users
               PROVE  Cardinality(ThreadsOf(u)) <= MaxThreads + Cardinality(Creators)
    BY DEF CapExceededByOverlapOnly
  <2>1. /\ Cardinality(ThreadsOf(u)) \in Nat /\ Cardinality(CountedFor(u)) \in Nat
        /\ Cardinality(DefaultsFor(u)) \in {0, 1} /\ Cardinality(Creators) \in Nat
        /\ MaxThreads \in Nat
    BY RoomIsFinite, ConstantsAssumption
  <2>2. Cardinality(ThreadsOf(u)) + Cardinality(CountedFor(u)) + Cardinality(DefaultsFor(u))
           <= MaxThreads + Cardinality(Creators)
    BY DEF RoomForInserts
  <2>3. QED
    BY <2>1, <2>2
<1>4. QED
  BY <1>1, <1>2, <1>3, TypeCorrect, DefaultThreadsInvariant, PTL DEF Spec

-----------------------------------------------------------------------------
(* What is put in the prompt.                                              *)

\* Every step keeps the numbering of the records.
LEMMA RecordsNumberedStep ==
    ASSUME TypeOK, RecordsNumbered, [Next]_vars
    PROVE  RecordsNumbered'
<1>1. ASSUME NEW c \in Chats, Arrive(c) PROVE RecordsNumbered'
  BY <1>1 DEF RecordsNumbered, Arrive, db
<1>2. ASSUME NEW c \in Chats, Refuse(c) PROVE RecordsNumbered'
  BY <1>2 DEF RecordsNumbered, Refuse, db
<1>3. ASSUME NEW c \in Chats, ResolveGiven(c) PROVE RecordsNumbered'
  BY <1>3 DEF RecordsNumbered, ResolveGiven, db
<1>4. ASSUME NEW c \in Chats, ResolveDefault(c) PROVE RecordsNumbered'
  BY <1>4, DefaultQuery DEF RecordsNumbered
<1>5. ASSUME NEW c \in Chats, CreateDefault(c) PROVE RecordsNumbered'
  <2>1. CASE Reply(c, 500) /\ UNCHANGED <<threads, logs, created>>
    BY <1>5, <2>1, DefaultInsert DEF RecordsNumbered
  <2>2. ASSUME NEW t \in ThreadId, logs' = Adopted(chat[c].user, t), written' = written
        PROVE  RecordsNumbered'
    <3>1. ASSUME NEW l \in logs'
          PROVE  \E m \in logs :
                    /\ l = IF m.user = chat[c].user /\ m.thread = None
                           THEN [m EXCEPT !.thread = t, !.conv = created + 1] ELSE m
                    /\ l.id = m.id /\ l.user = m.user
      <4>1. PICK m \in logs :
               l = IF m.user = chat[c].user /\ m.thread = None
                   THEN [m EXCEPT !.thread = t, !.conv = created + 1] ELSE m
        BY <2>2 DEF Adopted
      <4>2. m \in Log
        BY DEF TypeOK
      <4>3. QED
        BY <4>1, <4>2 DEF Log
    <3>2. \A l \in logs' : l.id <= written'
      BY <2>2, <3>1 DEF RecordsNumbered
    <3>3. ASSUME NEW l \in logs', NEW k \in logs', l.id = k.id, l.user = k.user PROVE l = k
      <4>1. PICK m \in logs :
               /\ l = IF m.user = chat[c].user /\ m.thread = None
                      THEN [m EXCEPT !.thread = t, !.conv = created + 1] ELSE m
               /\ l.id = m.id /\ l.user = m.user
        BY <3>1
      <4>2. PICK n \in logs :
               /\ k = IF n.user = chat[c].user /\ n.thread = None
                      THEN [n EXCEPT !.thread = t, !.conv = created + 1] ELSE n
               /\ k.id = n.id /\ k.user = n.user
        BY <3>1
      <4>3. m = n
        BY <3>3, <4>1, <4>2 DEF RecordsNumbered
      <4>4. QED
        BY <4>1, <4>2, <4>3
    <3>4. QED
      BY <3>2, <3>3 DEF RecordsNumbered
  <2>3. QED
    BY <1>5, <2>1, <2>2, DefaultInsert
<1>6. ASSUME NEW c \in Chats, LoadContext(c) PROVE RecordsNumbered'
  BY <1>6 DEF RecordsNumbered, LoadContext, db
<1>7. ASSUME NEW c \in Chats, NEW o \in {"success", "error", "timeout"}, Resume(c, o)
      PROVE  RecordsNumbered'
  BY <1>7 DEF RecordsNumbered, Resume, db
<1>8. ASSUME NEW c \in Chats, Cancel(c) \/ AiRaises(c) PROVE RecordsNumbered'
  BY <1>8 DEF RecordsNumbered, Cancel, AiRaises, db
<1>9. ASSUME NEW c \in Chats, Save(c) PROVE RecordsNumbered'
  <2> DEFINE new == [id |-> written + 1, chat |-> c, user |-> chat[c].user,
                     thread |-> chat[c].thread, conv |-> chat[c].conv,
                     status |-> StatusOf(chat[c].outcome)]
  <2>1. logs' = logs \cup {new} /\ written' = written + 1 /\ written \in Nat
    BY <1>9 DEF Save, TypeOK
  <2>2. \A l \in logs : l.id \in Nat /\ l.id <= written
    BY DEF TypeOK, Log, RecordsNumbered
  <2>3. new.id = written + 1
    OBVIOUS
  <2> HIDE DEF new
  <2>4. \A l \in logs' : l.id <= written'
    BY <2>1, <2>2, <2>3
  <2>5. ASSUME NEW l \in logs', NEW m \in logs', l.id = m.id, l.user = m.user PROVE l = m
    BY <2>1, <2>2, <2>3, <2>5 DEF RecordsNumbered
  <2>6. QED
    BY <2>4, <2>5 DEF RecordsNumbered
<1>10. ASSUME NEW c \in Chats, SaveFails(c) PROVE RecordsNumbered'
  BY <1>10 DEF RecordsNumbered, SaveFails, db
<1>11. ASSUME NEW c \in Chats, Touch(c) PROVE RecordsNumbered'
  BY <1>11 DEF RecordsNumbered, Touch
<1>12. ASSUME NEW c \in Chats, TouchFails(c) PROVE RecordsNumbered'
  BY <1>12 DEF RecordsNumbered, TouchFails, db
<1>13. ASSUME NEW k \in Creators, CountThreads(k) PROVE RecordsNumbered'
  BY <1>13 DEF RecordsNumbered, CountThreads, db
<1>14. ASSUME NEW k \in Creators, CreateThread(k) PROVE RecordsNumbered'
  BY <1>14 DEF RecordsNumbered, CreateThread, db
<1>15. ASSUME NEW d \in Deleters, CheckOwner(d) PROVE RecordsNumbered'
  BY <1>15 DEF RecordsNumbered, CheckOwner, db
<1>16. ASSUME NEW d \in Deleters, DeleteThread(d) PROVE RecordsNumbered'
  BY <1>16 DEF RecordsNumbered, DeleteThread
<1>17. ASSUME NEW u \in Users, DeleteUser(u) PROVE RecordsNumbered'
  BY <1>17 DEF RecordsNumbered, DeleteUser
<1>18. ASSUME Crash PROVE RecordsNumbered'
  BY <1>18 DEF RecordsNumbered, Crash, db
<1>19. CASE UNCHANGED vars
  BY <1>19 DEF vars, RecordsNumbered
<1>20. QED
  BY <1>1, <1>2, <1>3, <1>4, <1>5, <1>6, <1>7, <1>8, <1>9, <1>10, <1>11, <1>12, <1>13,
     <1>14, <1>15, <1>16, <1>17, <1>18, <1>19 DEF Next, ChatNext, ChatStep, AiAnswers,
     AiFails, AiTimeout

\* successful_context is the newest records, no more than ContextTurns of them; when one
\* is left out there are as many, all newer.
LEMMA ContextIsNewest ==
    ASSUME TypeOK, RecordsNumbered, NEW u, NEW t
    PROVE  LET ok == {l \in logs : l.user = u /\ l.thread = t /\ l.status = "success"}
               context == SuccessfulContext(u, t)
           IN  /\ context \subseteq ok
               /\ Cardinality(context) <= ContextTurns
               /\ \A l \in ok : l \notin context =>
                    Cardinality(context) = ContextTurns /\ \A m \in context : m.id > l.id
<1> DEFINE ok == {l \in logs : l.user = u /\ l.thread = t /\ l.status = "success"}
<1>1. /\ \A l \in ok : l.id \in Nat /\ l.id <= written
      /\ \A l, m \in ok : l.id = m.id => l = m
  BY DEF TypeOK, Log, RecordsNumbered
<1>2. written \in Nat /\ ContextTurns \in Nat
  BY ConstantsAssumption DEF TypeOK
<1>3. SuccessfulContext(u, t) = {l \in ok : Cardinality({m \in ok : m.id > l.id}) < ContextTurns}
  BY DEF SuccessfulContext
<1> HIDE DEF ok
<1>4. LET newest == {x \in ok : Cardinality({y \in ok : y.id > x.id}) < ContextTurns} IN
      /\ newest \subseteq ok
      /\ Cardinality(newest) <= ContextTurns
      /\ \A x \in ok : x \notin newest =>
           Cardinality(newest) = ContextTurns /\ \A y \in newest : y.id > x.id
  BY <1>1, <1>2, NewestOf
<1>5. QED
  BY <1>3, <1>4 DEF ok

\* Contexts hold what they may, and only after they were read.
ContextsInOrder == ContextIsolated /\ NoContextYet

\* Every step keeps the contexts in order, where ids are not used again.
LEMMA ContextsInOrderStep ==
    ASSUME TypeOK, RecordsNumbered, IdsNameConversations, HeldThreadIsOwn, ContextsInOrder, [Next]_vars
    PROVE  ContextsInOrder'
<1>0. ASSUME \A e \in Chats :
                \/ chat'[e].context = {}
                \/ /\ chat'[e].context = chat[e].context
                   /\ chat'[e].user = chat[e].user /\ chat'[e].conv = chat[e].conv
                   /\ chat'[e].pc \in {"idle", "authed", "creating", "resolved"}
                        => chat[e].pc \in {"idle", "authed", "creating", "resolved"}
      PROVE  ContextsInOrder'
  <2>1. Cardinality({}) <= ContextTurns
    BY ConstantsAssumption, FS_EmptySet
  <2>2. QED
    BY <1>0, <2>1 DEF ContextsInOrder, ContextIsolated, NoContextYet
<1>1. ASSUME NEW c \in Chats, Arrive(c) PROVE ContextsInOrder'
  <2>1. chat[c].context = {}
    BY <1>1 DEF Arrive, ContextsInOrder, NoContextYet
  <2>2. QED
    BY <1>0, <1>1, <2>1 DEF Arrive, TypeOK, ChatRequest
<1>2. ASSUME NEW c \in Chats, Refuse(c) PROVE ContextsInOrder'
  BY <1>0, <1>2 DEF Refuse, TypeOK, ChatRequest, Reply, Ended, Bare, db
<1>3. ASSUME NEW c \in Chats, ResolveGiven(c) PROVE ContextsInOrder'
  <2>1. chat[c].context = {}
    BY <1>3 DEF ResolveGiven, ContextsInOrder, NoContextYet
  <2>2. CASE Hold(c, chat[c].target)
    <3>1. chat'[c].context = {} /\ \A e \in Chats \ {c} : chat'[e] = chat[e]
      BY <2>1, <2>2 DEF Hold, TypeOK, ChatRequest
    <3>2. QED
      BY <1>0, <3>1
  <2>3. CASE Reply(c, 404)
    <3>1. chat'[c].context = {} /\ \A e \in Chats \ {c} : chat'[e] = chat[e]
      BY <2>3 DEF Reply, Ended, Bare, TypeOK
    <3>2. QED
      BY <1>0, <3>1
  <2>4. QED
    BY <1>3, <2>2, <2>3 DEF ResolveGiven
<1>4. ASSUME NEW c \in Chats, ResolveDefault(c) PROVE ContextsInOrder'
  <2>1. chat[c].context = {}
    BY <1>4 DEF ResolveDefault, ContextsInOrder, NoContextYet
  <2>2. CASE chat' = [chat EXCEPT ![c].pc = "creating"]
    <3>1. chat'[c].context = {} /\ \A e \in Chats \ {c} : chat'[e] = chat[e]
      BY <2>1, <2>2 DEF TypeOK, ChatRequest
    <3>2. QED
      BY <1>0, <3>1
  <2>3. ASSUME NEW t \in ThreadId, Hold(c, t) PROVE ContextsInOrder'
    <3>1. chat'[c].context = {} /\ \A e \in Chats \ {c} : chat'[e] = chat[e]
      BY <2>1, <2>3 DEF Hold, TypeOK, ChatRequest
    <3>2. QED
      BY <1>0, <3>1
  <2>4. QED
    BY <1>4, <2>2, <2>3, DefaultQuery
<1>5. ASSUME NEW c \in Chats, CreateDefault(c) PROVE ContextsInOrder'
  <2>1. chat[c].context = {}
    BY <1>5 DEF CreateDefault, ContextsInOrder, NoContextYet
  <2>2. CASE Reply(c, 500)
    <3>1. chat'[c].context = {} /\ \A e \in Chats \ {c} : chat'[e] = chat[e]
      BY <2>2 DEF Reply, Ended, Bare, TypeOK
    <3>2. QED
      BY <1>0, <3>1
  <2>3. ASSUME NEW t \in ThreadId,
               chat' = [chat EXCEPT ![c].pc = "resolved", ![c].thread = t,
                                    ![c].conv = created + 1, ![c].title = DefaultTitle]
        PROVE  ContextsInOrder'
    <3>1. chat'[c].context = {} /\ \A e \in Chats \ {c} : chat'[e] = chat[e]
      BY <2>1, <2>3 DEF TypeOK, ChatRequest
    <3>2. QED
      BY <1>0, <3>1
  <2>4. QED
    BY <1>5, <2>2, <2>3, DefaultInsert
<1>6. ASSUME NEW c \in Chats, LoadContext(c) PROVE ContextsInOrder'
  <2>1. /\ chat[c].pc = "resolved"
        /\ chat'[c].pc = "awaiting" /\ chat'[c].user = chat[c].user /\ chat'[c].conv = chat[c].conv
        /\ chat'[c].context = SuccessfulContext(chat[c].user, chat[c].thread)
        /\ \A e \in Chats \ {c} : chat'[e] = chat[e]
    BY <1>6 DEF LoadContext, TypeOK, ChatRequest
  <2>2. chat[c].thread # None /\ chat[c].conv = chat[c].thread
    BY <2>1 DEF HeldThreadIsOwn, IdsNameConversations
  <2>3. Cardinality(chat'[c].context) <= ContextTurns
    BY <2>1, ContextIsNewest
  <2>4. \A l \in chat'[c].context :
           l.user = chat'[c].user /\ l.conv = chat'[c].conv /\ l.status = "success"
    <3>1. ASSUME NEW l \in chat'[c].context
          PROVE  l \in logs /\ l.user = chat[c].user /\ l.thread = chat[c].thread /\ l.status = "success"
      BY <2>1 DEF SuccessfulContext
    <3>2. QED
      BY <2>1, <2>2, <3>1 DEF IdsNameConversations
  <2>5. QED
    BY <2>1, <2>3, <2>4 DEF ContextsInOrder, ContextIsolated, NoContextYet
<1>7. ASSUME NEW c \in Chats, NEW o \in {"success", "error", "timeout"}, Resume(c, o)
      PROVE  ContextsInOrder'
  BY <1>0, <1>7 DEF Resume, TypeOK, ChatRequest, db
<1>8. ASSUME NEW c \in Chats, Cancel(c) \/ AiRaises(c) PROVE ContextsInOrder'
  BY <1>0, <1>8 DEF Cancel, AiRaises, TypeOK, ChatRequest, Reply, Ended, Bare, db
<1>9. ASSUME NEW c \in Chats, Save(c) PROVE ContextsInOrder'
  BY <1>0, <1>9 DEF Save, TypeOK, ChatRequest
<1>10. ASSUME NEW c \in Chats, SaveFails(c) PROVE ContextsInOrder'
  BY <1>0, <1>10 DEF SaveFails, TypeOK, ChatRequest, Reply, Ended, Bare, db
<1>11. ASSUME NEW c \in Chats, Touch(c) PROVE ContextsInOrder'
  BY <1>0, <1>11 DEF Touch, TypeOK, ChatRequest, Reply, Ended, Bare
<1>12. ASSUME NEW c \in Chats, TouchFails(c) PROVE ContextsInOrder'
  BY <1>0, <1>12 DEF TouchFails, TypeOK, ChatRequest, Reply, Ended, Bare, db
<1>13. ASSUME NEW k \in Creators, CountThreads(k) PROVE ContextsInOrder'
  BY <1>0, <1>13 DEF CountThreads, TypeOK, ChatRequest, db
<1>14. ASSUME NEW k \in Creators, CreateThread(k) PROVE ContextsInOrder'
  BY <1>0, <1>14 DEF CreateThread, TypeOK, ChatRequest, db
<1>15. ASSUME NEW d \in Deleters, CheckOwner(d) PROVE ContextsInOrder'
  BY <1>0, <1>15 DEF CheckOwner, TypeOK, ChatRequest, db
<1>16. ASSUME NEW d \in Deleters, DeleteThread(d) PROVE ContextsInOrder'
  BY <1>0, <1>16 DEF DeleteThread, TypeOK, ChatRequest
<1>17. ASSUME NEW u \in Users, DeleteUser(u) PROVE ContextsInOrder'
  BY <1>0, <1>17 DEF DeleteUser, TypeOK, ChatRequest
<1>18. ASSUME Crash PROVE ContextsInOrder'
  BY <1>0, <1>18 DEF Crash, TypeOK, ChatRequest, Ended, Bare, db
<1>19. CASE UNCHANGED vars
  BY <1>0, <1>19 DEF vars
<1>20. QED
  BY <1>1, <1>2, <1>3, <1>4, <1>5, <1>6, <1>7, <1>8, <1>9, <1>10, <1>11, <1>12, <1>13,
     <1>14, <1>15, <1>16, <1>17, <1>18, <1>19 DEF Next, ChatNext, ChatStep, AiAnswers,
     AiFails, AiTimeout

\* The records are numbered, whether or not ids of threads are used again.
LEMMA RecordsAreNumbered == Spec => []RecordsNumbered
<1>1. Init => RecordsNumbered
  BY DEF Init, LegacyLogs, RecordsNumbered
<1>2. TypeOK /\ RecordsNumbered /\ [Next]_vars => RecordsNumbered'
  BY RecordsNumberedStep
<1>3. QED
  BY <1>1, <1>2, TypeCorrect, PTL DEF Spec

\* Contexts keep their order, size and conversation.
LEMMA ContextsInvariant ==
    ASSUME ~ RowidReuse
    PROVE  Spec => []ContextsInOrder
<1>1. Init => ContextsInOrder
  <2> SUFFICES ASSUME Init PROVE ContextsInOrder
    OBVIOUS
  <2>1. \A c \in Chats : chat[c].context = {}
    BY DEF Init, NewChat, Bare
  <2>2. Cardinality({}) <= ContextTurns
    BY ConstantsAssumption, FS_EmptySet
  <2>3. QED
    BY <2>1, <2>2 DEF ContextsInOrder, ContextIsolated, NoContextYet
<1>2. TypeOK /\ RecordsNumbered /\ ConversationInv /\ ContextsInOrder /\ [Next]_vars
         => ContextsInOrder'
  BY ContextsInOrderStep DEF ConversationInv
<1>3. QED
  BY <1>1, <1>2, TypeCorrect, RecordsAreNumbered, ConversationInvariant, PTL DEF Spec

\* The prompt of a chat holds successful records of its user and conversation only, and
\* no more than context_turns.
THEOREM ContextsAreIsolated ==
    ASSUME ~ RowidReuse
    PROVE  Spec => []ContextIsolated
<1>1. ContextsInOrder => ContextIsolated
  BY DEF ContextsInOrder
<1>2. QED
  BY <1>1, ContextsInvariant, PTL

\* A step of a chat changes no other chat.
LEMMA ChatsMoveAlone ==
    ASSUME TypeOK, NEW f \in Chats, ChatNext(f)
    PROVE  \A g \in Chats \ {f} : chat'[g] = chat[g]
<1> SUFFICES ASSUME NEW g \in Chats \ {f} PROVE chat'[g] = chat[g]
  OBVIOUS
<1>1. CASE Arrive(f)
  BY <1>1 DEF Arrive, TypeOK
<1>2. CASE Refuse(f) \/ AiRaises(f) \/ Cancel(f) \/ TouchFails(f) \/ Touch(f)
  BY <1>2 DEF Refuse, AiRaises, Cancel, TouchFails, Touch, Reply, TypeOK
<1>3. CASE ResolveGiven(f)
  BY <1>3 DEF ResolveGiven, Reply, Hold, TypeOK
<1>4. CASE ResolveDefault(f)
  <2>1. ASSUME NEW t \in ThreadId, Hold(f, t) PROVE chat'[g] = chat[g]
    BY <2>1 DEF Hold, TypeOK
  <2>2. CASE chat' = [chat EXCEPT ![f].pc = "creating"]
    BY <2>2 DEF TypeOK
  <2>3. QED
    BY <1>4, <2>1, <2>2, DefaultQuery
<1>5. CASE CreateDefault(f)
  <2>1. ASSUME NEW t \in ThreadId,
               chat' = [chat EXCEPT ![f].pc = "resolved", ![f].thread = t,
                                    ![f].conv = created + 1, ![f].title = DefaultTitle]
        PROVE  chat'[g] = chat[g]
    BY <2>1 DEF TypeOK
  <2>2. CASE Reply(f, 500)
    BY <2>2 DEF Reply, TypeOK
  <2>3. QED
    BY <1>5, <2>1, <2>2, DefaultInsert
<1>6. CASE LoadContext(f)
  BY <1>6 DEF LoadContext, TypeOK
<1>7. CASE \E o \in {"success", "error", "timeout"} : Resume(f, o)
  BY <1>7 DEF Resume, TypeOK
<1>8. CASE Save(f) \/ SaveFails(f)
  BY <1>8 DEF Save, SaveFails, Reply, TypeOK
<1>9. QED
  BY <1>1, <1>2, <1>3, <1>4, <1>5, <1>6, <1>7, <1>8
     DEF ChatNext, ChatStep, AiAnswers, AiFails, AiTimeout

\* When a chat starts its AI call, every answer its user was told is stored in this
\* conversation is in the prompt, unless context_turns newer ones fill it.
THEOREM PromptIsComplete ==
    ASSUME ~ RowidReuse
    PROVE  Spec => PromptHoldsWhatWasStored
<1>1. ASSUME TypeOK, RecordsNumbered, ConversationInv, Next,
             NEW c \in Chats, chat[c].pc = "resolved", chat'[c].pc = "awaiting",
             ConversationLives(c),
             NEW e \in Chats, chat[e].code = 201, chat[e].conv = chat[c].conv
      PROVE  \E l \in logs :
                /\ l.chat = e
                /\ \/ l \in chat'[c].context
                   \/ /\ Cardinality(chat'[c].context) = ContextTurns
                      /\ \A m \in chat'[c].context : m.id > l.id
  <2>1. LoadContext(c)
    <3>1. ASSUME NEW f \in Chats, ChatNext(f) PROVE LoadContext(c)
      <4>1. \A g \in Chats \ {f} : chat'[g] = chat[g]
        BY <1>1, <3>1, ChatsMoveAlone
      <4>2. f = c
        BY <1>1, <4>1
      <4>3. QED
        BY <1>1, <3>1, <4>2
           DEF ChatNext, ChatStep, Arrive, Refuse, ResolveGiven, ResolveDefault, CreateDefault,
               AiAnswers, AiFails, AiRaises, AiTimeout, Resume, Cancel, Save, SaveFails, Touch, TouchFails,
               Reply, Ended, Bare, Hold, TypeOK
    <3>2. ASSUME NEW k \in Creators, CountThreads(k) \/ CreateThread(k) PROVE FALSE
      BY <1>1, <3>2 DEF CountThreads, CreateThread
    <3>3. ASSUME NEW d \in Deleters, CheckOwner(d) \/ DeleteThread(d) PROVE FALSE
      BY <1>1, <3>3 DEF CheckOwner, DeleteThread
    <3>4. ASSUME NEW u \in Users, DeleteUser(u) PROVE FALSE
      BY <1>1, <3>4 DEF DeleteUser
    <3>5. ASSUME Crash PROVE FALSE
      BY <1>1, <3>5 DEF Crash, Ended, Bare
    <3>6. QED
      BY <1>1, <3>1, <3>2, <3>3, <3>4, <3>5 DEF Next
  <2>2. chat'[c].context = SuccessfulContext(chat[c].user, chat[c].thread)
    BY <1>1, <2>1 DEF LoadContext, TypeOK, ChatRequest
  <2>3. /\ chat[c].thread # None /\ chat[c].conv = chat[c].thread
        /\ Exists(chat[c].conv) /\ threads[chat[c].conv].user = chat[c].user
    BY <1>1 DEF ConversationInv, IdsNameConversations, HeldThreadIsOwn, ConversationLives
  <2>4. PICK l \in logs : l.chat = e
    BY <1>1, <2>3 DEF ConversationInv, StoredIsThere
  <2>5. l.thread # None /\ l.conv = chat[e].conv /\ l.status = "success"
    <3>1. e # None /\ chat[e].pc # "saved"
      BY <1>1, NoneAssumption DEF ConversationInv, StoredIsThere
    <3>2. QED
      BY <1>1, <2>4, <3>1 DEF ConversationInv, RecordsFollowRequests, Lost
  <2>6. l.thread = chat[c].thread /\ l.user = chat[c].user
    BY <1>1, <2>3, <2>4, <2>5 DEF ConversationInv, IdsNameConversations, RecordsStayInConversation
  <2> DEFINE ok == {m \in logs : m.user = chat[c].user /\ m.thread = chat[c].thread /\ m.status = "success"}
  <2>7. l \in ok
    BY <2>4, <2>5, <2>6
  <2>8. l \notin chat'[c].context =>
           /\ Cardinality(chat'[c].context) = ContextTurns
           /\ \A m \in chat'[c].context : m.id > l.id
    BY <1>1, <2>2, <2>7, ContextIsNewest
  <2>9. QED
    BY <2>4, <2>8
<1>2. TypeOK /\ RecordsNumbered /\ ConversationInv /\ [Next]_vars =>
        [\A c \in Chats :
          chat[c].pc = "resolved" /\ chat'[c].pc = "awaiting" /\ ConversationLives(c) =>
             \A e \in Chats :
                chat[e].code = 201 /\ chat[e].conv = chat[c].conv =>
                   \E l \in logs :
                      /\ l.chat = e
                      /\ \/ l \in chat'[c].context
                         \/ /\ Cardinality(chat'[c].context) = ContextTurns
                            /\ \A m \in chat'[c].context : m.id > l.id]_vars
  BY <1>1
<1>3. QED
  BY <1>2, TypeCorrect, RecordsAreNumbered, ConversationInvariant, PTL
     DEF Spec, PromptHoldsWhatWasStored

-----------------------------------------------------------------------------
(* The titles of threads.                                                  *)

\* Every step keeps it so that titles follow requests, where ids are not used again.
LEMMA TitlesFollowRequestsStep ==
    ASSUME ~ RowidReuse, TypeOK, IdsNameConversations, HeldThreadIsOwn, TitlesFollowRequests,
           [Next]_vars
    PROVE  TitlesFollowRequests'
<1>0. ASSUME \A e \in Chats :
                \/ chat'[e].thread = None
                \/ /\ chat'[e].thread \in ThreadId
                   /\ chat'[e].title = threads[chat'[e].thread].title
                \/ chat'[e].thread = chat[e].thread /\ chat'[e].title = chat[e].title,
             \A t \in ThreadId : Exists(t)' =>
                \/ Exists(t) /\ threads'[t] = threads[t]
                \/ /\ threads'[t].title \notin Chats
                   /\ threads'[t].title = DefaultTitle =>
                        \A e \in Chats : chat'[e].thread = t => chat'[e].title = DefaultTitle,
             \A e \in Chats : chat[e].pc = "done" => chat'[e] = chat[e]
      PROVE  TitlesFollowRequests'
  <2>1. ASSUME NEW e \in Chats, NEW t \in ThreadId, t = chat'[e].thread, threads'[t] # None,
               threads'[t].title = DefaultTitle
        PROVE  chat'[e].title = DefaultTitle
    <3>1. Exists(t)' /\ t # None
      BY <2>1, NoneAssumption DEF Exists
    <3>2. CASE threads'[t] = threads[t]
      BY <1>0, <2>1, <3>1, <3>2 DEF TitlesFollowRequests, Exists
    <3>3. CASE threads'[t] # threads[t]
      BY <1>0, <2>1, <3>1, <3>3
    <3>4. QED
      BY <3>2, <3>3
  <2>2. ASSUME NEW t \in ThreadId, Exists(t)', threads'[t].title \in Chats
        PROVE  LET e == threads'[t].title IN
               chat'[e].pc = "done" /\ chat'[e].user = threads'[t].user
               /\ chat'[e].conv = threads'[t].conv
    <3>1. Exists(t) /\ threads'[t] = threads[t]
      BY <1>0, <2>2
    <3>2. QED
      BY <1>0, <2>2, <3>1 DEF TitlesFollowRequests
  <2>3. QED
    BY <2>1, <2>2 DEF TitlesFollowRequests, Exists
<1>1. ASSUME NEW c \in Chats, Arrive(c) PROVE TitlesFollowRequests'
  BY <1>0, <1>1 DEF Arrive, TypeOK, ChatRequest, Exists, db
<1>2. ASSUME NEW c \in Chats, Refuse(c) PROVE TitlesFollowRequests'
  BY <1>0, <1>2 DEF Refuse, TypeOK, ChatRequest, Exists, Reply, Ended, Bare, db
<1>3. ASSUME NEW c \in Chats, ResolveGiven(c) PROVE TitlesFollowRequests'
  <2>1. CASE GetThread(chat[c].target, chat[c].user)
    BY <1>0, <1>3, <2>1 DEF ResolveGiven, GetThread, Hold, TypeOK, ChatRequest, Exists, db
  <2>2. CASE ~ GetThread(chat[c].target, chat[c].user)
    BY <1>0, <1>3, <2>2 DEF ResolveGiven, Reply, Ended, Bare, TypeOK, ChatRequest, Exists, db
  <2>3. QED
    BY <2>1, <2>2
<1>4. ASSUME NEW c \in Chats, ResolveDefault(c) PROVE TitlesFollowRequests'
  <2>0. UNCHANGED threads /\ chat[c].pc = "authed"
    BY <1>4, DefaultQuery
  <2>1. CASE chat' = [chat EXCEPT ![c].pc = "creating"]
    BY <1>0, <2>0, <2>1 DEF TypeOK, ChatRequest, Exists
  <2>2. ASSUME NEW t \in ThreadId, Hold(c, t) PROVE TitlesFollowRequests'
    BY <1>0, <2>0, <2>2 DEF Hold, TypeOK, ChatRequest, Exists
  <2>3. QED
    BY <1>4, <2>1, <2>2, DefaultQuery
<1>5. ASSUME NEW c \in Chats, CreateDefault(c) PROVE TitlesFollowRequests'
  <2>0. chat[c].pc = "creating"
    BY <1>5, DefaultInsert
  <2>1. CASE Reply(c, 500) /\ UNCHANGED <<threads, logs, created>>
    BY <1>0, <2>0, <2>1 DEF Reply, Ended, Bare, TypeOK, ChatRequest, Exists
  <2>2. ASSUME NEW t \in ThreadId, chat[c].user \in Users,
               InsertThread(t, chat[c].user, DefaultTitle),
               chat' = [chat EXCEPT ![c].pc = "resolved", ![c].thread = t,
                                    ![c].conv = created + 1, ![c].title = DefaultTitle]
        PROVE  TitlesFollowRequests'
    <3>1. /\ t = created + 1 /\ created \in Nat
          /\ threads'[t] = [user |-> chat[c].user, title |-> DefaultTitle, conv |-> t]
          /\ threads'[t] # None
          /\ \A s \in ThreadId \ {t} : threads'[s] = threads[s]
      BY <2>2, FreshThread DEF Titles
    <3>2. \A e \in Chats : chat[e].thread # t
      <4>1. ASSUME NEW e \in Chats, chat[e].thread = t PROVE FALSE
        <5>1. t # None
          BY NoneAssumption
        <5>2. t <= created
          BY <4>1, <5>1 DEF IdsNameConversations
        <5>3. QED
          BY <3>1, <5>2
      <4>2. QED
        BY <4>1
    <3>3. /\ chat'[c].thread = t /\ chat'[c].title = DefaultTitle /\ chat'[c].pc = "resolved"
          /\ \A e \in Chats \ {c} : chat'[e] = chat[e]
      BY <2>2 DEF TypeOK, ChatRequest
    <3>4. ASSUME NEW e \in Chats, NEW s \in ThreadId, s = chat'[e].thread, threads'[s] # None,
                 threads'[s].title = DefaultTitle
          PROVE  chat'[e].title = DefaultTitle
      <4>1. CASE e = c
        BY <3>3, <4>1
      <4>2. CASE e # c
        <5>1. chat'[e] = chat[e] /\ s \in ThreadId \ {t}
          BY <3>2, <3>3, <3>4, <4>2
        <5>2. QED
          BY <3>1, <3>4, <5>1 DEF Exists, TitlesFollowRequests
      <4>3. QED
        BY <4>1, <4>2
    <3>5. ASSUME NEW s \in ThreadId, Exists(s)', threads'[s].title \in Chats
          PROVE  LET e == threads'[s].title IN
                 chat'[e].pc = "done" /\ chat'[e].user = threads'[s].user
                 /\ chat'[e].conv = threads'[s].conv
      <4>1. s # t
        BY <3>1, <3>5, NoneAssumption
      <4>2. Exists(s) /\ threads'[s] = threads[s]
        BY <3>1, <3>5, <4>1 DEF Exists
      <4>3. threads[s].title # c
        BY <2>0, <4>2 DEF TitlesFollowRequests
      <4>4. QED
        BY <3>3, <3>5, <4>2, <4>3 DEF TitlesFollowRequests
    <3>6. QED
      BY <3>4, <3>5 DEF TitlesFollowRequests, Exists
  <2>3. QED
    BY <1>5, <2>1, <2>2, DefaultInsert
<1>6. ASSUME NEW c \in Chats, LoadContext(c) PROVE TitlesFollowRequests'
  BY <1>0, <1>6 DEF LoadContext, TypeOK, ChatRequest, Exists, db
<1>7. ASSUME NEW c \in Chats, NEW o \in {"success", "error", "timeout"}, Resume(c, o)
      PROVE  TitlesFollowRequests'
  BY <1>0, <1>7 DEF Resume, TypeOK, ChatRequest, Exists, db
<1>8. ASSUME NEW c \in Chats, Cancel(c) \/ AiRaises(c) PROVE TitlesFollowRequests'
  BY <1>0, <1>8 DEF Cancel, AiRaises, TypeOK, ChatRequest, Exists, Reply, Ended, Bare, db
<1>9. ASSUME NEW c \in Chats, Save(c) PROVE TitlesFollowRequests'
  BY <1>0, <1>9 DEF Save, TypeOK, ChatRequest, Exists
<1>10. ASSUME NEW c \in Chats, SaveFails(c) PROVE TitlesFollowRequests'
  <2>1. CASE Exists(chat[c].thread)
    BY <1>0, <1>10, <2>1 DEF SaveFails, TypeOK, ChatRequest, Exists, db
  <2>2. CASE ~ Exists(chat[c].thread)
    BY <1>0, <1>10, <2>2 DEF SaveFails, Reply, Ended, Bare, TypeOK, ChatRequest, Exists, db
  <2>3. QED
    BY <2>1, <2>2
<1>11. ASSUME NEW c \in Chats, Touch(c) PROVE TitlesFollowRequests'
  <2>0. /\ chat[c].pc = "saved"
        /\ chat'[c].pc = "done" /\ chat'[c].thread = None
        /\ chat'[c].user = chat[c].user /\ chat'[c].conv = chat[c].conv
        /\ \A e \in Chats \ {c} : chat'[e] = chat[e]
    BY <1>11 DEF Touch, Reply, Ended, Bare, TypeOK
  <2>1. CASE UNCHANGED threads
    BY <1>0, <2>0, <2>1 DEF Exists
  <2>2. CASE Exists(chat[c].thread) /\ threads' = [threads EXCEPT ![chat[c].thread].title = c]
    <3>1. PICK t \in ThreadId : t = chat[c].thread /\ threads[t] \in Thread /\ t # None
      BY <2>2, NoneAssumption DEF Exists, TypeOK
    <3>2. chat[c].conv = t /\ threads[t].conv = t /\ threads[t].user = chat[c].user
      BY <2>2, <3>1 DEF IdsNameConversations, HeldThreadIsOwn
    <3>3. /\ threads'[t].title = c /\ threads'[t].user = threads[t].user
          /\ threads'[t].conv = threads[t].conv
          /\ \A s \in ThreadId \ {t} : threads'[s] = threads[s]
      BY <2>2, <3>1 DEF TypeOK, Thread
    <3>4. ASSUME NEW e \in Chats, NEW s \in ThreadId, s = chat'[e].thread, threads'[s] # None,
                 threads'[s].title = DefaultTitle
          PROVE  chat'[e].title = DefaultTitle
      <4>1. s \in ThreadId \ {t} /\ s # None
        BY <3>3, <3>4, NoneAssumption
      <4>2. e # c
        BY <2>0, <3>4, <4>1
      <4>3. QED
        BY <2>0, <3>3, <3>4, <4>1, <4>2 DEF TitlesFollowRequests, Exists
    <3>5. ASSUME NEW s \in ThreadId, Exists(s)', threads'[s].title \in Chats
          PROVE  LET e == threads'[s].title IN
                 chat'[e].pc = "done" /\ chat'[e].user = threads'[s].user
                 /\ chat'[e].conv = threads'[s].conv
      <4>1. CASE s = t
        BY <2>0, <3>2, <3>3, <4>1
      <4>2. CASE s # t
        <5>1. Exists(s) /\ threads'[s] = threads[s]
          BY <3>3, <3>5, <4>2 DEF Exists
        <5>2. threads[s].title # c
          BY <2>0, <5>1 DEF TitlesFollowRequests
        <5>3. QED
          BY <2>0, <3>5, <5>1, <5>2 DEF TitlesFollowRequests
      <4>3. QED
        BY <4>1, <4>2
    <3>6. QED
      BY <3>4, <3>5 DEF TitlesFollowRequests, Exists
  <2>3. QED
    BY <1>11, <2>1, <2>2 DEF Touch
<1>12. ASSUME NEW c \in Chats, TouchFails(c) PROVE TitlesFollowRequests'
  BY <1>0, <1>12 DEF TouchFails, TypeOK, ChatRequest, Exists, Reply, Ended, Bare, db
<1>13. ASSUME NEW k \in Creators, CountThreads(k) PROVE TitlesFollowRequests'
  BY <1>0, <1>13 DEF CountThreads, TypeOK, ChatRequest, Exists, db
<1>14. ASSUME NEW k \in Creators, CreateThread(k) PROVE TitlesFollowRequests'
  <2>0. UNCHANGED chat
    BY <1>14 DEF CreateThread
  <2>1. CASE UNCHANGED threads
    BY <1>0, <2>0, <2>1 DEF Exists
  <2>2. ASSUME NEW t \in ThreadId, NEW v \in Users, InsertThread(t, v, None)
        PROVE  TitlesFollowRequests'
    <3>1. /\ threads'[t] = [user |-> v, title |-> None, conv |-> t]
          /\ \A s \in ThreadId \ {t} : threads'[s] = threads[s]
      BY <2>2, FreshThread DEF Titles
    <3>2. \A s \in ThreadId : Exists(s)' =>
             \/ Exists(s) /\ threads'[s] = threads[s]
             \/ threads'[s].title = None
      BY <3>1 DEF Exists
    <3>3. QED
      BY <1>0, <2>0, <3>2, NoneAssumption
  <2>3. QED
    BY <1>14, <2>1, <2>2 DEF CreateThread, TypeOK, db
<1>15. ASSUME NEW d \in Deleters, CheckOwner(d) PROVE TitlesFollowRequests'
  BY <1>0, <1>15 DEF CheckOwner, TypeOK, ChatRequest, Exists, db
<1>16. ASSUME NEW d \in Deleters, DeleteThread(d) PROVE TitlesFollowRequests'
  BY <1>0, <1>16 DEF DeleteThread, TypeOK, ChatRequest, Exists
<1>17. ASSUME NEW u \in Users, DeleteUser(u) PROVE TitlesFollowRequests'
  BY <1>0, <1>17 DEF DeleteUser, TypeOK, ChatRequest, Exists
<1>18. ASSUME Crash PROVE TitlesFollowRequests'
  <2>1. UNCHANGED threads /\ \A e \in Chats : chat'[e].thread = None \/ chat'[e] = chat[e]
    BY <1>18 DEF Crash, Ended, Bare, db
  <2>2. \A e \in Chats : chat[e].pc = "done" => chat'[e] = chat[e]
    BY <1>18 DEF Crash, InFlight
  <2>3. QED
    BY <1>0, <2>1, <2>2 DEF Exists
<1>19. CASE UNCHANGED vars
  BY <1>0, <1>19 DEF vars, Exists
<1>20. QED
  BY <1>1, <1>2, <1>3, <1>4, <1>5, <1>6, <1>7, <1>8, <1>9, <1>10, <1>11, <1>12, <1>13,
     <1>14, <1>15, <1>16, <1>17, <1>18, <1>19 DEF Next, ChatNext, ChatStep, AiAnswers,
     AiFails, AiTimeout

\* Titles follow requests, where ids are not used again.
LEMMA TitlesInvariant ==
    ASSUME ~ RowidReuse
    PROVE  Spec => []TitlesFollowRequests
<1>1. Init => TitlesFollowRequests
  BY DEF Init, TitlesFollowRequests, Exists
<1>2. TypeOK /\ ConversationInv /\ TitlesFollowRequests /\ [Next]_vars => TitlesFollowRequests'
  BY TitlesFollowRequestsStep DEF ConversationInv
<1>3. QED
  BY <1>1, <1>2, TypeCorrect, ConversationInvariant, PTL DEF Spec

\* A thread is only ever named after a question its own user asked in it.
THEOREM TitlesAreOwn ==
    ASSUME ~ RowidReuse
    PROVE  Spec => []TitleFromOwnConversation
<1>1. TitlesFollowRequests => TitleFromOwnConversation
  BY DEF TitlesFollowRequests, TitleFromOwnConversation
<1>2. QED
  BY <1>1, TitlesInvariant, PTL

\* No step renames a default thread: the only step that writes a title finds, in the
\* session, the one its thread had.
THEOREM DefaultTitleStays ==
    ASSUME ~ RowidReuse
    PROVE  Spec => DefaultTitleFixed
<1>1. ASSUME TypeOK, IdsNameConversations, TitlesFollowRequests, Next,
             NEW t \in ThreadId, Exists(t), threads[t].title = DefaultTitle
      PROVE  threads'[t] \in {None, threads[t]}
  <2>1. ASSUME NEW v \in ThreadId, NEW u \in Users, NEW title \in Titles,
               InsertThread(v, u, title)
        PROVE  threads'[t] = threads[t]
    BY <1>1, <2>1, FreshThread
  <2>2. ASSUME NEW c \in Chats, ChatNext(c) PROVE threads'[t] = threads[t]
    <3>1. CASE Touch(c)
      <4>1. chat[c].thread = t => ~ NeedsTitle(c)
        BY <1>1, NoneAssumption DEF TitlesFollowRequests, NeedsTitle
      <4>2. QED
        BY <1>1, <3>1, <4>1 DEF Touch, TypeOK
    <3>2. CASE CreateDefault(c)
      BY <1>1, <2>1, <3>2, DefaultInsert DEF Titles
    <3>3. CASE ~ Touch(c) /\ ~ CreateDefault(c)
      BY <2>2, <3>3
         DEF ChatNext, ChatStep, Arrive, Refuse, ResolveGiven, ResolveDefault, LoadContext,
             AiAnswers, AiFails, AiRaises, AiTimeout, Resume, Cancel, Save, SaveFails, TouchFails, db
    <3>4. QED
      BY <3>1, <3>2, <3>3
  <2>3. ASSUME NEW k \in Creators, CountThreads(k) \/ CreateThread(k)
        PROVE  threads'[t] = threads[t]
    BY <1>1, <2>1, <2>3 DEF CountThreads, CreateThread, Titles, TypeOK, db
  <2>4. ASSUME NEW d \in Deleters, CheckOwner(d) \/ DeleteThread(d)
        PROVE  threads'[t] \in {None, threads[t]}
    BY <1>1, <2>4 DEF CheckOwner, DeleteThread, TypeOK, db
  <2>5. ASSUME NEW u \in Users, DeleteUser(u) PROVE threads'[t] \in {None, threads[t]}
    BY <2>5 DEF DeleteUser
  <2>6. CASE Crash
    BY <2>6 DEF Crash, db
  <2>7. QED
    BY <1>1, <2>2, <2>3, <2>4, <2>5, <2>6 DEF Next
<1>2. TypeOK /\ ConversationInv /\ TitlesFollowRequests /\ [Next]_vars =>
        [\A t \in ThreadId :
            Exists(t) /\ threads[t].title = DefaultTitle =>
                threads'[t] \in {None, threads[t]}]_vars
  BY <1>1 DEF ConversationInv
<1>3. QED
  BY <1>2, TypeCorrect, ConversationInvariant, TitlesInvariant, PTL
     DEF Spec, DefaultTitleFixed

\* Every step keeps it so that a question asked with the naming one in its prompt knows
\* the title, where ids are not used again.
LEMMA FollowUpsStep ==
    ASSUME ~ RowidReuse, TypeOK, IdsNameConversations, RecordsFollowRequests,
           DefaultIsDecidedAlone, NoContextYet, FollowUpsKnowTheTitle, [Next]_vars
    PROVE  FollowUpsKnowTheTitle'
<1>0. ASSUME \A e \in Chats :
                \/ chat'[e].context = {}
                \/ /\ chat'[e].context = chat[e].context /\ chat'[e].thread = chat[e].thread
                   /\ \/ chat'[e].title = chat[e].title
                      \/ chat'[e].title = threads[chat[e].thread].title,
             \A e \in Chats : chat[e].pc = "done" => chat'[e].pc = "done",
             \A e \in Chats : chat'[e].pc = "resolved" =>
                \/ chat[e].pc = "resolved" /\ chat'[e] = chat[e]
                \/ chat'[e].title = threads'[chat'[e].thread].title,
             \A t \in ThreadId : threads'[t] # None =>
                \/ Exists(t) /\ threads'[t] = threads[t]
                \/ \A e \in Chats : chat[e].thread # t
      PROVE  FollowUpsKnowTheTitle'
  <2>1. ASSUME NEW e \in Chats, NEW l \in chat'[e].context, l.chat # None
        PROVE  l.chat # e /\ chat'[l.chat].pc = "done"
    <3>1. l \in chat[e].context
      BY <1>0, <2>1
    <3>2. l.chat \in Chats
      BY <2>1, <3>1 DEF TypeOK, ChatRequest, Log
    <3>3. QED
      BY <1>0, <2>1, <3>1, <3>2 DEF FollowUpsKnowTheTitle
  <2>2. ASSUME NEW e \in Chats, chat'[e].pc = "resolved", NEW t \in ThreadId,
               t = chat'[e].thread, threads'[t] # None
        PROVE  chat'[e].title = threads'[t].title
    <3>1. CASE chat[e].pc = "resolved" /\ chat'[e] = chat[e]
      <4>1. Exists(t) /\ threads'[t] = threads[t]
        BY <1>0, <2>2, <3>1 DEF Exists
      <4>2. QED
        BY <2>2, <3>1, <4>1 DEF FollowUpsKnowTheTitle
    <3>2. QED
      BY <1>0, <2>2, <3>1
  <2>3. ASSUME NEW e \in Chats, NEW l \in chat'[e].context, l.chat # None, NEW t \in ThreadId,
               t = chat'[e].thread, threads'[t] # None, threads'[t].title = l.chat
        PROVE  chat'[e].title # None
    <3>1. l \in chat[e].context /\ t = chat[e].thread
      BY <1>0, <2>3
    <3>2. Exists(t) /\ threads'[t] = threads[t]
      BY <1>0, <2>3, <3>1 DEF Exists
    <3>3. chat[e].title # None /\ threads[t].title # None
      BY <2>3, <3>1, <3>2 DEF FollowUpsKnowTheTitle
    <3>4. QED
      BY <1>0, <2>3, <3>1, <3>3
  <2>4. QED
    BY <2>1, <2>2, <2>3 DEF FollowUpsKnowTheTitle, Exists
<1>a. ASSUME NEW t \in ThreadId, NEW u \in Users, NEW title \in Titles,
             InsertThread(t, u, title)
      PROVE  /\ threads'[t] = [user |-> u, title |-> title, conv |-> t]
             /\ \A e \in Chats : chat[e].thread # t
             /\ \A s \in ThreadId \ {t} : threads'[s] = threads[s]
  <2>1. /\ t = created + 1 /\ created \in Nat
        /\ threads'[t] = [user |-> u, title |-> title, conv |-> t]
        /\ \A s \in ThreadId \ {t} : threads'[s] = threads[s]
    BY <1>a, FreshThread
  <2>2. ASSUME NEW e \in Chats, chat[e].thread = t PROVE FALSE
    <3>1. t # None
      BY NoneAssumption
    <3>2. t <= created
      BY <2>2, <3>1 DEF IdsNameConversations
    <3>3. QED
      BY <2>1, <3>2
  <2>3. QED
    BY <2>1, <2>2
<1>1. ASSUME NEW c \in Chats, Arrive(c) PROVE FollowUpsKnowTheTitle'
  BY <1>0, <1>1 DEF Arrive, TypeOK, ChatRequest, Exists, db
<1>2. ASSUME NEW c \in Chats, Refuse(c) PROVE FollowUpsKnowTheTitle'
  BY <1>0, <1>2 DEF Refuse, TypeOK, ChatRequest, Exists, Reply, Ended, Bare, db
<1>b. ASSUME NEW c \in Chats, chat[c].pc = "authed", NEW t \in ThreadId, Hold(c, t),
             UNCHANGED threads
      PROVE  FollowUpsKnowTheTitle'
  <2>1. chat[c].context = {}
    BY <1>b DEF NoContextYet
  <2>2. /\ chat'[c].context = {} /\ chat'[c].pc = "resolved"
        /\ chat'[c].title = threads'[chat'[c].thread].title
        /\ \A e \in Chats \ {c} : chat'[e] = chat[e]
    BY <1>b, <2>1 DEF Hold, TypeOK, ChatRequest
  <2>3. QED
    BY <1>0, <1>b, <2>2 DEF Exists
<1>3. ASSUME NEW c \in Chats, ResolveGiven(c) PROVE FollowUpsKnowTheTitle'
  <2>1. CASE GetThread(chat[c].target, chat[c].user)
    BY <1>b, <1>3, <2>1 DEF ResolveGiven, GetThread, Exists, db
  <2>2. CASE ~ GetThread(chat[c].target, chat[c].user)
    BY <1>0, <1>3, <2>2 DEF ResolveGiven, Reply, Ended, Bare, TypeOK, ChatRequest, Exists, db
  <2>3. QED
    BY <2>1, <2>2
<1>4. ASSUME NEW c \in Chats, ResolveDefault(c) PROVE FollowUpsKnowTheTitle'
  <2>0. UNCHANGED threads /\ chat[c].pc = "authed"
    BY <1>4, DefaultQuery
  <2>1. CASE chat' = [chat EXCEPT ![c].pc = "creating"]
    BY <1>0, <2>0, <2>1 DEF TypeOK, ChatRequest, Exists
  <2>2. QED
    BY <1>4, <1>b, <2>0, <2>1, DefaultQuery
<1>5. ASSUME NEW c \in Chats, CreateDefault(c) PROVE FollowUpsKnowTheTitle'
  <2>0. chat[c].pc = "creating"
    BY <1>5, DefaultInsert
  <2>1. CASE Reply(c, 500) /\ UNCHANGED <<threads, logs, created>>
    BY <1>0, <2>0, <2>1 DEF Reply, Ended, Bare, TypeOK, ChatRequest, Exists
  <2>2. ASSUME NEW t \in ThreadId, chat[c].user \in Users,
               InsertThread(t, chat[c].user, DefaultTitle),
               chat' = [chat EXCEPT ![c].pc = "resolved", ![c].thread = t,
                                    ![c].conv = created + 1, ![c].title = DefaultTitle]
        PROVE  FollowUpsKnowTheTitle'
    <3>0. DefaultTitle \in Titles
      BY DEF Titles
    <3>1. /\ threads'[t].title = DefaultTitle /\ \A e \in Chats : chat[e].thread # t
          /\ \A s \in ThreadId \ {t} : threads'[s] = threads[s]
      <4>1. threads'[t] = [user |-> chat[c].user, title |-> DefaultTitle, conv |-> t]
        BY <1>a, <2>2, <3>0
      <4>2. QED
        BY <1>a, <2>2, <3>0, <4>1
    <3>2. chat[c].context = {}
      BY <2>0 DEF NoContextYet
    <3>3. /\ chat'[c].thread = t /\ chat'[c].title = DefaultTitle /\ chat'[c].context = {}
          /\ \A e \in Chats \ {c} : chat'[e] = chat[e]
      BY <2>2, <3>2 DEF TypeOK, ChatRequest
    <3>4. QED
      BY <1>0, <2>0, <3>1, <3>3 DEF Exists
  <2>3. QED
    BY <1>5, <2>1, <2>2, DefaultInsert
<1>6. ASSUME NEW c \in Chats, LoadContext(c) PROVE FollowUpsKnowTheTitle'
  <2>1. /\ chat[c].pc = "resolved" /\ chat'[c].pc = "awaiting" /\ UNCHANGED <<threads, logs>>
        /\ chat'[c].thread = chat[c].thread /\ chat'[c].title = chat[c].title
        /\ chat'[c].context \subseteq logs
        /\ \A e \in Chats \ {c} : chat'[e] = chat[e]
    BY <1>6 DEF LoadContext, SuccessfulContext, TypeOK, ChatRequest, db
  <2>2. ASSUME NEW l \in logs, l.chat # None PROVE chat[l.chat].pc = "done"
    <3>1. l.chat \in Chats /\ chat[l.chat].pc \in {"saved", "done"}
      BY <2>2 DEF RecordsFollowRequests, TypeOK, Log
    <3>2. chat[l.chat].pc # "saved"
      BY <2>1, <3>1 DEF DefaultIsDecidedAlone, HoldsLoop
    <3>3. QED
      BY <3>1, <3>2
  <2>3. ASSUME NEW e \in Chats, NEW l \in chat'[e].context, l.chat # None
        PROVE  /\ l.chat \in Chats \ {c} /\ l.chat # e
               /\ chat[l.chat].pc = "done"
    <3>1. CASE e = c
      BY <2>1, <2>2, <2>3, <3>1 DEF TypeOK, Log
    <3>2. CASE e # c
      BY <2>1, <2>3, <3>2 DEF FollowUpsKnowTheTitle, TypeOK, ChatRequest, Log
    <3>3. QED
      BY <3>1, <3>2
  <2>4. ASSUME NEW e \in Chats, chat'[e].pc = "resolved", threads'[chat'[e].thread] # None,
               chat'[e].thread \in ThreadId
        PROVE  chat'[e].title = threads'[chat'[e].thread].title
    BY <2>1, <2>4 DEF FollowUpsKnowTheTitle, Exists
  <2>5. ASSUME NEW e \in Chats, NEW l \in chat'[e].context, l.chat # None,
               chat'[e].thread \in ThreadId, threads'[chat'[e].thread] # None,
               threads'[chat'[e].thread].title = l.chat
        PROVE  chat'[e].title # None
    BY <2>1, <2>5 DEF FollowUpsKnowTheTitle, Exists
  <2>6. \A e \in Chats : \A l \in chat'[e].context :
           l.chat # None => l.chat # e /\ chat'[l.chat].pc = "done"
    BY <2>1, <2>3
  <2>7. QED
    BY <2>4, <2>5, <2>6 DEF FollowUpsKnowTheTitle, Exists
<1>7. ASSUME NEW c \in Chats, NEW o \in {"success", "error", "timeout"}, Resume(c, o)
      PROVE  FollowUpsKnowTheTitle'
  BY <1>0, <1>7 DEF Resume, TypeOK, ChatRequest, Exists, db
<1>8. ASSUME NEW c \in Chats, Cancel(c) \/ AiRaises(c) PROVE FollowUpsKnowTheTitle'
  BY <1>0, <1>8 DEF Cancel, AiRaises, TypeOK, ChatRequest, Exists, Reply, Ended, Bare, db
<1>9. ASSUME NEW c \in Chats, Save(c) PROVE FollowUpsKnowTheTitle'
  BY <1>0, <1>9 DEF Save, TypeOK, ChatRequest, Exists
<1>10. ASSUME NEW c \in Chats, SaveFails(c) PROVE FollowUpsKnowTheTitle'
  <2>1. CASE Exists(chat[c].thread)
    BY <1>0, <1>10, <2>1 DEF SaveFails, TypeOK, ChatRequest, Exists, db
  <2>2. CASE ~ Exists(chat[c].thread)
    BY <1>0, <1>10, <2>2 DEF SaveFails, Reply, Ended, Bare, TypeOK, ChatRequest, Exists, db
  <2>3. QED
    BY <2>1, <2>2
<1>11. ASSUME NEW c \in Chats, Touch(c) PROVE FollowUpsKnowTheTitle'
  <2>0. /\ chat[c].pc = "saved"
        /\ chat'[c].pc = "done" /\ chat'[c].context = {}
        /\ \A e \in Chats \ {c} : chat'[e] = chat[e]
    BY <1>11 DEF Touch, Reply, Ended, Bare, TypeOK
  <2>1. CASE UNCHANGED threads
    BY <1>0, <2>0, <2>1 DEF Exists
  <2>2. CASE Exists(chat[c].thread) /\ threads' = [threads EXCEPT ![chat[c].thread].title = c]
    <3>1. PICK t \in ThreadId : t = chat[c].thread /\ threads[t] \in Thread
      BY <2>2 DEF Exists, TypeOK
    <3>2. /\ threads'[t].title = c
          /\ \A s \in ThreadId \ {t} : threads'[s] = threads[s]
      BY <2>2, <3>1 DEF TypeOK, Thread
    <3>3. \A e \in Chats : chat'[e].pc # "resolved"
      BY <2>0 DEF DefaultIsDecidedAlone, HoldsLoop
    <3>4. ASSUME NEW e \in Chats, NEW l \in chat'[e].context, l.chat # None
          PROVE  /\ e # c /\ l \in chat[e].context
                 /\ l.chat # e /\ l.chat \in Chats \ {c} /\ chat[l.chat].pc = "done"
      BY <2>0, <3>4 DEF FollowUpsKnowTheTitle, TypeOK, ChatRequest, Log
    <3>5. ASSUME NEW e \in Chats, NEW l \in chat'[e].context, l.chat # None, NEW s \in ThreadId,
                 s = chat'[e].thread, threads'[s] # None, threads'[s].title = l.chat
          PROVE  chat'[e].title # None
      <4>1. s # t /\ chat'[e] = chat[e] /\ l \in chat[e].context
        BY <2>0, <3>2, <3>4, <3>5
      <4>2. Exists(s) /\ threads[s].title = l.chat
        BY <3>2, <3>5, <4>1 DEF Exists
      <4>3. QED
        BY <3>5, <4>1, <4>2 DEF FollowUpsKnowTheTitle
    <3>6. \A e \in Chats : \A l \in chat'[e].context :
             l.chat # None => l.chat # e /\ chat'[l.chat].pc = "done"
      BY <2>0, <3>4
    <3>7. QED
      BY <3>3, <3>5, <3>6 DEF FollowUpsKnowTheTitle, Exists
  <2>3. QED
    BY <1>11, <2>1, <2>2 DEF Touch
<1>12. ASSUME NEW c \in Chats, TouchFails(c) PROVE FollowUpsKnowTheTitle'
  BY <1>0, <1>12 DEF TouchFails, TypeOK, ChatRequest, Exists, Reply, Ended, Bare, db
<1>13. ASSUME NEW k \in Creators, CountThreads(k) PROVE FollowUpsKnowTheTitle'
  BY <1>0, <1>13 DEF CountThreads, TypeOK, ChatRequest, Exists, db
<1>14. ASSUME NEW k \in Creators, CreateThread(k) PROVE FollowUpsKnowTheTitle'
  <2>0. UNCHANGED chat
    BY <1>14 DEF CreateThread
  <2>1. CASE UNCHANGED threads
    BY <1>0, <2>0, <2>1 DEF Exists
  <2>2. ASSUME NEW t \in ThreadId, NEW v \in Users, InsertThread(t, v, None)
        PROVE  FollowUpsKnowTheTitle'
    <3>1. /\ \A e \in Chats : chat[e].thread # t
          /\ \A s \in ThreadId \ {t} : threads'[s] = threads[s]
      BY <1>a, <2>2 DEF Titles
    <3>2. QED
      BY <1>0, <2>0, <3>1 DEF Exists
  <2>3. QED
    BY <1>14, <2>1, <2>2 DEF CreateThread, TypeOK, db
<1>15. ASSUME NEW d \in Deleters, CheckOwner(d) PROVE FollowUpsKnowTheTitle'
  BY <1>0, <1>15 DEF CheckOwner, TypeOK, ChatRequest, Exists, db
<1>16. ASSUME NEW d \in Deleters, DeleteThread(d) PROVE FollowUpsKnowTheTitle'
  BY <1>0, <1>16 DEF DeleteThread, TypeOK, ChatRequest, Exists
<1>17. ASSUME NEW u \in Users, DeleteUser(u) PROVE FollowUpsKnowTheTitle'
  BY <1>0, <1>17 DEF DeleteUser, TypeOK, ChatRequest, Exists
<1>18. ASSUME Crash PROVE FollowUpsKnowTheTitle'
  <2>1. UNCHANGED threads /\ \A e \in Chats :
           \/ chat'[e].context = {} /\ chat'[e].pc = "done"
           \/ chat'[e] = chat[e]
    BY <1>18 DEF Crash, Ended, Bare, db
  <2>2. QED
    BY <1>0, <2>1 DEF Exists
<1>19. CASE UNCHANGED vars
  BY <1>0, <1>19 DEF vars, Exists
<1>20. QED
  BY <1>1, <1>2, <1>3, <1>4, <1>5, <1>6, <1>7, <1>8, <1>9, <1>10, <1>11, <1>12, <1>13,
     <1>14, <1>15, <1>16, <1>17, <1>18, <1>19 DEF Next, ChatNext, ChatStep, AiAnswers,
     AiFails, AiTimeout

\* A title is changed by overlapping questions only: the step that writes one belongs to
\* a question that did not know the title its thread has, so the question that gave it
\* is not in its prompt.
THEOREM FollowUpsKeepTheTitle ==
    ASSUME ~ RowidReuse
    PROVE  Spec => FollowUpKeepsTitle
<1>1. Init => FollowUpsKnowTheTitle
  <2> SUFFICES ASSUME Init, NEW c \in Chats
               PROVE  chat[c].context = {} /\ chat[c].pc = "idle"
    BY DEF FollowUpsKnowTheTitle
  <2>1. QED
    BY DEF Init, NewChat, Bare
<1>2. TypeOK /\ ConversationInv /\ DefaultIsDecidedAlone /\ ContextsInOrder
         /\ FollowUpsKnowTheTitle /\ [Next]_vars => FollowUpsKnowTheTitle'
  BY FollowUpsStep DEF ConversationInv, ContextsInOrder
<1>3. ASSUME TypeOK, IdsNameConversations, FollowUpsKnowTheTitle, Next,
             NEW c \in Chats, NEW t \in ThreadId, Exists(t),
             NEW l \in chat[c].context, l.chat # None, l.chat = threads[t].title
      PROVE  threads'[t] = None \/ threads'[t].title # c
  <2>0. threads[t].title # c /\ threads[t] \in Thread
    BY <1>3 DEF FollowUpsKnowTheTitle, TypeOK, Exists
  <2>1. ASSUME NEW v \in ThreadId, NEW u \in Users, NEW title \in Titles,
               InsertThread(v, u, title)
        PROVE  threads'[t] = threads[t]
    BY <1>3, <2>1, FreshThread
  <2>2. ASSUME NEW e \in Chats, ChatNext(e) PROVE threads'[t].title # c
    <3>1. CASE Touch(e)
      <4>1. CASE e = c
        <5>1. chat[c].thread = t => ~ NeedsTitle(c)
          BY <1>3 DEF FollowUpsKnowTheTitle, NeedsTitle
        <5>2. threads'[t] = threads[t]
          BY <1>3, <3>1, <4>1, <5>1 DEF Touch, TypeOK
        <5>3. QED
          BY <2>0, <5>2
      <4>2. CASE e # c
        <5>1. CASE Exists(chat[e].thread) /\ threads' = [threads EXCEPT ![chat[e].thread].title = e]
          <6>1. CASE chat[e].thread = t
            <7>1. threads' = [threads EXCEPT ![t].title = e]
              BY <5>1, <6>1
            <7>2. threads'[t].title = e
              BY <1>3, <2>0, <7>1 DEF TypeOK, Thread
            <7>3. QED
              BY <4>2, <7>2
          <6>2. CASE chat[e].thread # t
            BY <2>0, <5>1, <6>2 DEF TypeOK
          <6>3. QED
            BY <6>1, <6>2
        <5>2. CASE UNCHANGED threads
          BY <2>0, <5>2
        <5>3. QED
          BY <3>1, <5>1, <5>2 DEF Touch
      <4>3. QED
        BY <4>1, <4>2
    <3>2. CASE CreateDefault(e)
      BY <1>3, <2>0, <2>1, <3>2, DefaultInsert DEF Titles
    <3>3. CASE ~ Touch(e) /\ ~ CreateDefault(e)
      <4>1. UNCHANGED threads
        BY <2>2, <3>3
           DEF ChatNext, ChatStep, Arrive, Refuse, ResolveGiven, ResolveDefault, LoadContext,
               AiAnswers, AiFails, AiRaises, AiTimeout, Resume, Cancel, Save, SaveFails,
               TouchFails, db
      <4>2. QED
        BY <2>0, <4>1
    <3>4. QED
      BY <3>1, <3>2, <3>3
  <2>3. ASSUME NEW k \in Creators, CountThreads(k) \/ CreateThread(k)
        PROVE  threads'[t] = threads[t]
    BY <1>3, <2>1, <2>3 DEF CountThreads, CreateThread, Titles, TypeOK, db
  <2>4. ASSUME NEW d \in Deleters, CheckOwner(d) \/ DeleteThread(d)
        PROVE  threads'[t] \in {None, threads[t]}
    BY <1>3, <2>4 DEF CheckOwner, DeleteThread, TypeOK, db
  <2>5. ASSUME NEW u \in Users, DeleteUser(u) PROVE threads'[t] \in {None, threads[t]}
    BY <2>5 DEF DeleteUser
  <2>6. CASE Crash
    BY <2>0, <2>6 DEF Crash, db
  <2>7. QED
    BY <1>3, <2>0, <2>2, <2>3, <2>4, <2>5, <2>6 DEF Next
<1>4. TypeOK /\ ConversationInv /\ FollowUpsKnowTheTitle /\ [Next]_vars =>
        [\A c \in Chats, t \in ThreadId :
            Exists(t) /\ (\E l \in chat[c].context : l.chat # None /\ l.chat = threads[t].title)
               => threads'[t] = None \/ threads'[t].title # c]_vars
  BY <1>3 DEF ConversationInv
<1>5. QED
  BY <1>1, <1>2, <1>4, TypeCorrect, ConversationInvariant, DefaultThreadsInvariant,
     ContextsInvariant, PTL DEF Spec, FollowUpKeepsTitle

-----------------------------------------------------------------------------
(* The service implements ConversationStore.  The views are what the store's *)
(* variables are in a state of the service.                                  *)

OwnerView   == [v \in ThreadId |-> OwnerOf(v)]
RecordsView == {RecordOf(l) : l \in {m \in logs : m.chat # None}}
AskedView   == [c \in Chats |-> chat[c].conv]
ReplyView   == [c \in Chats |-> chat[c].code]

\* A chat that has not resolved its conversation has none.
LEMMA NotYetAskedStep ==
    ASSUME TypeOK, NotYetAsked, [Next]_vars
    PROVE  NotYetAsked'
<1>1. ASSUME NEW c \in Chats, Arrive(c) PROVE NotYetAsked'
  BY <1>1 DEF Arrive, NotYetAsked, TypeOK, ChatRequest
<1>2. ASSUME NEW c \in Chats, Refuse(c) PROVE NotYetAsked'
  BY <1>2 DEF Refuse, NotYetAsked, TypeOK, ChatRequest, Reply, Ended, Bare
<1>3. ASSUME NEW c \in Chats, ResolveGiven(c) PROVE NotYetAsked'
  BY <1>3 DEF ResolveGiven, NotYetAsked, TypeOK, ChatRequest, Reply, Ended, Bare, Hold
<1>4. ASSUME NEW c \in Chats, ResolveDefault(c) PROVE NotYetAsked'
  <2>0. chat[c].pc = "authed"
    BY <1>4, DefaultQuery
  <2>1. CASE chat' = [chat EXCEPT ![c].pc = "creating"]
    BY <2>0, <2>1 DEF NotYetAsked, TypeOK, ChatRequest
  <2>2. ASSUME NEW t \in ThreadId, Hold(c, t) PROVE NotYetAsked'
    BY <2>2 DEF NotYetAsked, Hold, TypeOK, ChatRequest
  <2>3. QED
    BY <1>4, <2>1, <2>2, DefaultQuery
<1>5. ASSUME NEW c \in Chats, CreateDefault(c) PROVE NotYetAsked'
  <2>1. CASE Reply(c, 500)
    BY <2>1 DEF NotYetAsked, TypeOK, ChatRequest, Reply, Ended, Bare
  <2>2. ASSUME NEW t \in ThreadId,
               chat' = [chat EXCEPT ![c].pc = "resolved", ![c].thread = t,
                                    ![c].conv = created + 1, ![c].title = DefaultTitle]
        PROVE  NotYetAsked'
    BY <2>2 DEF NotYetAsked, TypeOK, ChatRequest
  <2>3. QED
    BY <1>5, <2>1, <2>2, DefaultInsert
<1>6. ASSUME NEW c \in Chats, LoadContext(c) PROVE NotYetAsked'
  BY <1>6 DEF LoadContext, NotYetAsked, TypeOK, ChatRequest
<1>7. ASSUME NEW c \in Chats, NEW o \in {"success", "error", "timeout"}, Resume(c, o)
      PROVE  NotYetAsked'
  BY <1>7 DEF Resume, NotYetAsked, TypeOK, ChatRequest
<1>8. ASSUME NEW c \in Chats, Cancel(c) \/ AiRaises(c) PROVE NotYetAsked'
  BY <1>8 DEF Cancel, AiRaises, NotYetAsked, TypeOK, ChatRequest, Reply, Ended, Bare
<1>9. ASSUME NEW c \in Chats, Save(c) PROVE NotYetAsked'
  BY <1>9 DEF Save, NotYetAsked, TypeOK, ChatRequest
<1>10. ASSUME NEW c \in Chats, SaveFails(c) PROVE NotYetAsked'
  BY <1>10 DEF SaveFails, NotYetAsked, TypeOK, ChatRequest, Reply, Ended, Bare
<1>11. ASSUME NEW c \in Chats, Touch(c) PROVE NotYetAsked'
  BY <1>11 DEF Touch, NotYetAsked, TypeOK, ChatRequest, Reply, Ended, Bare
<1>12. ASSUME NEW c \in Chats, TouchFails(c) PROVE NotYetAsked'
  BY <1>12 DEF TouchFails, NotYetAsked, TypeOK, ChatRequest, Reply, Ended, Bare
<1>13. ASSUME NEW k \in Creators, CountThreads(k) PROVE NotYetAsked'
  BY <1>13 DEF CountThreads, NotYetAsked, TypeOK, ChatRequest
<1>14. ASSUME NEW k \in Creators, CreateThread(k) PROVE NotYetAsked'
  BY <1>14 DEF CreateThread, NotYetAsked, TypeOK, ChatRequest
<1>15. ASSUME NEW d \in Deleters, CheckOwner(d) PROVE NotYetAsked'
  BY <1>15 DEF CheckOwner, NotYetAsked, TypeOK, ChatRequest
<1>16. ASSUME NEW d \in Deleters, DeleteThread(d) PROVE NotYetAsked'
  BY <1>16 DEF DeleteThread, NotYetAsked, TypeOK, ChatRequest
<1>17. ASSUME NEW u \in Users, DeleteUser(u) PROVE NotYetAsked'
  BY <1>17 DEF DeleteUser, NotYetAsked, TypeOK, ChatRequest
<1>18. ASSUME Crash PROVE NotYetAsked'
  BY <1>18 DEF Crash, NotYetAsked, TypeOK, ChatRequest, Ended, Bare
<1>19. CASE UNCHANGED vars
  BY <1>19 DEF vars, NotYetAsked
<1>20. QED
  BY <1>1, <1>2, <1>3, <1>4, <1>5, <1>6, <1>7, <1>8, <1>9, <1>10, <1>11, <1>12, <1>13,
     <1>14, <1>15, <1>16, <1>17, <1>18, <1>19 DEF Next, ChatNext, ChatStep, AiAnswers,
     AiFails, AiTimeout

\* Where ids are not used again, a conversation has the id of its thread, and so the
\* owner in its row.
LEMMA OwnerIsOfTheThread ==
    TypeOK /\ IdsNameConversations =>
        /\ OwnerView \in [ThreadId -> Users \cup {None}]
        /\ \A v \in ThreadId :
              OwnerView[v] = IF threads[v] = None THEN None ELSE threads[v].user
<1> SUFFICES ASSUME TypeOK, IdsNameConversations, NEW v \in ThreadId
             PROVE  OwnerOf(v) = IF threads[v] = None THEN None ELSE threads[v].user
  BY DEF OwnerView, TypeOK, Thread
<1>1. CASE threads[v] = None
  BY <1>1 DEF OwnerOf, Exists, IdsNameConversations
<1>2. CASE threads[v] # None
  <2>1. \A t \in ThreadId : Exists(t) /\ threads[t].conv = v <=> t = v
    BY <1>2 DEF Exists, IdsNameConversations
  <2>2. OwnerOf(v) = threads[v].user
    BY <2>1 DEF OwnerOf
  <2>3. QED
    BY <1>2, <2>2
<1>3. QED
  BY <1>1, <1>2

\* The same of the state after a step.
LEMMA OwnerIsOfTheThreadNext ==
    (TypeOK /\ IdsNameConversations =>
        /\ OwnerView \in [ThreadId -> Users \cup {None}]
        /\ \A v \in ThreadId :
              OwnerView[v] = IF threads[v] = None THEN None ELSE threads[v].user)'
BY OwnerIsOfTheThread, PTL

\* A reply of the service is one of the store.
LEMMA StoreReplies ==
    ASSUME NEW c \in Chats, NEW code \in ChatCode \ {None}, ReplyView[c] = None,
           Store!Truthful(c, code), ReplyView' = [ReplyView EXCEPT ![c] = code],
           UNCHANGED <<OwnerView, created, RecordsView, AskedView>>
    PROVE  Store!Next
<1>1. Store!Reply(c)
  BY DEF Store!Reply, OwnerView, RecordsView, AskedView, ReplyView
<1>2. QED
  BY <1>1 DEF Store!Next

\* So is what the service does when it opens a conversation, ...
LEMMA StoreOpens ==
    ASSUME NEW v \in ThreadId, NEW u \in Users, v = created + 1, created' = created + 1,
           created \in Nat,
           OwnerView' = [OwnerView EXCEPT ![v] = u], UNCHANGED RecordsView,
           \/ UNCHANGED <<AskedView, ReplyView>>
           \/ \E c \in Chats : /\ AskedView[c] = None /\ ReplyView[c] = None
                               /\ AskedView' = [AskedView EXCEPT ![c] = v]
                               /\ UNCHANGED ReplyView
    PROVE  Store!Next
<1>1. v \notin 1 .. created /\ (1 .. created)' = (1 .. created) \cup {v}
  OBVIOUS
<1>2. Store!Open(v, u)
  BY <1>1 DEF Store!Open, OwnerView
<1>3. CASE UNCHANGED <<AskedView, ReplyView>>
  <2>1. Store!OpenOne
    BY <1>2, <1>3 DEF Store!OpenOne, RecordsView, AskedView, ReplyView
  <2>2. QED
    BY <2>1 DEF Store!Next
<1>4. ASSUME NEW c \in Chats, AskedView[c] = None, ReplyView[c] = None,
             AskedView' = [AskedView EXCEPT ![c] = v], UNCHANGED ReplyView
      PROVE  Store!Next
  <2>1. Store!Ask(c, v)
    BY <1>4 DEF Store!Ask, AskedView, ReplyView
  <2>2. Store!AskInNew(c)
    BY <1>2, <1>4, <2>1 DEF Store!AskInNew, RecordsView, ReplyView
  <2>3. QED
    BY <2>2 DEF Store!Next
<1>5. QED
  BY <1>3, <1>4

\* ... when it admits a question to an open one, ...
LEMMA StoreAsks ==
    ASSUME NEW c \in Chats, NEW v \in ThreadId, OwnerView[v] # None,
           AskedView[c] = None, ReplyView[c] = None,
           AskedView' = [AskedView EXCEPT ![c] = v],
           UNCHANGED <<OwnerView, created, RecordsView, ReplyView>>
    PROVE  Store!Next
<1>1. Store!Ask(c, v) /\ Store!IsOpen(v)
  BY DEF Store!Ask, Store!IsOpen, AskedView, ReplyView, OwnerView
<1>2. Store!AskInOpen(c)
  BY <1>1 DEF Store!AskInOpen, OwnerView, RecordsView, ReplyView
<1>3. QED
  BY <1>2 DEF Store!Next

\* ... when it records an answer, ...
LEMMA StoreRecords ==
    ASSUME NEW c \in Chats, NEW status \in {"success", "ai_error"},
           ReplyView[c] = None, AskedView[c] \in ThreadId, OwnerView[AskedView[c]] # None,
           \A r \in RecordsView : r.chat # c,
           RecordsView' = RecordsView \cup
               {[chat |-> c, conv |-> AskedView[c], status |-> status]},
           UNCHANGED <<OwnerView, created, AskedView, ReplyView>>
    PROVE  Store!Next
<1>1. Store!Mine(c) = {} /\ Store!IsOpen(AskedView[c])
  BY DEF Store!Mine, Store!IsOpen, RecordsView, OwnerView
<1>2. Store!Record(c)
  BY <1>1 DEF Store!Record, OwnerView, RecordsView, AskedView, ReplyView
<1>3. QED
  BY <1>2 DEF Store!Next

\* ... and when it erases one, or those of a user.
LEMMA StoreErases ==
    ASSUME NEW V,
           \/ \E v \in ThreadId : OwnerView[v] # None /\ V = {v}
           \/ \E u \in Users : V = {v \in ThreadId : OwnerView[v] = u},
           OwnerView' = [v \in ThreadId |-> IF v \in V THEN None ELSE OwnerView[v]],
           RecordsView' = {r \in RecordsView : r.conv \notin V},
           UNCHANGED <<created, AskedView, ReplyView>>
    PROVE  Store!Next
<1>1. Store!Erase(V)
  BY DEF Store!Erase, OwnerView, RecordsView, AskedView, ReplyView
<1>2. ASSUME NEW v \in ThreadId, OwnerView[v] # None, V = {v} PROVE Store!EraseOne
  <2>1. Store!IsOpen(v)
    BY <1>2 DEF Store!IsOpen, OwnerView
  <2>2. Store!Erase({v})
    BY <1>1, <1>2
  <2>3. QED
    BY <2>1, <2>2 DEF Store!EraseOne
<1>3. ASSUME NEW u \in Users, V = {v \in ThreadId : OwnerView[v] = u} PROVE Store!EraseAll
  <2>1. Store!Erase({v \in ThreadId : OwnerView[v] = u})
    BY <1>3 DEF Store!Erase, OwnerView, RecordsView, AskedView, ReplyView
  <2>2. QED
    BY <2>1 DEF Store!EraseAll, OwnerView
<1>4. QED
  BY <1>2, <1>3 DEF Store!Next


\* What the store may reply, in the service's terms.
LEMMA RepliesAsTheStore ==
    ASSUME TypeOK, IdsNameConversations, NEW c \in Chats, NEW code \in ChatCode \ {None},
           Reply(c, code), chat[c].code = None, OwnerView' = OwnerView,
           UNCHANGED <<logs, created>>,
           code \in {200, 201, 502, 504} => chat[c].conv # None,
           code \in {404, 429} => chat[c].conv = None,
           code \in {200, 500} => \A l \in logs : l.chat # c,
           code = 201 /\ Exists(chat[c].conv) =>
               \E l \in logs : l.chat = c /\ l.status = "success",
           code \in {502, 504} => \A l \in logs : l.chat = c => l.status = "ai_error"
    PROVE  Store!Next
<1>1. /\ ReplyView[c] = None /\ AskedView[c] = chat[c].conv
      /\ ReplyView' = [ReplyView EXCEPT ![c] = code] /\ AskedView' = AskedView
  <2>1. /\ chat'[c].code = code /\ chat'[c].conv = chat[c].conv
        /\ \A e \in Chats \ {c} : chat'[e] = chat[e]
    BY DEF Reply, Ended, Bare, TypeOK
  <2>2. \A e \in Chats : /\ chat'[e].code = IF e = c THEN code ELSE chat[e].code
                         /\ chat'[e].conv = chat[e].conv
    BY <2>1
  <2>3. AskedView' = AskedView
    BY <2>2 DEF AskedView
  <2>4. ReplyView' = [ReplyView EXCEPT ![c] = code]
    <3>1. ReplyView' = [e \in Chats |-> IF e = c THEN code ELSE chat[e].code]
      BY <2>2 DEF ReplyView
    <3>2. QED
      BY <3>1, ZenonT(60) DEF ReplyView
  <2>5. QED
    BY <2>3, <2>4 DEF ReplyView, AskedView
<1>2. RecordsView' = RecordsView
  BY DEF RecordsView
<1>3. Store!IsOpen(chat[c].conv) <=> Exists(chat[c].conv)
  <2>1. \A v \in ThreadId : OwnerView[v] # None <=> Exists(v)
    BY OwnerIsOfTheThread, NoneAssumption DEF TypeOK, Thread, Exists
  <2>2. QED
    BY <2>1 DEF Store!IsOpen, OwnerView, Exists
<1>4. Store!Mine(c) = {r \in RecordsView : r.chat = c}
  BY DEF Store!Mine, RecordsView
<1>5. (\A l \in logs : l.chat # c) => Store!Mine(c) = {}
  BY <1>4 DEF RecordsView, RecordOf
<1>6. ASSUME NEW l \in logs, l.chat = c, l.status = "success"
      PROVE  \E r \in Store!Mine(c) : r.status = "success"
  <2>1. RecordOf(l) \in RecordsView /\ RecordOf(l).chat = c /\ RecordOf(l).status = "success"
    BY <1>6, NoneAssumption DEF RecordsView, RecordOf
  <2>2. QED
    BY <1>4, <2>1
<1>7. (\A l \in logs : l.chat = c => l.status = "ai_error")
         => \A r \in Store!Mine(c) : r.status = "ai_error"
  BY <1>4 DEF RecordsView, RecordOf
<1>8. Store!Truthful(c, code)
  BY <1>1, <1>3, <1>5, <1>6, <1>7 DEF Store!Truthful, AskedView
<1>9. QED
  BY <1>1, <1>2, <1>8, StoreReplies, ZenonT(60)


\* The owners stay what they are when no row appears, goes or changes its user, ...
LEMMA OwnersKept ==
    ASSUME TypeOK, IdsNameConversations, TypeOK', IdsNameConversations',
           \A v \in ThreadId :
              \/ threads'[v] = threads[v]
              \/ threads[v] # None /\ threads'[v] # None /\ threads'[v].user = threads[v].user
    PROVE  OwnerView' = OwnerView
<1>1. /\ OwnerView \in [ThreadId -> Users \cup {None}]
      /\ OwnerView' \in [ThreadId -> Users \cup {None}]
      /\ \A v \in ThreadId : OwnerView[v] = IF threads[v] = None THEN None ELSE threads[v].user
      /\ \A v \in ThreadId : OwnerView'[v] = IF threads'[v] = None THEN None ELSE threads'[v].user
  BY OwnerIsOfTheThread, OwnerIsOfTheThreadNext
<1>2. \A v \in ThreadId : OwnerView'[v] = OwnerView[v]
  BY <1>1
<1>3. QED
  BY <1>1, <1>2

\* ... and the other views when one chat moves without being admitted or replied to.
LEMMA ChatViews ==
    ASSUME NEW c \in Chats, \A e \in Chats \ {c} : chat'[e] = chat[e]
    PROVE  /\ chat'[c].conv = chat[c].conv => AskedView' = AskedView
           /\ chat'[c].code = chat[c].code => ReplyView' = ReplyView
           /\ AskedView' = [AskedView EXCEPT ![c] = chat'[c].conv]
<1>1. ASSUME chat'[c].conv = chat[c].conv PROVE AskedView' = AskedView
  BY <1>1 DEF AskedView
<1>2. ASSUME chat'[c].code = chat[c].code PROVE ReplyView' = ReplyView
  BY <1>2 DEF ReplyView
<1>3. AskedView' = [AskedView EXCEPT ![c] = chat'[c].conv]
  <2>1. AskedView' = [e \in Chats |-> IF e = c THEN chat'[c].conv ELSE chat[e].conv]
    BY DEF AskedView
  <2>2. QED
    BY <2>1 DEF AskedView
<1>4. QED
  BY <1>1, <1>2, <1>3

\* What the places of a chat say of its record and its reply.
LEMMA PlacesTell ==
    ASSUME TypeOK, ConversationInv, NotYetAsked, NEW c \in Chats
    PROVE  /\ chat[c].pc \in {"idle", "authed", "creating"} => chat[c].conv = None
           /\ chat[c].pc # "done" => chat[c].code = None
           /\ chat[c].pc \notin {"saved", "done"} => \A l \in logs : l.chat # c
           /\ chat[c].pc \in {"resolved", "awaiting", "answered", "saved"} =>
                 /\ chat[c].thread \in ThreadId /\ chat[c].conv = chat[c].thread
                 /\ chat[c].conv # None
           /\ chat[c].pc = "saved" => chat[c].outcome \in {"success", "error", "timeout"}
<1>1. chat[c].pc \in {"idle", "authed", "creating"} => chat[c].conv = None
  BY DEF NotYetAsked
<1>2. chat[c].pc # "done" => chat[c].code = None
  BY DEF ConversationInv, StoredIsThere
<1>3. chat[c].pc \notin {"saved", "done"} => \A l \in logs : l.chat # c
  BY NoneAssumption DEF ConversationInv, RecordsFollowRequests
<1>4. chat[c].pc \in {"resolved", "awaiting", "answered", "saved"} =>
         /\ chat[c].thread \in ThreadId /\ chat[c].conv = chat[c].thread
         /\ chat[c].conv # None
  BY NoneAssumption
     DEF ConversationInv, HeldThreadIsOwn, IdsNameConversations, TypeOK, ChatRequest
<1>5. chat[c].pc = "saved" => chat[c].outcome \in {"success", "error", "timeout"}
  BY DEF ConversationInv, StoredIsThere, TypeOK, ChatRequest
<1>6. QED
  BY <1>1, <1>2, <1>3, <1>4, <1>5

\* The last reply of a chat, after its record was stored or not.
LEMMA FinalReply ==
    ASSUME TypeOK, ConversationInv, NotYetAsked, NEW c \in Chats, chat[c].pc = "saved",
           Reply(c, FinalCode(c)), OwnerView' = OwnerView, UNCHANGED <<logs, created>>
    PROVE  Store!Next
<1>1. /\ chat[c].code = None /\ chat[c].conv # None
      /\ chat[c].outcome \in {"success", "error", "timeout"}
  BY PlacesTell
<1>2. \A l \in logs : l.chat = c => chat[c].stored /\ l.status = StatusOf(chat[c].outcome)
  BY NoneAssumption DEF ConversationInv, RecordsFollowRequests
<1>3. chat[c].stored /\ Exists(chat[c].conv) => \E l \in logs : l.chat = c
  BY DEF ConversationInv, StoredIsThere
<1>4. IdsNameConversations
  BY DEF ConversationInv
<1>5. CASE chat[c].outcome = "success"
  <2>1. FinalCode(c) = IF chat[c].stored THEN 201 ELSE 200
    BY <1>5 DEF FinalCode
  <2>2. \A l \in logs : l.chat = c => l.status = "success"
    BY <1>2, <1>5 DEF StatusOf
  <2>3. CASE chat[c].stored
    <3>1. Reply(c, 201) /\ 201 \in ChatCode \ {None}
      BY <2>1, <2>3, NoneAssumption DEF ChatCode
    <3>2. QED
      BY <1>1, <1>3, <1>4, <2>2, <2>3, <3>1, RepliesAsTheStore
  <2>4. CASE ~ chat[c].stored
    <3>1. Reply(c, 200) /\ 200 \in ChatCode \ {None}
      BY <2>1, <2>4, NoneAssumption DEF ChatCode
    <3>2. QED
      BY <1>1, <1>2, <1>4, <2>4, <3>1, RepliesAsTheStore
  <2>5. QED
    BY <2>3, <2>4
<1>6. CASE chat[c].outcome \in {"error", "timeout"}
  <2>1. \A l \in logs : l.chat = c => l.status = "ai_error"
    BY <1>2, <1>6 DEF StatusOf
  <2>2. PICK code \in {502, 504} : code = FinalCode(c)
    BY <1>6 DEF FinalCode
  <2>3. Reply(c, code) /\ code \in ChatCode \ {None}
    BY <2>2, NoneAssumption DEF ChatCode
  <2>4. QED
    BY <1>1, <1>4, <2>1, <2>2, <2>3, RepliesAsTheStore
<1>7. QED
  BY <1>1, <1>5, <1>6

\* Every step is a step of the store, or none of its concern.
LEMMA StoreStep ==
    ASSUME ~ RowidReuse, TypeOK, ConversationInv, NotYetAsked,
           TypeOK', IdsNameConversations', [Next]_vars
    PROVE  Store!Next \/ UNCHANGED Store!vars
<1> USE DEF db
<1>a. IdsNameConversations
  BY DEF ConversationInv
<1>b. ASSUME UNCHANGED <<threads, logs, created>>, NEW c \in Chats,
             \A e \in Chats \ {c} : chat'[e] = chat[e],
             chat'[c].conv = chat[c].conv, chat'[c].code = chat[c].code
      PROVE  UNCHANGED Store!vars
  <2>1. OwnerView' = OwnerView /\ RecordsView' = RecordsView
    BY <1>a, <1>b, OwnersKept DEF RecordsView
  <2>2. AskedView' = AskedView /\ ReplyView' = ReplyView
    BY <1>b, ChatViews
  <2>3. QED
    BY <1>b, <2>1, <2>2 DEF Store!vars, OwnerView, RecordsView, AskedView, ReplyView
<1>c. ASSUME UNCHANGED <<threads, logs, created, chat>> PROVE UNCHANGED Store!vars
  <2>1. OwnerView' = OwnerView
    BY <1>a, <1>c, OwnersKept
  <2>2. QED
    BY <1>c, <2>1 DEF Store!vars, OwnerView
<1>d. ASSUME NEW c \in Chats, chat[c].pc \in {"authed", "creating"}, Hold(c, chat'[c].thread),
             chat'[c].thread \in ThreadId, Exists(chat'[c].thread),
             UNCHANGED <<threads, logs, created>>
      PROVE  Store!Next
  <2>1. PICK t \in ThreadId : t = chat'[c].thread
    BY <1>d
  <2>2. /\ chat'[c].conv = t /\ chat'[c].code = chat[c].code
        /\ \A e \in Chats \ {c} : chat'[e] = chat[e]
    BY <1>a, <1>d, <2>1 DEF Hold, TypeOK, ChatRequest, IdsNameConversations
  <2>3. chat[c].conv = None /\ chat[c].code = None
    BY <1>d, PlacesTell
  <2>4. AskedView' = [AskedView EXCEPT ![c] = t] /\ ReplyView' = ReplyView
    BY <2>2, ChatViews
  <2>5. OwnerView' = OwnerView /\ RecordsView' = RecordsView
    BY <1>a, <1>d, OwnersKept DEF RecordsView
  <2>6. OwnerView[t] # None
    BY <1>a, <1>d, <2>1, OwnerIsOfTheThread, NoneAssumption DEF Exists, TypeOK, Thread
  <2>7. AskedView[c] = None /\ ReplyView[c] = None
    BY <2>3 DEF AskedView, ReplyView
  <2>8. QED
    BY <1>d, <2>4, <2>5, <2>6, <2>7, StoreAsks
<1>e. ASSUME NEW c \in Chats, chat[c].pc \notin {"saved", "done"}, NEW code \in {404, 429, 499, 500},
             Reply(c, code), UNCHANGED <<threads, logs, created>>,
             code \in {404, 429} => chat[c].conv = None
      PROVE  Store!Next
  <2>1. OwnerView' = OwnerView
    BY <1>a, <1>e, OwnersKept
  <2>2. chat[c].code = None /\ \A l \in logs : l.chat # c
    BY <1>e, PlacesTell
  <2>3. code \in ChatCode \ {None}
    BY <1>e, NoneAssumption DEF ChatCode, Lost
  <2>4. code \notin {200, 201, 502, 504}
    BY <1>e
  <2>5. QED
    BY <1>a, <1>e, <2>1, <2>2, <2>3, <2>4, RepliesAsTheStore
<1>f. \A v \in ThreadId : OwnerView[v] = IF threads[v] = None THEN None ELSE threads[v].user
  BY <1>a, OwnerIsOfTheThread
<1>g. /\ OwnerView' \in [ThreadId -> Users \cup {None}]
      /\ OwnerView \in [ThreadId -> Users \cup {None}]
      /\ \A v \in ThreadId : OwnerView'[v] = IF threads'[v] = None THEN None ELSE threads'[v].user
  BY <1>a, OwnerIsOfTheThread, OwnerIsOfTheThreadNext
<1>h. ASSUME NEW t \in ThreadId, NEW u \in Users, NEW title \in Titles, InsertThread(t, u, title)
      PROVE  /\ t = created + 1 /\ created' = created + 1 /\ created \in Nat
             /\ OwnerView' = [OwnerView EXCEPT ![t] = u]
  <2>1. /\ t = created + 1 /\ created' = created + 1 /\ created \in Nat
        /\ threads'[t] = [user |-> u, title |-> title, conv |-> t]
        /\ threads'[t] # None
        /\ \A s \in ThreadId \ {t} : threads'[s] = threads[s]
    BY <1>a, <1>h, FreshThread
  <2>2. \A v \in ThreadId : OwnerView'[v] = IF v = t THEN u ELSE OwnerView[v]
    BY <1>f, <1>g, <2>1
  <2>3. OwnerView' = [OwnerView EXCEPT ![t] = u]
    BY <1>g, <2>2
  <2>4. QED
    BY <2>1, <2>3
<1>1. ASSUME NEW c \in Chats, Arrive(c) PROVE Store!Next \/ UNCHANGED Store!vars
  <2>1. /\ UNCHANGED <<threads, logs, created>>
        /\ \A e \in Chats \ {c} : chat'[e] = chat[e]
        /\ chat'[c].conv = chat[c].conv /\ chat'[c].code = chat[c].code
    BY <1>1 DEF Arrive, TypeOK, ChatRequest
  <2>2. QED
    BY <1>b, <2>1
<1>2. ASSUME NEW c \in Chats, Refuse(c) PROVE Store!Next \/ UNCHANGED Store!vars
  <2>1. Reply(c, 429) /\ chat[c].pc = "authed" /\ UNCHANGED <<threads, logs, created>>
    BY <1>2 DEF Refuse
  <2>2. QED
    BY <1>e, <2>1, PlacesTell
<1>3. ASSUME NEW c \in Chats, ResolveGiven(c) PROVE Store!Next \/ UNCHANGED Store!vars
  <2>1. chat[c].pc = "authed" /\ UNCHANGED <<threads, logs, created>>
    BY <1>3 DEF ResolveGiven
  <2>2. CASE GetThread(chat[c].target, chat[c].user)
    <3>1. Hold(c, chat[c].target) /\ chat'[c].thread = chat[c].target
      BY <1>3, <2>2 DEF ResolveGiven, Hold, TypeOK, ChatRequest
    <3>2. chat[c].target \in ThreadId /\ Exists(chat[c].target)
      BY <2>2 DEF GetThread, Exists
    <3>3. Store!Next
      BY <1>d, <2>1, <3>1, <3>2
    <3>4. QED
      BY <3>3
  <2>3. CASE ~ GetThread(chat[c].target, chat[c].user)
    <3>1. Reply(c, 404)
      BY <1>3, <2>3 DEF ResolveGiven
    <3>2. QED
      BY <1>e, <2>1, <3>1, PlacesTell
  <2>4. QED
    BY <2>2, <2>3
<1>4. ASSUME NEW c \in Chats, ResolveDefault(c) PROVE Store!Next \/ UNCHANGED Store!vars
  <2>1. chat[c].pc = "authed" /\ UNCHANGED <<threads, logs, created>>
    BY <1>4, DefaultQuery
  <2>2. CASE chat' = [chat EXCEPT ![c].pc = "creating"]
    <3>1. /\ \A e \in Chats \ {c} : chat'[e] = chat[e]
          /\ chat'[c].conv = chat[c].conv /\ chat'[c].code = chat[c].code
      BY <2>2 DEF TypeOK, ChatRequest
    <3>2. QED
      BY <1>b, <2>1, <3>1
  <2>3. ASSUME NEW t \in ThreadId, threads[t] \in Thread, Hold(c, t) PROVE Store!Next
    <3>1. chat'[c].thread = t /\ Exists(t)
      BY <2>3, NoneAssumption DEF Hold, TypeOK, ChatRequest, Exists
    <3>2. QED
      BY <1>d, <2>1, <2>3, <3>1
  <2>4. QED
    BY <1>4, <2>2, <2>3, DefaultQuery
<1>5. ASSUME NEW c \in Chats, CreateDefault(c) PROVE Store!Next \/ UNCHANGED Store!vars
  <2>0. chat[c].pc = "creating"
    BY <1>5, DefaultInsert
  <2>1. CASE Reply(c, 500) /\ UNCHANGED <<threads, logs, created>>
    <3>1. ~ Exists(chat[c].conv)
      BY <2>0, PlacesTell, NoneAssumption DEF Exists
    <3>2. QED
      BY <1>e, <2>0, <2>1, <3>1
  <2>2. ASSUME NEW t \in ThreadId, chat[c].user \in Users,
               InsertThread(t, chat[c].user, DefaultTitle),
               logs' = Adopted(chat[c].user, t),
               chat' = [chat EXCEPT ![c].pc = "resolved", ![c].thread = t,
                                    ![c].conv = created + 1, ![c].title = DefaultTitle]
        PROVE  Store!Next
    <3>1. /\ t = created + 1 /\ created' = created + 1 /\ created \in Nat
          /\ OwnerView' = [OwnerView EXCEPT ![t] = chat[c].user]
      BY <1>h, <2>2 DEF Titles
    <3>2. RecordsView' = RecordsView
      <4> DEFINE New(l) == IF l.user = chat[c].user /\ l.thread = None
                           THEN [l EXCEPT !.thread = t, !.conv = created + 1] ELSE l
      <4>1. \A l \in logs : /\ New(l).chat = l.chat
                            /\ l.chat # None => New(l) = l
        BY DEF TypeOK, Log, ConversationInv, RecordsFollowRequests
      <4>2. logs' = {New(l) : l \in logs}
        BY <2>2 DEF Adopted
      <4> HIDE DEF New
      <4>3. {m \in logs' : m.chat # None} = {m \in logs : m.chat # None}
        BY <4>1, <4>2
      <4>4. QED
        BY <4>3 DEF RecordsView
    <3>3. /\ \A e \in Chats \ {c} : chat'[e] = chat[e]
          /\ chat'[c].conv = t /\ chat'[c].code = chat[c].code
      BY <2>2, <3>1 DEF TypeOK, ChatRequest
    <3>4. AskedView' = [AskedView EXCEPT ![c] = t] /\ ReplyView' = ReplyView
      BY <3>3, ChatViews
    <3>5. AskedView[c] = None /\ ReplyView[c] = None
      BY <2>0, PlacesTell DEF AskedView, ReplyView
    <3>6. QED
      BY <2>2, <3>1, <3>2, <3>4, <3>5, StoreOpens
  <2>3. QED
    BY <1>5, <2>1, <2>2, DefaultInsert
<1>6. ASSUME NEW c \in Chats, LoadContext(c) PROVE Store!Next \/ UNCHANGED Store!vars
  <2>1. /\ UNCHANGED <<threads, logs, created>>
        /\ \A e \in Chats \ {c} : chat'[e] = chat[e]
        /\ chat'[c].conv = chat[c].conv /\ chat'[c].code = chat[c].code
    BY <1>6 DEF LoadContext, TypeOK, ChatRequest
  <2>2. QED
    BY <1>b, <2>1
<1>7. ASSUME NEW c \in Chats, NEW o \in {"success", "error", "timeout"}, Resume(c, o)
      PROVE  Store!Next \/ UNCHANGED Store!vars
  <2>1. /\ UNCHANGED <<threads, logs, created>>
        /\ \A e \in Chats \ {c} : chat'[e] = chat[e]
        /\ chat'[c].conv = chat[c].conv /\ chat'[c].code = chat[c].code
    BY <1>7 DEF Resume, TypeOK, ChatRequest
  <2>2. QED
    BY <1>b, <2>1
<1>8. ASSUME NEW c \in Chats, Cancel(c) \/ AiRaises(c) PROVE Store!Next \/ UNCHANGED Store!vars
  <2>1. PICK code \in {499, 500} :
            Reply(c, code) /\ chat[c].pc = "awaiting" /\ UNCHANGED <<threads, logs, created>>
    BY <1>8 DEF Cancel, AiRaises, Lost
  <2>2. QED
    BY <1>e, <2>1
<1>9. ASSUME NEW c \in Chats, Save(c) PROVE Store!Next \/ UNCHANGED Store!vars
  <2> DEFINE new == [id |-> written + 1, chat |-> c, user |-> chat[c].user,
                     thread |-> chat[c].thread, conv |-> chat[c].conv,
                     status |-> StatusOf(chat[c].outcome)]
  <2>1. /\ chat[c].pc = "answered" /\ Exists(chat[c].thread)
        /\ UNCHANGED <<threads, created>> /\ logs' = logs \cup {new}
    BY <1>9 DEF Save, ForeignKeysHold
  <2>2. /\ \A e \in Chats \ {c} : chat'[e] = chat[e]
        /\ chat'[c].conv = chat[c].conv /\ chat'[c].code = chat[c].code
    BY <1>9 DEF Save, TypeOK, ChatRequest
  <2>3. /\ chat[c].code = None /\ chat[c].conv = chat[c].thread /\ chat[c].thread \in ThreadId
        /\ \A l \in logs : l.chat # c
    BY <2>1, PlacesTell
  <2>4. OwnerView' = OwnerView /\ AskedView' = AskedView /\ ReplyView' = ReplyView
    BY <1>a, <2>1, <2>2, OwnersKept, ChatViews
  <2>5. AskedView[c] = chat[c].conv /\ ReplyView[c] = None /\ AskedView[c] \in ThreadId
    BY <2>3 DEF AskedView, ReplyView
  <2>6. OwnerView[AskedView[c]] # None
    BY <1>f, <2>1, <2>3, <2>5, NoneAssumption DEF Exists, TypeOK, Thread
  <2>7. StatusOf(chat[c].outcome) \in {"success", "ai_error"}
    BY DEF StatusOf
  <2>8. \A r \in RecordsView : r.chat # c
    BY <2>3 DEF RecordsView, RecordOf
  <2>9. new.chat = c /\ RecordOf(new) =
           [chat |-> c, conv |-> AskedView[c], status |-> StatusOf(chat[c].outcome)]
    BY <2>5 DEF RecordOf
  <2> HIDE DEF new
  <2>10. {m \in logs' : m.chat # None} = {m \in logs : m.chat # None} \cup {new}
    BY <2>1, <2>9, NoneAssumption
  <2>11. RecordsView' = RecordsView \cup {RecordOf(new)}
    BY <2>10 DEF RecordsView
  <2>12. QED
    BY <2>1, <2>4, <2>5, <2>6, <2>7, <2>8, <2>9, <2>11, StoreRecords
<1>10. ASSUME NEW c \in Chats, SaveFails(c) PROVE Store!Next \/ UNCHANGED Store!vars
  <2>1. chat[c].pc = "answered" /\ UNCHANGED <<threads, logs, created>>
    BY <1>10 DEF SaveFails
  <2>2. CASE Exists(chat[c].thread)
    <3>1. /\ \A e \in Chats \ {c} : chat'[e] = chat[e]
          /\ chat'[c].conv = chat[c].conv /\ chat'[c].code = chat[c].code
      BY <1>10, <2>2 DEF SaveFails, TypeOK, ChatRequest
    <3>2. QED
      BY <1>b, <2>1, <3>1
  <2>3. CASE ~ Exists(chat[c].thread)
    <3>1. Reply(c, 500) /\ ~ Exists(chat[c].conv)
      BY <1>10, <2>1, <2>3, PlacesTell DEF SaveFails
    <3>2. QED
      BY <1>e, <2>1, <3>1
  <2>4. QED
    BY <2>2, <2>3
<1>11. ASSUME NEW c \in Chats, Touch(c) PROVE Store!Next \/ UNCHANGED Store!vars
  <2>1. /\ chat[c].pc = "saved" /\ Reply(c, FinalCode(c)) /\ UNCHANGED <<logs, created>>
        /\ \A s \in ThreadId :
              /\ Exists(s)' <=> Exists(s)
              /\ Exists(s) => threads'[s].user = threads[s].user
    BY <1>11, TouchKeepsThreads
  <2>2. OwnerView' = OwnerView
    BY <1>f, <1>g, <2>1 DEF Exists
  <2>3. QED
    BY <2>1, <2>2, FinalReply
<1>12. ASSUME NEW c \in Chats, TouchFails(c) PROVE Store!Next \/ UNCHANGED Store!vars
  <2>1. chat[c].pc = "saved" /\ Reply(c, FinalCode(c)) /\ UNCHANGED <<threads, logs, created>>
    BY <1>12 DEF TouchFails
  <2>2. OwnerView' = OwnerView
    BY <1>a, <2>1, OwnersKept
  <2>3. QED
    BY <2>1, <2>2, FinalReply
<1>13. ASSUME NEW k \in Creators, CountThreads(k) PROVE Store!Next \/ UNCHANGED Store!vars
  BY <1>c, <1>13 DEF CountThreads
<1>14. ASSUME NEW k \in Creators, CreateThread(k) PROVE Store!Next \/ UNCHANGED Store!vars
  <2>1. UNCHANGED <<logs, chat>>
    BY <1>14 DEF CreateThread
  <2>2. CASE UNCHANGED db
    BY <1>c, <2>1, <2>2
  <2>3. ASSUME NEW t \in ThreadId, NEW u \in Users, InsertThread(t, u, None) PROVE Store!Next
    <3>1. /\ t = created + 1 /\ created' = created + 1 /\ created \in Nat
          /\ OwnerView' = [OwnerView EXCEPT ![t] = u]
      BY <1>h, <2>3 DEF Titles
    <3>2. UNCHANGED <<RecordsView, AskedView, ReplyView>>
      BY <2>1 DEF RecordsView, AskedView, ReplyView
    <3>3. QED
      BY <2>3, <3>1, <3>2, StoreOpens
  <2>4. QED
    BY <1>14, <2>2, <2>3 DEF CreateThread, TypeOK
<1>15. ASSUME NEW d \in Deleters, CheckOwner(d) PROVE Store!Next \/ UNCHANGED Store!vars
  BY <1>c, <1>15 DEF CheckOwner
<1>16. ASSUME NEW d \in Deleters, DeleteThread(d) PROVE Store!Next \/ UNCHANGED Store!vars
  <2>1. /\ UNCHANGED <<created, chat>>
        /\ threads' = [threads EXCEPT ![deleter[d].thread] = None]
        /\ logs' = {l \in logs : l.thread # deleter[d].thread}
    BY <1>16 DEF DeleteThread
  <2>2. UNCHANGED <<AskedView, ReplyView>>
    BY <2>1 DEF AskedView, ReplyView
  <2>3. CASE Exists(deleter[d].thread)
    <3>1. PICK t \in ThreadId : t = deleter[d].thread /\ threads[t] # None
      BY <2>3 DEF Exists
    <3>2. OwnerView[t] # None
      BY <1>f, <3>1, NoneAssumption DEF TypeOK, Thread
    <3>3. \A v \in ThreadId : threads'[v] = IF v \in {t} THEN None ELSE threads[v]
      BY <2>1, <3>1 DEF TypeOK
    <3>4. \A v \in ThreadId : OwnerView'[v] = IF v \in {t} THEN None ELSE OwnerView[v]
      BY <1>f, <1>g, <3>3
    <3>5. OwnerView' = [v \in ThreadId |-> IF v \in {t} THEN None ELSE OwnerView[v]]
      BY <1>g, <3>4
    <3>6. \A l \in logs : l \in logs' <=> RecordOf(l).conv \notin {t}
      BY <1>a, <2>1, <3>1 DEF RecordOf, IdsNameConversations
    <3>7. RecordsView' = {r \in RecordsView : r.conv \notin {t}}
      <4>1. logs' \subseteq logs
        BY <2>1
      <4>2. QED
        BY <3>6, <4>1 DEF RecordsView
    <3>8. QED
      BY <2>1, <2>2, <3>2, <3>5, <3>7, StoreErases
  <2>4. CASE ~ Exists(deleter[d].thread)
    <3>1. threads' = threads
      BY <2>1, <2>4 DEF Exists, TypeOK
    <3>2. \A l \in logs : l.chat # None => l \in logs'
      BY <2>1, <2>4 DEF ConversationInv, RecordsFollowRequests, RecordsStayInConversation
    <3>3. {m \in logs' : m.chat # None} = {m \in logs : m.chat # None}
      BY <2>1, <3>2
    <3>4. OwnerView' = OwnerView /\ RecordsView' = RecordsView
      BY <1>a, <3>1, <3>3, OwnersKept DEF RecordsView
    <3>5. QED
      BY <2>1, <2>2, <3>4 DEF Store!vars, OwnerView, RecordsView, AskedView, ReplyView
  <2>5. QED
    BY <2>3, <2>4
<1>17. ASSUME NEW u \in Users, DeleteUser(u) PROVE Store!Next \/ UNCHANGED Store!vars
  <2> DEFINE V == {v \in ThreadId : OwnerView[v] = u}
  <2>1. /\ UNCHANGED <<created, chat>>
        /\ threads' = [t \in ThreadId |-> IF t \in ThreadsOf(u) THEN None ELSE threads[t]]
        /\ logs' = {l \in logs : l.user # u /\ l.thread \notin ThreadsOf(u)}
    BY <1>17 DEF DeleteUser
  <2>2. UNCHANGED <<AskedView, ReplyView>>
    BY <2>1 DEF AskedView, ReplyView
  <2>3. ThreadsOf(u) = V
    BY <1>f, NoneAssumption DEF ThreadsOf, Exists
  <2>4. PICK W : W = V
    OBVIOUS
  <2>5. \A v \in ThreadId : threads'[v] = IF v \in W THEN None ELSE threads[v]
    BY <2>1, <2>3, <2>4
  <2>6. \A v \in ThreadId : OwnerView'[v] = IF v \in W THEN None ELSE OwnerView[v]
    BY <1>f, <1>g, <2>5
  <2>7. OwnerView' = [v \in ThreadId |-> IF v \in W THEN None ELSE OwnerView[v]]
    BY <1>g, <2>6
  <2>8. \A l \in logs : l.chat # None => (l \in logs' <=> RecordOf(l).conv \notin W)
    <3>1. ASSUME NEW l \in logs, l.chat # None
          PROVE  l.conv = l.thread /\ (l.user = u => l.thread \in ThreadsOf(u))
      BY <1>a, <3>1 DEF IdsNameConversations, ConversationInv, RecordsFollowRequests,
         RecordsStayInConversation, ThreadsOf, Exists
    <3>2. QED
      BY <2>1, <2>3, <2>4, <3>1 DEF RecordOf
  <2> HIDE DEF V
  <2>9. RecordsView' = {r \in RecordsView : r.conv \notin W}
    <3>1. logs' \subseteq logs
      BY <2>1
    <3>2. QED
      BY <2>8, <3>1 DEF RecordsView
  <2>10. Store!Next
    BY <2>1, <2>2, <2>4, <2>7, <2>9, StoreErases DEF V
  <2>11. QED
    BY <2>10
<1>18. ASSUME Crash PROVE Store!Next \/ UNCHANGED Store!vars
  <2>1. /\ UNCHANGED <<threads, logs, created>>
        /\ chat' = [c \in Chats |-> IF InFlight(c) THEN Ended(c, Lost) ELSE chat[c]]
    BY <1>18 DEF Crash
  <2>2. OwnerView' = OwnerView /\ RecordsView' = RecordsView
    BY <1>a, <2>1, OwnersKept DEF RecordsView
  <2> DEFINE C == {c \in Chats : InFlight(c)}
  <2>3. \A c \in C : ReplyView[c] = None
    BY PlacesTell DEF InFlight, ReplyView
  <2>4. \A c \in Chats : /\ chat'[c].conv = chat[c].conv
                         /\ chat'[c].code = IF c \in C THEN 499 ELSE chat[c].code
    BY <2>1 DEF Ended, Bare, Lost
  <2> HIDE DEF C
  <2>5. AskedView' = AskedView
    BY <2>4 DEF AskedView
  <2>6. ReplyView' = [c \in Chats |-> IF c \in C THEN 499 ELSE ReplyView[c]]
    BY <2>4 DEF ReplyView
  <2>7. C \in SUBSET Chats
    BY DEF C
  <2>8. Store!Lose
    BY <2>1, <2>2, <2>3, <2>5, <2>6, <2>7
       DEF Store!Lose, OwnerView, RecordsView, AskedView, ReplyView
  <2>9. QED
    BY <2>8 DEF Store!Next
<1>19. CASE UNCHANGED vars
  BY <1>c, <1>19 DEF vars
<1>20. QED
  BY <1>1, <1>2, <1>3, <1>4, <1>5, <1>6, <1>7, <1>8, <1>9, <1>10, <1>11, <1>12, <1>13,
     <1>14, <1>15, <1>16, <1>17, <1>18, <1>19 DEF Next, ChatNext, ChatStep, AiAnswers,
     AiFails, AiTimeout

\* The service implements the promised conversations: whatever threads are made and
\* deleted while the AI thinks, a record appears in the conversation that was asked
\* or nowhere, deletions take the records with them for good, and replies agree with
\* what was recorded.
THEOREM StoreImplemented ==
    ASSUME ~ RowidReuse
    PROVE  Spec => ImplementsStore
<1>1. Init => Store!Init
  <2> SUFFICES ASSUME Init PROVE Store!Init
    OBVIOUS
  <2>1. \A v \in ThreadId : OwnerOf(v) = None
    BY DEF Init, OwnerOf, Exists
  <2>2. {m \in logs : m.chat # None} = {}
    BY DEF Init, LegacyLogs
  <2>3. 1 .. created = {}
    BY DEF Init
  <2>4. \A c \in Chats : chat[c].conv = None /\ chat[c].code = None
    BY DEF Init, NewChat, Bare
  <2>5. QED
    BY <2>1, <2>2, <2>3, <2>4 DEF Store!Init
<1>2. TypeOK /\ NotYetAsked /\ [Next]_vars => NotYetAsked'
  BY NotYetAskedStep
<1>3. Init => NotYetAsked
  BY DEF Init, NewChat, Bare, NotYetAsked
<1>4. Spec => []NotYetAsked
  BY <1>2, <1>3, TypeCorrect, PTL DEF Spec
<1>5. ConversationInv => IdsNameConversations
  BY DEF ConversationInv
<1>6. TypeOK /\ ConversationInv /\ NotYetAsked /\ TypeOK' /\ IdsNameConversations' /\ [Next]_vars
         => [Store!Next]_(Store!vars)
  BY StoreStep
<1>7. QED
  BY <1>1, <1>4, <1>5, <1>6, TypeCorrect, ConversationInvariant, PTL
     DEF Spec, ImplementsStore, Store!Spec

=====================================
