-------------------------- MODULE ConversationStore --------------------------
(***************************************************************************)
(* What the chat service promises about its conversations, without ids,    *)
(* sessions, statements or commits (docs/API.md, ADR-011): a question is   *)
(* put to one conversation, its record appears in that conversation at     *)
(* once or nowhere, deleting a conversation deletes its records for good,  *)
(* and the reply agrees with what was recorded.                            *)
(*                                                                         *)
(* Here a conversation is the thing itself, not the id its row has: two    *)
(* conversations are never the same one.                                   *)
(***************************************************************************)
EXTENDS FiniteSets

CONSTANTS Users, Chats, Convs, None, Codes

VARIABLES
    owner,    \* [Convs -> the user whose conversation it is; None: not open]
    opened,   \* the conversations that were ever opened
    records,  \* the records of questions: [chat, conv, status]
    asked,    \* [Chats -> the conversation the question was put to, or None]
    reply     \* [Chats -> the code of the reply, or None]

vars == <<owner, opened, records, asked, reply>>

Init ==
    /\ owner = [v \in Convs |-> None]
    /\ opened = {}
    /\ records = {}
    /\ asked = [c \in Chats |-> None]
    /\ reply = [c \in Chats |-> None]

IsOpen(v) == v \in Convs /\ owner[v] # None

Mine(c) == {r \in records : r.chat = c}

Open(v, u) ==
    /\ v \notin opened
    /\ opened' = opened \cup {v}
    /\ owner' = [owner EXCEPT ![v] = u]

OpenOne ==
    /\ \E v \in Convs, u \in Users : Open(v, u)
    /\ UNCHANGED <<records, asked, reply>>

Ask(c, v) ==
    /\ asked[c] = None /\ reply[c] = None
    /\ asked' = [asked EXCEPT ![c] = v]

AskInOpen(c) ==
    /\ \E v \in Convs : IsOpen(v) /\ Ask(c, v)
    /\ UNCHANGED <<owner, opened, records, reply>>

\* A user's first question opens their default conversation.
AskInNew(c) ==
    /\ \E v \in Convs, u \in Users : Open(v, u) /\ Ask(c, v)
    /\ UNCHANGED <<records, reply>>

Record(c) ==
    /\ reply[c] = None /\ IsOpen(asked[c]) /\ Mine(c) = {}
    /\ \E s \in {"success", "ai_error"} :
          records' = records \cup {[chat |-> c, conv |-> asked[c], status |-> s]}
    /\ UNCHANGED <<owner, opened, asked, reply>>

\* When a code may be the reply to a question.
Truthful(c, code) ==
    CASE code = 201 -> /\ asked[c] # None
                       /\ IsOpen(asked[c]) => \E r \in Mine(c) : r.status = "success"
      [] code = 200 -> asked[c] # None /\ Mine(c) = {}
      [] code \in {502, 504} -> /\ asked[c] # None
                                /\ \A r \in Mine(c) : r.status = "ai_error"
      [] code \in {404, 429} -> asked[c] = None
      [] code = 500 -> Mine(c) = {}
      [] OTHER -> TRUE

Reply(c) ==
    /\ reply[c] = None
    /\ \E code \in Codes : Truthful(c, code) /\ reply' = [reply EXCEPT ![c] = code]
    /\ UNCHANGED <<owner, opened, records, asked>>

\* A crash: requests are lost together, records are not.
Lose ==
    /\ \E C \in SUBSET Chats :
          /\ \A c \in C : reply[c] = None
          /\ reply' = [c \in Chats |-> IF c \in C THEN 499 ELSE reply[c]]
    /\ UNCHANGED <<owner, opened, records, asked>>

\* One conversation, or all those of a deleted account.
Erase(V) ==
    /\ owner' = [v \in Convs |-> IF v \in V THEN None ELSE owner[v]]
    /\ records' = {r \in records : r.conv \notin V}
    /\ UNCHANGED <<opened, asked, reply>>

EraseOne == \E v \in Convs : IsOpen(v) /\ Erase({v})
EraseAll == \E u \in Users : Erase({v \in Convs : owner[v] = u})

Next ==
    \/ OpenOne \/ EraseOne \/ EraseAll \/ Lose
    \/ \E c \in Chats : AskInOpen(c) \/ AskInNew(c) \/ Record(c) \/ Reply(c)

Spec == Init /\ [][Next]_vars

=============================================================================
