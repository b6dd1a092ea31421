------------------------------- MODULE Accounts -------------------------------
(***************************************************************************)
(* Accounts, their session cookies, password resets and administrator      *)
(* grants: routers/auth.py, deps.py, services/sessions.py,                 *)
(* services/password_reset.py, services/admin.py and the two operator      *)
(* scripts, over the tables users, session_revocations, password_resets    *)
(* and admin_grants.                                                       *)
(*                                                                         *)
(* A member of Workers is a worker thread, or an operator's script, that   *)
(* serves one task after the other; each commit is a step, and so is each  *)
(* read that a later step relies on.  The request of a reset is `async`:   *)
(* its count and its insert hold the event loop (`requester`), worker      *)
(* threads go on meanwhile.  The limiters are in module RateLimiter.       *)
(*                                                                         *)
(* Ids are SQLite's: a deleted greatest id is given out again.  `acct`     *)
(* numbers the sign-ups, so that two accounts never share it: a history    *)
(* value, like `chosen`, `uses`, `ended`, `clashed`, `raced` and `halfway`.*)
(*                                                                         *)
(* Definitions marked "Fault" are no part of the model: each is what a     *)
(* plausible slip would make of the definition after it.                   *)
(***************************************************************************)
EXTENDS Integers, FiniteSets, FiniteSetsExt

CONSTANTS
    Emails, Passwords, Workers,
    None,             \* SQL NULL, and "no such row"
    Founders,         \* sequence of the emails that have an account at the start
    FirstPassword,    \* ... and the password those accounts have
    Administrators,   \* the emails granted at the start
    MaxRequests,      \* settings.password_reset_max_requests
    ResetWindow,      \* settings.password_reset_window_minutes, in seconds
    Expiry,           \* settings.password_reset_expiry_minutes, in seconds
    MaxTime,          \* bound: the last second of a behaviour
    MaxAccounts,      \* bound: accounts ever made
    MaxTokens,        \* bound: reset tokens ever issued
    MaxTasks          \* bound: requests and script runs in a behaviour

Ids    == 1 .. MaxAccounts
Accts  == 1 .. MaxAccounts
Tokens == 1 .. MaxTokens
Time   == 0 .. MaxTime

ASSUME AccountsAssumption ==
    /\ {MaxRequests, ResetWindow, Expiry, MaxTime, MaxAccounts, MaxTokens, MaxTasks} \subseteq Nat
    /\ FirstPassword \in Passwords
    /\ Administrators \subseteq Emails
    /\ \E n \in 0 .. MaxAccounts : Founders \in [1 .. n -> Emails]
    /\ IsFiniteSet(Workers)
    /\ MaxTime >= 1

\* A row of `users`.  The hash is the password it matches and whether it has the
\* pepper mark (security.py); a hash without the mark is from before the pepper
\* or from before the mark.  `chosen`: the password the owner chose last.
User == [email : Emails, pw : Passwords, marked : BOOLEAN, acct : Accts, chosen : Passwords]

\* A row of `password_resets`.
PasswordReset == [user : Ids, acct : Accts, token : Tokens, created : Time,
                  expires : Nat, used : Time \cup {None}]

\* The signed cookie.  The fingerprint is the email it is made from.
Cookie == [id : Ids, email : Emails, iat : Time, acct : Accts]

\* What a worker holds of its task: `old` that a login will write the hash it read
\* back; `bare` (history) that the hash it read has no mark.
Task == [pc : {"idle", "verifying", "verified", "checked", "revoking", "writing",
               "deleting", "granting"},
         job : {None, "login", "reset", "revoke", "delete", "grant"},
         id : Ids \cup {None}, acct : Accts \cup {None}, email : Emails \cup {None},
         pw : Passwords \cup {None}, old : BOOLEAN, bare : BOOLEAN, reset : Tokens \cup {None},
         token : Tokens \cup {None}, epoch : Int, overtaken : BOOLEAN, late : BOOLEAN]

IdleTask == [pc |-> "idle", job |-> None, id |-> None, acct |-> None, email |-> None,
             pw |-> None, old |-> FALSE, bare |-> FALSE, reset |-> None, token |-> None, epoch |-> 0,
             overtaken |-> FALSE, late |-> FALSE]

ASSUME NoneIsNoValue ==
    None \notin Emails \cup Passwords \cup Int \cup User \cup PasswordReset \cup [id : Ids, now : Time]
                 \cup {"login", "reset", "revoke", "delete", "grant"}

VARIABLES
    clock,      \* int(time.time())
    users,      \* [Ids -> row of `users`, or None]
    revoked,    \* [Ids -> revoked_before_epoch of its row, or None]
    resets,     \* [row id -> row of `password_resets`, or None]
    grants,     \* [Ids -> granted_email of its row, or None]
    cookies,    \* the valid signed cookies that browsers hold
    worker,     \* [Workers -> Task]
    requester,  \* the reset request that holds the event loop: [id, now], or None
    count,      \* history: how many accounts, tokens and tasks there have been
    uses,       \* history: [Tokens -> passwords set with it]
    ended,      \* history: [Accts -> the latest epoch a revocation wrote]
    clashed,    \* history: accounts two of whose revocations overlapped
    raced,      \* history: accounts that got a password while a login was about
                \* to write an old hash back, or by the reset of another account
    halfway,    \* history: accounts whose reset stopped before its revocation, or
                \* whose token was spent by a reset that had checked another's
    named       \* history: emails the operator ever granted

tables  == <<users, revoked, resets, grants>>
history == <<uses, ended, clashed, raced, halfway, named>>
vars    == <<clock, tables, cookies, worker, requester, count, history>>

Held(table) == {i \in DOMAIN table : table[i] # None}

Init ==
    /\ clock = 1
    /\ users = [i \in Ids |->
                  IF i \in DOMAIN Founders
                  THEN [email |-> Founders[i], pw |-> FirstPassword, marked |-> FALSE,
                        acct |-> i, chosen |-> FirstPassword]
                  ELSE None]
    /\ revoked = [i \in Ids |-> None]
    /\ resets = [r \in Tokens |-> None]
    /\ grants = [i \in Ids |->
                  IF i \in DOMAIN Founders /\ Founders[i] \in Administrators
                  THEN Founders[i] ELSE None]
    /\ cookies = {[id |-> i, email |-> Founders[i], iat |-> 0, acct |-> i] :
                    i \in {j \in DOMAIN Founders : Founders[j] \in Administrators}}
    /\ worker = [w \in Workers |-> IdleTask]
    /\ requester = None
    /\ count = [accounts |-> Cardinality(DOMAIN Founders), tokens |-> 0, tasks |-> 0]
    /\ uses = [t \in Tokens |-> 0]
    /\ ended = [a \in Accts |-> 0]
    /\ clashed = {} /\ raced = {} /\ halfway = {}
    /\ named = Administrators

-----------------------------------------------------------------------------
(* Reading the tables.                                                     *)

NextRowid(table) == 1 + Max({0} \cup Held(table))

\* Sign-up and every look-up by email: the column is unique.
FindByEmail(e) == {i \in Held(users) : users[i].email = e}

\* Fault: the row alone makes an administrator.
HasGrant(i) == grants[i] # None

IsAdmin(i) == grants[i] # None /\ grants[i] = users[i].email

IsSessionRevoked(i, iat) == revoked[i] # None /\ iat <= revoked[i]

\* Fault: the cookie's account is whichever has its id.
OpenById(s) == s.id \in Held(users) /\ ~ IsSessionRevoked(s.id, s.iat)

\* resolve_session_user finds the account of cookie `s`.
Open(s) ==
    /\ s.id \in Held(users)
    /\ users[s.id].email = s.email
    /\ ~ IsSessionRevoked(s.id, s.iat)

\* Fault: the token may have been used.
InTime(r) == resets[r].expires >= clock

Usable(r) == resets[r].used = None /\ resets[r].expires >= clock

\* The requests of `u` in the window that ends `now`.
Requested(u, now) ==
    {r \in Held(resets) : resets[r].user = u /\ resets[r].created >= now - ResetWindow}

\* Fault: one request too many.
UpToMaxRequests(u, now) == Cardinality(Requested(u, now)) <= MaxRequests

MayRequest(u, now) == Cardinality(Requested(u, now)) < MaxRequests

\* History: some login has read a hash of row `i` without the mark and will replace it.
AboutToRehash(i) ==
    \E w \in Workers : worker[w].pc = "verifying" /\ worker[w].bare /\ worker[w].id = i

-----------------------------------------------------------------------------
(* Sign-up, login, logout and the use of a cookie.                         *)

Another == count.tasks < MaxTasks /\ count' = [count EXCEPT !.tasks = @ + 1]

Counted(w) == worker[w].pc = "idle" /\ Another

Goes(w, task) == worker' = [worker EXCEPT ![w] = task]

\* create_user: the unique column decides, whatever the first look-up saw.
SignUp(e, p) ==
    /\ FindByEmail(e) = {}
    /\ NextRowid(users) \in Ids
    /\ count.accounts < MaxAccounts /\ count.tasks < MaxTasks
    /\ count' = [count EXCEPT !.accounts = @ + 1, !.tasks = @ + 1]
    /\ LET i == NextRowid(users)
       IN  /\ users' = [users EXCEPT ![i] = [email |-> e, pw |-> p, marked |-> TRUE,
                                             acct |-> count'.accounts, chosen |-> p]]
           /\ raced' = IF AboutToRehash(i) THEN raced \cup {count'.accounts} ELSE raced
    /\ UNCHANGED <<clock, revoked, resets, grants, cookies, worker, requester,
                   uses, ended, clashed, halfway, named>>

\* Fault: the mark is not looked at.
NeedsRehash(i) == TRUE

IsOld(i) == ~ users[i].marked

\* login up to verify_password; a wrong password changes nothing here.
Verify(w, e, p) ==
    /\ Counted(w)
    /\ \E i \in FindByEmail(e) :
        /\ users[i].pw = p
        /\ Goes(w, [IdleTask EXCEPT !.pc = "verifying", !.job = "login", !.id = i, !.email = e,
                                    !.acct = users[i].acct, !.pw = p, !.old = IsOld(i),
                                    !.bare = ~ users[i].marked])
    /\ UNCHANGED <<clock, tables, cookies, requester, history>>

\* An old hash is replaced: an UPDATE of the row with that id.
Rehash(w) ==
    /\ worker[w].pc = "verifying" /\ worker[w].old
    /\ worker[w].id \in Held(users)
    /\ users' = [users EXCEPT ![worker[w].id].pw = worker[w].pw, ![worker[w].id].marked = TRUE]
    /\ Goes(w, [worker[w] EXCEPT !.pc = "verified"])
    /\ UNCHANGED <<clock, revoked, resets, grants, cookies, requester, count, history>>

\* The rest of login: the time is read now, after the password was checked.
Issue(w) ==
    /\ \/ worker[w].pc = "verified"
       \/ worker[w].pc = "verifying" /\ ~ worker[w].old
    /\ cookies' = cookies \cup {[id |-> worker[w].id, email |-> worker[w].email,
                                 iat |-> clock, acct |-> worker[w].acct]}
    /\ Goes(w, IdleTask)
    /\ UNCHANGED <<clock, tables, requester, count, history>>

\* logout, and the clear() of a cookie that resolve_session_user refuses.
Forget(s) ==
    /\ Another
    /\ cookies' = cookies \ {s}
    /\ UNCHANGED <<clock, tables, worker, requester, history>>

-----------------------------------------------------------------------------
(* Password resets.                                                        *)

\* password_reset_request up to the count of create_reset_token.
CountRequests(e) ==
    /\ requester = None
    /\ count.tokens < MaxTokens
    /\ Another
    /\ \E i \in FindByEmail(e) :
        /\ MayRequest(i, clock)
        /\ requester' = [id |-> i, now |-> clock]
    /\ UNCHANGED <<clock, tables, cookies, worker, history>>

\* The insert; what becomes of the mail changes nothing here.
InsertReset ==
    /\ requester # None
    /\ requester.id \in Held(users)
    /\ count' = [count EXCEPT !.tokens = @ + 1]
    /\ resets' = [resets EXCEPT ![NextRowid(resets)] =
                    [user |-> requester.id, acct |-> users[requester.id].acct,
                     token |-> count'.tokens, created |-> clock,
                     expires |-> requester.now + Expiry, used |-> None]]
    /\ requester' = None
    /\ UNCHANGED <<clock, users, revoked, grants, cookies, worker, history>>

\* The insert fails (its account has gone, or the database is busy).
RequestFails ==
    /\ requester # None
    /\ requester' = None
    /\ UNCHANGED <<clock, tables, cookies, worker, count, history>>

\* complete_password_reset up to db.get(User).
CheckToken(w, p) ==
    /\ Counted(w)
    /\ \E r \in Held(resets) :
        /\ Usable(r)
        /\ Goes(w, [IdleTask EXCEPT !.pc = "checked", !.job = "reset", !.id = resets[r].user,
                                    !.acct = resets[r].acct, !.pw = p, !.reset = r,
                                    !.token = resets[r].token])
    /\ UNCHANGED <<clock, tables, cookies, requester, history>>

\* The first commit: both rows, each found by its id, are updated, or neither.  Either
\* id may have been given out again since the check: `acct` is of the row now, and a
\* token of someone else is spent without a revocation.
SetPassword(w) ==
    LET t == worker[w]
        own == users[t.id].acct = t.acct
    IN
    /\ t.pc = "checked"
    /\ t.id \in Held(users) /\ t.reset \in Held(resets)
    /\ users' = [users EXCEPT ![t.id].pw = t.pw, ![t.id].marked = TRUE,
                              ![t.id].chosen = IF own THEN t.pw ELSE @]
    /\ resets' = [resets EXCEPT ![t.reset].used = clock]
    /\ uses' = [uses EXCEPT ![t.token] = @ + 1]
    /\ raced' = IF AboutToRehash(t.id) \/ ~ own THEN raced \cup {users[t.id].acct} ELSE raced
    /\ halfway' = IF resets[t.reset].user # t.id
                  THEN halfway \cup {resets[t.reset].acct} ELSE halfway
    /\ Goes(w, [t EXCEPT !.pc = "revoking", !.acct = users[t.id].acct])
    /\ UNCHANGED <<clock, revoked, grants, cookies, requester, count, ended, clashed, named>>

-----------------------------------------------------------------------------
(* Revocation of an account's sessions, the second commit of a reset.      *)

\* scripts/revoke_sessions.py: the account is looked up.
FindForRevoke(w, e) ==
    /\ Counted(w)
    /\ \E i \in FindByEmail(e) :
        Goes(w, [IdleTask EXCEPT !.pc = "revoking", !.job = "revoke", !.id = i,
                                 !.acct = users[i].acct])
    /\ UNCHANGED <<clock, tables, cookies, requester, history>>

\* Fault: two seconds are left out.
LongBackoff(job) == IF job = "revoke" THEN 0 ELSE 2

\* The sessions issued in the last second before a reset stay valid, so that the
\* owner's next login in the same second does.
Backoff(job) == IF job = "revoke" THEN 0 ELSE 1

\* revoke_user_sessions reads the time ...
TakeEpoch(w) ==
    LET t == worker[w] IN
    /\ t.pc = "revoking"
    /\ Goes(w, [t EXCEPT !.pc = "writing", !.epoch = clock - Backoff(t.job)])
    /\ UNCHANGED <<clock, tables, cookies, requester, count, history>>

\* Fault: a row that is there is left as it is.
KeptEpoch(old, new) == IF old = None THEN new ELSE old

\* The row is added, or overwritten whatever it says.
StoredEpoch(old, new) == new

\* ... and writes the row.  The row is looked up in between; a look-up that found
\* none while another worker added one fails on the key, which is a `Stop`.
\* History: who read the time before and has not written yet is overtaken; the row
\* may by now be of another account than the worker was to end the sessions of.
WriteRevocation(w) ==
    LET t == worker[w]
        a == users[t.id].acct
    IN
    /\ t.pc = "writing"
    /\ t.id \in Held(users)
    /\ revoked' = [revoked EXCEPT ![t.id] = StoredEpoch(@, t.epoch)]
    /\ ended' = [ended EXCEPT ![a] = Max({@, t.epoch})]
    /\ clashed' = IF t.overtaken THEN clashed \cup {a} ELSE clashed
    /\ worker' = [v \in Workers |->
                    IF v = w
                    THEN IF t.job = "delete" THEN [t EXCEPT !.pc = "deleting"] ELSE IdleTask
                    ELSE IF worker[v].pc = "writing" /\ worker[v].id = t.id
                         THEN [worker[v] EXCEPT !.overtaken = TRUE]
                         ELSE worker[v]]
    /\ UNCHANGED <<clock, users, resets, grants, cookies, requester, count, uses, raced, halfway, named>>

-----------------------------------------------------------------------------
(* Administrators.                                                         *)

\* Fault: the target may be an administrator.
AnyOther(actor, target) == target # actor

MayDelete(actor, target) == target # actor /\ ~ IsAdmin(target)

\* DELETE /api/admin/users/{id}: the gate and the checks.
CheckTarget(w, target) ==
    /\ Counted(w)
    /\ target \in Held(users)
    /\ \E s \in cookies : Open(s) /\ IsAdmin(s.id) /\ MayDelete(s.id, target)
    /\ Goes(w, [IdleTask EXCEPT !.pc = "revoking", !.job = "delete", !.id = target,
                                !.acct = users[target].acct])
    /\ UNCHANGED <<clock, tables, cookies, requester, history>>

\* Fault: no foreign keys.
AllResets(i) == resets

ResetsWithout(i) ==
    [r \in Tokens |-> IF r \in Held(resets) /\ resets[r].user = i THEN None ELSE resets[r]]

\* The second commit: the row with that id goes, and what refers to it.
DeleteAccount(w) ==
    LET i == worker[w].id IN
    /\ worker[w].pc = "deleting"
    /\ users' = [users EXCEPT ![i] = None]
    /\ revoked' = [revoked EXCEPT ![i] = None]
    /\ grants' = [grants EXCEPT ![i] = None]
    /\ resets' = ResetsWithout(i)
    /\ Goes(w, IdleTask)
    /\ UNCHANGED <<clock, cookies, requester, count, history>>

\* scripts/manage_admin.py grant: the account is looked up ...
FindForGrant(w, e) ==
    /\ Counted(w)
    /\ \E i \in FindByEmail(e) :
        Goes(w, [IdleTask EXCEPT !.pc = "granting", !.job = "grant", !.id = i, !.email = e])
    /\ named' = named \cup {e}
    /\ UNCHANGED <<clock, tables, cookies, requester, uses, ended, clashed, raced, halfway>>

\* ... and granted.  History: a deletion that has checked it is now late.
WriteGrant(w) ==
    LET i == worker[w].id IN
    /\ worker[w].pc = "granting"
    /\ i \in Held(users)
    /\ grants' = [grants EXCEPT ![i] = worker[w].email]
    /\ worker' = [v \in Workers |->
                    IF v = w THEN IdleTask
                    ELSE IF worker[v].job = "delete" /\ worker[v].id = i
                         THEN [worker[v] EXCEPT !.late = TRUE]
                         ELSE worker[v]]
    /\ UNCHANGED <<clock, users, revoked, resets, cookies, requester, count, history>>

\* scripts/manage_admin.py revoke.
RevokeAdmin(e) ==
    /\ Another
    /\ \E i \in FindByEmail(e) :
        /\ grants[i] # None
        /\ grants' = [grants EXCEPT ![i] = None]
    /\ UNCHANGED <<clock, users, revoked, resets, cookies, worker, requester, history>>

-----------------------------------------------------------------------------
(* A worker stops between two steps: the process dies, the script is       *)
(* killed, or the next statement fails and the request ends with a 500.    *)

Stop(w) ==
    /\ worker[w].pc # "idle"
    /\ Goes(w, IdleTask)
    /\ halfway' = IF worker[w].job = "reset" /\ worker[w].pc \in {"revoking", "writing"}
                  THEN halfway \cup {worker[w].acct} ELSE halfway
    /\ UNCHANGED <<clock, tables, cookies, requester, count, uses, ended, clashed, raced, named>>

Tick ==
    /\ clock < MaxTime
    /\ clock' = clock + 1
    /\ UNCHANGED <<tables, cookies, worker, requester, count, history>>

Next ==
    \/ \E e \in Emails :
        \/ \E p \in Passwords : SignUp(e, p)
        \/ CountRequests(e)
        \/ RevokeAdmin(e)
    \/ \E w \in Workers :
        \/ \E p \in Passwords : CheckToken(w, p)
        \/ \E e \in Emails :
            \/ \E p \in Passwords : Verify(w, e, p)
            \/ FindForRevoke(w, e)
            \/ FindForGrant(w, e)
        \/ \E i \in Ids : CheckTarget(w, i)
        \/ Rehash(w) \/ Issue(w) \/ SetPassword(w) \/ TakeEpoch(w) \/ WriteRevocation(w)
        \/ DeleteAccount(w) \/ WriteGrant(w) \/ Stop(w)
    \/ \E s \in cookies : Forget(s)
    \/ InsertReset \/ RequestFails \/ Tick

Spec == Init /\ [][Next]_vars

-----------------------------------------------------------------------------
(* What makes it correct.                                                  *)

\* Each step of a task is of its job, and has what it reads.
TaskHas(t) ==
    /\ t.pc = "idle" => t.job = None
    /\ t.pc \in {"verifying", "verified"} =>
         t.job = "login" /\ None \notin {t.id, t.acct, t.email, t.pw}
    /\ t.pc = "checked" => t.job = "reset" /\ None \notin {t.id, t.acct, t.pw, t.reset, t.token}
    /\ t.pc \in {"revoking", "writing"} =>
         t.job \in {"reset", "revoke", "delete"} /\ None \notin {t.id, t.acct}
    /\ t.pc = "deleting" => t.job = "delete" /\ None \notin {t.id, t.acct}
    /\ t.pc = "granting" => t.job = "grant" /\ None \notin {t.id, t.email}

\* The state has its type, every row refers to a row of `users`, and a worker has
\* what the steps still to come of its task read.
AccountsTypeOK ==
    /\ clock \in Time
    /\ users \in [Ids -> User \cup {None}]
    /\ revoked \in [Ids -> Int \cup {None}]
    /\ resets \in [Tokens -> PasswordReset \cup {None}]
    /\ grants \in [Ids -> Emails \cup {None}]
    /\ cookies \subseteq Cookie
    /\ worker \in [Workers -> Task]
    /\ requester \in [id : Ids, now : Time] \cup {None}
    /\ count \in [accounts : 0 .. MaxAccounts, tokens : 0 .. MaxTokens, tasks : 0 .. MaxTasks]
    /\ uses \in [Tokens -> Nat] /\ ended \in [Accts -> Nat]
    /\ clashed \subseteq Accts /\ raced \subseteq Accts /\ halfway \subseteq Accts
    /\ named \subseteq Emails
    /\ \A r \in Held(resets) : resets[r].user \in Held(users)
    /\ Held(revoked) \cup Held(grants) \subseteq Held(users)
    /\ \A w \in Workers : TaskHas(worker[w])
    /\ requester # None => count.tokens < MaxTokens

\* Sessions that a revocation ended stay ended (services/sessions.py): a cookie of
\* the account issued before the latest epoch ever written is refused, whatever
\* revocations follow.  Two limits are the code's: a revocation that overlaps
\* another may write the older epoch last (`clashed`), and a reset in the same
\* second as an operator's revocation takes back its last second.
RevokedStaysOut ==
    \A s \in cookies :
        Open(s) /\ users[s.id].acct = s.acct =>
            s.iat >= ended[s.acct] \/ s.acct \in clashed

\* The password an account has is the one its owner chose last, at sign-up or by
\* a reset.  The rehash of an old hash at login (routers/auth.py) undoes a reset
\* only when the login had read the old hash before the reset was committed; and a
\* reset sets the password of another account (services/password_reset.py) only where
\* that one was given the id after the token was checked.
ResetPasswordStands ==
    \A i \in Held(users) : users[i].pw = users[i].chosen \/ users[i].acct \in raced

\* A token that was used has ended the account's sessions of up to a second before
\* (complete_password_reset), or its second commit is still to come, or it was
\* stopped between the two commits, or revocations overlapped.
SpentTokenRevokes ==
    \A r \in Held(resets) :
        resets[r].used # None =>
            LET i == resets[r].user
                a == users[i].acct
            IN  \/ revoked[i] # None /\ revoked[i] >= resets[r].used - 1
                \/ \E w \in Workers : worker[w].job = "reset" /\ worker[w].id = i
                                      /\ worker[w].pc \in {"revoking", "writing"}
                \/ a \in halfway \cup clashed

\* A token sets a password once, "단일 사용" (routers/auth.py), but for completions that
\* overlap: with every worker at its check, each may use it once.
TokenSpentByOverlapOnly ==
    \A t \in Tokens :
        uses[t] > 0 =>
            uses[t] + Cardinality({w \in Workers : worker[w].pc = "checked" /\ worker[w].token = t})
                <= Cardinality(Workers)

\* In no window are there more reset requests of an account than the limit
\* (create_reset_token), although the rows get their own time stamp later than the
\* count.
ResetRequestsCapped ==
    \A i \in Ids, now \in Time :
        Cardinality({r \in Requested(i, now) : resets[r].created <= now}) <= MaxRequests

\* Ids come back, people do not: a cookie makes its holder an administrator only if
\* the operator granted that to the email the cookie was made for (email_fingerprint
\* in deps.py and granted_email in is_admin, each against the reuse of an id).
AdministratorsWereNamed ==
    \A s \in cookies : Open(s) /\ IsAdmin(s.id) => s.email \in named

\* An administrator is deleted only when the grant came after the check of
\* delete_user_by_admin.
AdminDeletedByLateGrantOnly ==
    \A w \in Workers :
        LET t == worker[w] IN
        t.job = "delete" /\ t.id \in Held(users) /\ users[t.id].acct = t.acct /\ IsAdmin(t.id)
            => t.late

-----------------------------------------------------------------------------
(* Why it is: what the proofs of these properties (AccountsProofs) show    *)
(* every step to keep.                                                     *)

\* What a worker holds was given out before.
TaskNumbered(t) ==
    /\ t.acct # None => t.acct <= count.accounts
    /\ t.token # None => t.token <= count.tokens
    /\ 0 <= t.epoch /\ t.epoch <= clock

\* Sign-ups and tokens are numbered in their order, no two accounts share a number,
\* and nothing is dated in the future.
Numbered ==
    /\ \A i \in Held(users) : i <= count.accounts /\ users[i].acct <= count.accounts
    /\ \A i, j \in Held(users) : users[i].acct = users[j].acct => i = j
    /\ \A a \in Accts : ended[a] <= clock /\ (a > count.accounts => ended[a] = 0)
    /\ \A r \in Held(resets) :
        /\ r <= count.tokens /\ resets[r].token <= count.tokens
        /\ resets[r].acct = users[resets[r].user].acct
        /\ resets[r].created <= clock
        /\ resets[r].used # None => resets[r].used <= clock
    /\ \A w \in Workers : TaskNumbered(worker[w])
    /\ requester # None => requester.now <= clock
    /\ clock >= 1

\* The stored epoch is at most a second (a reset's) older than the latest one written,
\* and so is the epoch of every worker about to write that was not overtaken.
NoEpochIsLost ==
    /\ \A i \in Held(users) :
        LET a == users[i].acct IN
        \/ a \in clashed
        \/ revoked[i] = None /\ ended[a] = 0
        \/ revoked[i] # None /\ ended[a] <= revoked[i] + 1
    /\ \A w \in Workers :
        LET t == worker[w] IN
        t.pc = "writing" /\ ~ t.overtaken /\ t.id \in Held(users)
            => ended[users[t.id].acct] <= t.epoch + 1

\* A login about to write a hash back writes the password the account still has,
\* unless the account got another one meanwhile.
RehashIsOfThePassword ==
    \A w \in Workers :
        LET t == worker[w] IN
        /\ t.pc = "verifying" => t.old = t.bare
        /\ t.pc = "verifying" /\ t.old /\ t.id \in Held(users)
            => users[t.id].pw = t.pw \/ users[t.id].acct \in raced

\* Worker `w` is in the second commit of a reset of account `a`, whose row is `i`,
\* and will write, or read, an epoch of `e` or later.
Ending(w, i, a, e) ==
    LET t == worker[w] IN
    /\ t.job = "reset" /\ t.id = i /\ t.acct = a
    /\ t.pc = "revoking" \/ (t.pc = "writing" /\ t.epoch >= e)

\* A token that was used has ended the sessions, and no worker about to write would
\* undo that without being overtaken; or the worker that will is there.
SpentTokenEnds ==
    \A r \in Held(resets) :
        resets[r].used # None =>
            LET i == resets[r].user
                e == resets[r].used - 1
            IN  \/ /\ revoked[i] # None /\ revoked[i] >= e
                   /\ \A w \in Workers :
                        worker[w].pc = "writing" /\ worker[w].id = i /\ ~ worker[w].overtaken
                            => worker[w].epoch >= e
                \/ \E w \in Workers : Ending(w, i, users[i].acct, e)
                \/ users[i].acct \in halfway \cup clashed

\* A token is in one row, which a use of it has marked.
UsedTokenIsMarked ==
    /\ \A q, r \in Held(resets) : resets[q].token = resets[r].token => q = r
    /\ \A r \in Held(resets) : uses[resets[r].token] > 0 => resets[r].used # None
    /\ \A t \in Tokens : t > count.tokens => uses[t] = 0
    /\ \A w \in Workers, r \in Held(resets) :
        worker[w].pc = "checked" /\ resets[r].token = worker[w].token => worker[w].reset = r

\* The request that holds the event loop still may be made.
RequestIsWithinLimit ==
    requester # None => MayRequest(requester.id, requester.now)

\* Only emails the operator named are granted, or about to be.
GrantsWereNamed ==
    /\ \A i \in Held(grants) : grants[i] \in named
    /\ \A w \in Workers : worker[w].pc = "granting" => worker[w].email \in named

=============================================================================
