---------------------------- MODULE AccountsProofs ----------------------------
(***************************************************************************)
(* Proofs about Accounts, for any emails, passwords and workers, any       *)
(* founders and any value of the settings and bounds.                      *)
(***************************************************************************)
EXTENDS Accounts, SetLemmas, TLAPS

\* The bounds are natural numbers.
LEMMA BoundsAreNat ==
    /\ MaxRequests \in Nat /\ ResetWindow \in Nat /\ Expiry \in Nat /\ MaxTime \in Nat
    /\ MaxAccounts \in Nat /\ MaxTokens \in Nat /\ MaxTasks \in Nat
BY AccountsAssumption

\* None is no value of a field, and no row.
LEMMA NoneIsNo ==
    /\ None \notin Emails /\ None \notin Passwords /\ None \notin Int
    /\ None \notin User /\ None \notin PasswordReset /\ None \notin [id : Ids, now : Time]
    /\ None \notin Ids /\ None \notin Tokens /\ None \notin Time
    /\ None \notin {"login", "reset", "revoke", "delete", "grant"}
BY NoneIsNoValue, BoundsAreNat DEF Ids, Tokens, Time

\* What is held in a table is a row.
LEMMA RowTypes ==
    ASSUME AccountsTypeOK
    PROVE  /\ \A i \in Held(users) : i \in Ids /\ users[i] \in User
           /\ \A r \in Held(resets) : r \in Tokens /\ resets[r] \in PasswordReset
           /\ \A i \in Held(grants) : i \in Ids /\ grants[i] \in Emails
           /\ \A i \in Held(revoked) : i \in Ids /\ revoked[i] \in Int
BY DEF AccountsTypeOK, Held

\* The task of a worker between two requests has its type.
LEMMA IdleTaskType == IdleTask \in Task /\ TaskHas(IdleTask)
BY DEF IdleTask, Task, TaskHas

\* A worker that goes on keeps the workers' type.
LEMMA GoesType ==
    ASSUME AccountsTypeOK, NEW w \in Workers, NEW t \in Task, TaskHas(t), Goes(w, t)
    PROVE  worker' \in [Workers -> Task] /\ \A v \in Workers : TaskHas(worker'[v])
BY DEF AccountsTypeOK, Goes

\* One more task keeps the counters' type.
LEMMA AnotherType ==
    ASSUME AccountsTypeOK, Another
    PROVE  /\ count' \in [accounts : 0 .. MaxAccounts, tokens : 0 .. MaxTokens, tasks : 0 .. MaxTasks]
           /\ count'.tokens = count.tokens /\ count'.accounts = count.accounts
BY BoundsAreNat DEF AccountsTypeOK, Another

\* The tables, the workers' tasks and the history values keep their types.
THEOREM AccountsTypeCorrect == Spec => []AccountsTypeOK
<1>1. Init => AccountsTypeOK
  <2> SUFFICES ASSUME Init PROVE AccountsTypeOK
    OBVIOUS
  <2>1. PICK n \in 0 .. MaxAccounts : Founders \in [1 .. n -> Emails]
    BY AccountsAssumption
  <2>2. DOMAIN Founders = 1 .. n /\ Cardinality(1 .. n) = n
    BY <2>1, BoundsAreNat, FS_Interval
  <2>3. users \in [Ids -> User \cup {None}]
    BY <2>1, <2>2, BoundsAreNat, AccountsAssumption DEF Init, User, Ids, Accts
  <2>4. grants \in [Ids -> Emails \cup {None}] /\ Held(grants) \subseteq Held(users)
    <3>1. grants \in [Ids -> Emails \cup {None}]
      BY <2>1, <2>2 DEF Init
    <3>2. ASSUME NEW i \in Held(grants) PROVE i \in Held(users)
      <4>1. i \in Ids /\ i \in DOMAIN Founders
        BY <3>2 DEF Init, Held
      <4>2. users[i].acct = i /\ i # None
        BY <4>1, NoneIsNo DEF Init
      <4>3. users[i] \in User
        BY <2>1, <2>2, <4>1, AccountsAssumption DEF Init, User, Ids, Accts
      <4>4. QED
        BY <4>1, <4>3, NoneIsNo DEF Init, Held
    <3>3. QED
      BY <3>1, <3>2
  <2>5. cookies \subseteq Cookie
    BY <2>1, <2>2, BoundsAreNat, AccountsAssumption DEF Init, Cookie, Ids, Accts, Time
  <2>6. worker \in [Workers -> Task] /\ \A w \in Workers : TaskHas(worker[w])
    BY IdleTaskType DEF Init
  <2>7. count \in [accounts : 0 .. MaxAccounts, tokens : 0 .. MaxTokens, tasks : 0 .. MaxTasks]
    BY <2>2, BoundsAreNat DEF Init
  <2>8. clock \in Time
    BY BoundsAreNat, AccountsAssumption DEF Init, Time
  <2>9. /\ revoked \in [Ids -> Int \cup {None}] /\ Held(revoked) = {}
        /\ resets \in [Tokens -> PasswordReset \cup {None}] /\ Held(resets) = {}
    BY DEF Init, Held
  <2>10. /\ uses \in [Tokens -> Nat] /\ ended \in [Accts -> Nat]
         /\ clashed \subseteq Accts /\ raced \subseteq Accts /\ halfway \subseteq Accts
         /\ named \subseteq Emails /\ requester = None
    BY AccountsAssumption DEF Init
  <2>11. QED
    BY <2>3, <2>4, <2>5, <2>6, <2>7, <2>8, <2>9, <2>10 DEF AccountsTypeOK
<1>2. AccountsTypeOK /\ [Next]_vars => AccountsTypeOK'
  <2> SUFFICES ASSUME AccountsTypeOK, [Next]_vars PROVE AccountsTypeOK'
    OBVIOUS
  <2> USE BoundsAreNat DEF tables, history
  <2>1. ASSUME NEW e \in Emails, NEW p \in Passwords, SignUp(e, p) PROVE AccountsTypeOK'
    <3> DEFINE i == NextRowid(users)
               row == [email |-> e, pw |-> p, marked |-> TRUE,
                       acct |-> count.accounts + 1, chosen |-> p]
    <3>1. i \in Ids /\ count.accounts + 1 \in Accts
          /\ users' = [users EXCEPT ![i] = row]
          /\ raced' \subseteq raced \cup {count.accounts + 1}
      BY <2>1 DEF SignUp, AccountsTypeOK, Accts
    <3>2. row \in User
      BY <3>1 DEF User
    <3> HIDE DEF i, row
    <3>3. /\ users' \in [Ids -> User \cup {None}]
          /\ Held(users) \subseteq Held(users)'
      BY <3>1, <3>2, NoneIsNo DEF AccountsTypeOK, Held
    <3>4. /\ count' \in [accounts : 0 .. MaxAccounts, tokens : 0 .. MaxTokens, tasks : 0 .. MaxTasks]
          /\ count'.tokens = count.tokens
      <4>1. /\ count \in [accounts : 0 .. MaxAccounts, tokens : 0 .. MaxTokens, tasks : 0 .. MaxTasks]
            /\ count.accounts < MaxAccounts /\ count.tasks < MaxTasks
            /\ count' = [count EXCEPT !.accounts = @ + 1, !.tasks = @ + 1]
        BY <2>1 DEF SignUp, AccountsTypeOK
      <4>2. count' = [accounts |-> count.accounts + 1, tokens |-> count.tokens,
                      tasks |-> count.tasks + 1]
        BY <4>1
      <4>3. QED
        BY <4>1, <4>2
    <3>5. QED
      BY <2>1, <3>1, <3>3, <3>4 DEF SignUp, AccountsTypeOK, Held
  <2>2. ASSUME NEW w \in Workers, NEW e \in Emails, NEW p \in Passwords, Verify(w, e, p)
        PROVE  AccountsTypeOK'
    <3>1. PICK i \in FindByEmail(e) :
            Goes(w, [IdleTask EXCEPT !.pc = "verifying", !.job = "login", !.id = i, !.email = e,
                                     !.acct = users[i].acct, !.pw = p, !.old = IsOld(i),
                                     !.bare = ~ users[i].marked])
      BY <2>2 DEF Verify
    <3>2. i \in Ids /\ users[i] \in User
      BY RowTypes DEF FindByEmail
    <3>3. [IdleTask EXCEPT !.pc = "verifying", !.job = "login", !.id = i, !.email = e,
                           !.acct = users[i].acct, !.pw = p, !.old = IsOld(i),
                           !.bare = ~ users[i].marked] \in Task
      BY <3>2, IdleTaskType, ZenonT(60) DEF Task, IsOld, User
    <3>4. TaskHas([IdleTask EXCEPT !.pc = "verifying", !.job = "login", !.id = i, !.email = e,
                                   !.acct = users[i].acct, !.pw = p, !.old = IsOld(i),
                                   !.bare = ~ users[i].marked])
      BY <3>2, NoneIsNo DEF IdleTask, TaskHas, User, Accts, Ids
    <3>5. worker' \in [Workers -> Task] /\ \A v \in Workers : TaskHas(worker'[v])
      BY <3>1, <3>3, <3>4, GoesType
    <3>6. QED
      BY <2>2, <3>5, AnotherType DEF Verify, Counted, AccountsTypeOK, Held
  <2>3. ASSUME NEW w \in Workers, Rehash(w) PROVE AccountsTypeOK'
    <3>1. /\ worker[w] \in Task /\ TaskHas(worker[w])
          /\ worker[w].pc = "verifying"
          /\ worker[w].id \in Held(users) /\ worker[w].pw \in Passwords
      BY <2>3 DEF Rehash, AccountsTypeOK, Task, TaskHas
    <3>2. [worker[w] EXCEPT !.pc = "verified"] \in Task
          /\ TaskHas([worker[w] EXCEPT !.pc = "verified"])
      BY <3>1 DEF Task, TaskHas
    <3>3. worker' \in [Workers -> Task] /\ \A v \in Workers : TaskHas(worker'[v])
      BY <2>3, <3>2, GoesType DEF Rehash
    <3>4. [users[worker[w].id] EXCEPT !.pw = worker[w].pw, !.marked = TRUE] \in User
      BY <3>1, RowTypes DEF User
    <3>5. /\ users' \in [Ids -> User \cup {None}]
          /\ Held(users) \subseteq Held(users)'
      BY <2>3, <3>1, <3>4, NoneIsNo DEF Rehash, AccountsTypeOK, Held
    <3>6. QED
      BY <2>3, <3>3, <3>5 DEF Rehash, AccountsTypeOK, Held
  <2>4. ASSUME NEW w \in Workers, Issue(w) PROVE AccountsTypeOK'
    <3>1. worker' \in [Workers -> Task] /\ \A v \in Workers : TaskHas(worker'[v])
      BY <2>4, IdleTaskType, GoesType DEF Issue
    <3>2. cookies' \subseteq Cookie
      BY <2>4 DEF Issue, AccountsTypeOK, Cookie, Task, TaskHas
    <3>3. QED
      BY <2>4, <3>1, <3>2 DEF Issue, AccountsTypeOK, Held
  <2>5. ASSUME NEW s \in cookies, Forget(s) PROVE AccountsTypeOK'
    BY <2>5, AnotherType DEF Forget, AccountsTypeOK, Held
  <2>6. ASSUME NEW e \in Emails, CountRequests(e) PROVE AccountsTypeOK'
    <3>1. requester' \in [id : Ids, now : Time] /\ count.tokens < MaxTokens
      BY <2>6, RowTypes DEF CountRequests, FindByEmail, AccountsTypeOK
    <3>2. QED
      BY <2>6, <3>1, AnotherType DEF CountRequests, AccountsTypeOK, Held
  <2>7. ASSUME InsertReset PROVE AccountsTypeOK'
    <3> DEFINE r == NextRowid(resets)
               row == [user |-> requester.id, acct |-> users[requester.id].acct,
                       token |-> count.tokens + 1, created |-> clock,
                       expires |-> requester.now + Expiry, used |-> None]
    <3>1. /\ count.tokens + 1 \in Tokens
          /\ requester \in [id : Ids, now : Time]
          /\ requester.id \in Held(users)
          /\ resets' = [resets EXCEPT ![r] = row]
      BY <2>7 DEF InsertReset, AccountsTypeOK, Tokens
    <3>2. row \in PasswordReset
      BY <3>1, RowTypes DEF PasswordReset, AccountsTypeOK, User, Time
    <3>3. row.user = requester.id
      OBVIOUS
    <3> HIDE DEF r, row
    <3>4. /\ resets' \in [Tokens -> PasswordReset \cup {None}]
          /\ \A q \in Held(resets)' : resets'[q] = row \/ (q \in Held(resets) /\ resets'[q] = resets[q])
      BY <3>1, <3>2 DEF AccountsTypeOK, Held
    <3>5. \A q \in Held(resets)' : resets'[q].user \in Held(users)'
      BY <2>7, <3>1, <3>3, <3>4 DEF InsertReset, AccountsTypeOK, Held
    <3>6. /\ count' \in [accounts : 0 .. MaxAccounts, tokens : 0 .. MaxTokens, tasks : 0 .. MaxTasks]
          /\ requester' = None
      <4>1. /\ count \in [accounts : 0 .. MaxAccounts, tokens : 0 .. MaxTokens, tasks : 0 .. MaxTasks]
            /\ count.tokens < MaxTokens
            /\ count' = [count EXCEPT !.tokens = @ + 1] /\ requester' = None
        BY <2>7 DEF InsertReset, AccountsTypeOK
      <4>2. QED
        BY <4>1
    <3>7. QED
      BY <2>7, <3>4, <3>5, <3>6 DEF InsertReset, AccountsTypeOK, Held
  <2>8. ASSUME RequestFails PROVE AccountsTypeOK'
    BY <2>8 DEF RequestFails, AccountsTypeOK, Held
  <2>9. ASSUME NEW w \in Workers, NEW p \in Passwords, CheckToken(w, p) PROVE AccountsTypeOK'
    <3>1. PICK r \in Held(resets) :
            Goes(w, [IdleTask EXCEPT !.pc = "checked", !.job = "reset", !.id = resets[r].user,
                                     !.acct = resets[r].acct, !.pw = p, !.reset = r,
                                     !.token = resets[r].token])
      BY <2>9 DEF CheckToken
    <3>2. r \in Tokens /\ resets[r] \in PasswordReset
      BY RowTypes
    <3>3. [IdleTask EXCEPT !.pc = "checked", !.job = "reset", !.id = resets[r].user,
                           !.acct = resets[r].acct, !.pw = p, !.reset = r,
                           !.token = resets[r].token] \in Task
      BY <3>2, IdleTaskType DEF Task, PasswordReset
    <3>4. TaskHas([IdleTask EXCEPT !.pc = "checked", !.job = "reset", !.id = resets[r].user,
                                   !.acct = resets[r].acct, !.pw = p, !.reset = r,
                                   !.token = resets[r].token])
      BY <3>2, NoneIsNo DEF IdleTask, TaskHas, PasswordReset, Accts, Ids
    <3>5. worker' \in [Workers -> Task] /\ \A v \in Workers : TaskHas(worker'[v])
      BY <3>1, <3>3, <3>4, GoesType
    <3>6. QED
      BY <2>9, <3>5, AnotherType DEF CheckToken, Counted, AccountsTypeOK, Held
  <2>10. ASSUME NEW w \in Workers, SetPassword(w) PROVE AccountsTypeOK'
    <3> DEFINE t == worker[w]
    <3>1. /\ t \in Task /\ TaskHas(t) /\ t.pc = "checked"
          /\ t.id \in Held(users) /\ t.reset \in Held(resets)
          /\ t.pw \in Passwords /\ t.token \in Tokens
          /\ users[t.id] \in User /\ resets[t.reset] \in PasswordReset
          /\ t.job = "reset"
      BY <2>10, RowTypes DEF SetPassword, AccountsTypeOK, Task, TaskHas
    <3>2. [t EXCEPT !.pc = "revoking", !.acct = users[t.id].acct] \in Task
      BY <3>1 DEF Task, User
    <3>3. TaskHas([t EXCEPT !.pc = "revoking", !.acct = users[t.id].acct])
      BY <3>1, NoneIsNo DEF Task, TaskHas, User, Accts, Ids
    <3>4. worker' \in [Workers -> Task] /\ \A v \in Workers : TaskHas(worker'[v])
      BY <2>10, <3>2, <3>3, GoesType DEF SetPassword
    <3>5. [users[t.id] EXCEPT !.pw = t.pw, !.marked = TRUE,
                              !.chosen = IF users[t.id].acct = t.acct THEN t.pw ELSE @] \in User
      BY <3>1 DEF User
    <3>6. /\ users' \in [Ids -> User \cup {None}]
          /\ Held(users) \subseteq Held(users)'
      BY <2>10, <3>1, <3>5, NoneIsNo DEF SetPassword, AccountsTypeOK, Held
    <3>7. [resets[t.reset] EXCEPT !.used = clock] \in PasswordReset
          /\ [resets[t.reset] EXCEPT !.used = clock].user = resets[t.reset].user
      BY <3>1 DEF PasswordReset, AccountsTypeOK
    <3>8. /\ resets' \in [Tokens -> PasswordReset \cup {None}]
          /\ \A r \in Held(resets)' : r \in Held(resets) /\ resets'[r].user = resets[r].user
      BY <2>10, <3>1, <3>7 DEF SetPassword, AccountsTypeOK, Held
    <3>9. /\ uses' \in [Tokens -> Nat] /\ raced' \subseteq Accts /\ halfway' \subseteq Accts
      BY <2>10, <3>1 DEF SetPassword, AccountsTypeOK, User, PasswordReset
    <3>10. UNCHANGED <<clock, revoked, grants, cookies, requester, count, ended, clashed, named>>
      BY <2>10 DEF SetPassword
    <3>11. QED
      BY <3>4, <3>6, <3>8, <3>9, <3>10 DEF AccountsTypeOK, Held
  <2>11. ASSUME NEW w \in Workers, NEW e \in Emails, FindForRevoke(w, e) PROVE AccountsTypeOK'
    <3>1. PICK i \in FindByEmail(e) :
            Goes(w, [IdleTask EXCEPT !.pc = "revoking", !.job = "revoke", !.id = i,
                                     !.acct = users[i].acct])
      BY <2>11 DEF FindForRevoke
    <3>2. i \in Ids /\ users[i] \in User
      BY RowTypes DEF FindByEmail
    <3>3. [IdleTask EXCEPT !.pc = "revoking", !.job = "revoke", !.id = i,
                           !.acct = users[i].acct] \in Task
      BY <3>2, IdleTaskType DEF Task, User
    <3>4. TaskHas([IdleTask EXCEPT !.pc = "revoking", !.job = "revoke", !.id = i,
                                   !.acct = users[i].acct])
      BY <3>2, NoneIsNo DEF IdleTask, TaskHas, User, Accts, Ids
    <3>5. worker' \in [Workers -> Task] /\ \A v \in Workers : TaskHas(worker'[v])
      BY <3>1, <3>3, <3>4, GoesType
    <3>6. QED
      BY <2>11, <3>5, AnotherType DEF FindForRevoke, Counted, AccountsTypeOK, Held
  <2>12. ASSUME NEW w \in Workers, TakeEpoch(w) PROVE AccountsTypeOK'
    <3>1. worker[w] \in Task /\ TaskHas(worker[w]) /\ worker[w].pc = "revoking"
          /\ clock - Backoff(worker[w].job) \in Int
      BY <2>12 DEF TakeEpoch, AccountsTypeOK, Backoff, Time
    <3>2. [worker[w] EXCEPT !.pc = "writing", !.epoch = clock - Backoff(worker[w].job)] \in Task
      BY <3>1 DEF Task
    <3>3. TaskHas([worker[w] EXCEPT !.pc = "writing", !.epoch = clock - Backoff(worker[w].job)])
      BY <3>1 DEF Task, TaskHas
    <3>4. worker' \in [Workers -> Task] /\ \A v \in Workers : TaskHas(worker'[v])
      BY <2>12, <3>2, <3>3, GoesType DEF TakeEpoch
    <3>5. QED
      BY <2>12, <3>4 DEF TakeEpoch, AccountsTypeOK, Held
  <2>13. ASSUME NEW w \in Workers, WriteRevocation(w) PROVE AccountsTypeOK'
    <3> DEFINE t == worker[w]
               a == users[t.id].acct
    <3>1. /\ t \in Task /\ TaskHas(t) /\ t.pc = "writing"
          /\ t.id \in Held(users) /\ t.id \in Ids /\ a \in Accts /\ t.epoch \in Int
      BY <2>13, RowTypes DEF WriteRevocation, AccountsTypeOK, Task, User
    <3>2. ASSUME NEW v \in Workers PROVE worker'[v] \in Task /\ TaskHas(worker'[v])
      <4>1. worker[v] \in Task /\ TaskHas(worker[v])
        BY DEF AccountsTypeOK
      <4>2. CASE v = w /\ t.job = "delete"
        <5>1. worker'[v] = [t EXCEPT !.pc = "deleting"]
          BY <2>13, <4>2 DEF WriteRevocation
        <5>2. QED
          BY <3>1, <4>2, <5>1 DEF Task, TaskHas
      <4>3. CASE v = w /\ t.job # "delete"
        <5>1. worker'[v] = IdleTask
          BY <2>13, <4>3 DEF WriteRevocation
        <5>2. QED
          BY <5>1, IdleTaskType
      <4>4. CASE v # w
        <5>1. worker'[v] = [worker[v] EXCEPT !.overtaken = TRUE] \/ worker'[v] = worker[v]
          BY <2>13, <4>4 DEF WriteRevocation
        <5>2. ASSUME NEW s \in Task, TaskHas(s), NEW r, r = [s EXCEPT !.overtaken = TRUE]
              PROVE  r \in Task /\ TaskHas(r)
          <6>1. r \in Task
            BY <5>2 DEF Task
          <6>2. /\ r.pc = s.pc /\ r.job = s.job /\ r.id = s.id /\ r.acct = s.acct
                /\ r.email = s.email /\ r.pw = s.pw /\ r.reset = s.reset /\ r.token = s.token
            BY <5>2 DEF Task
          <6>3. QED
            BY <5>2, <6>1, <6>2 DEF TaskHas
        <5>3. QED
          BY <4>1, <5>1, <5>2, Zenon
      <4>5. QED
        BY <4>2, <4>3, <4>4
    <3>3. worker' \in [Workers -> Task]
      BY <2>13, <3>2 DEF WriteRevocation
    <3>4. /\ revoked' \in [Ids -> Int \cup {None}]
          /\ Held(revoked)' \subseteq Held(revoked) \cup {t.id}
      BY <2>13, <3>1 DEF WriteRevocation, StoredEpoch, AccountsTypeOK, Held
    <3>5. ended' \in [Accts -> Nat] /\ clashed' \subseteq Accts
      <4>1. ended[a] \in Nat
        BY <3>1 DEF AccountsTypeOK
      <4>2. Max({ended[a], t.epoch}) \in Nat
        BY <3>1, <4>1, MaxOfTwo
      <4>3. QED
        BY <2>13, <3>1, <4>2 DEF WriteRevocation, AccountsTypeOK
    <3>6. UNCHANGED <<clock, users, resets, grants, cookies, requester, count, uses, raced,
                      halfway, named>>
      BY <2>13 DEF WriteRevocation
    <3>7. QED
      BY <3>1, <3>2, <3>3, <3>4, <3>5, <3>6 DEF AccountsTypeOK, Held
  <2>14. ASSUME NEW w \in Workers, NEW i \in Ids, CheckTarget(w, i) PROVE AccountsTypeOK'
    <3>1. i \in Held(users) /\ users[i] \in User
      BY <2>14, RowTypes DEF CheckTarget
    <3>2. [IdleTask EXCEPT !.pc = "revoking", !.job = "delete", !.id = i,
                           !.acct = users[i].acct] \in Task
      BY <3>1, IdleTaskType DEF Task, User
    <3>3. TaskHas([IdleTask EXCEPT !.pc = "revoking", !.job = "delete", !.id = i,
                                   !.acct = users[i].acct])
      BY <3>1, NoneIsNo DEF IdleTask, TaskHas, User, Accts, Ids
    <3>4. worker' \in [Workers -> Task] /\ \A v \in Workers : TaskHas(worker'[v])
      BY <2>14, <3>2, <3>3, GoesType DEF CheckTarget
    <3>5. QED
      BY <2>14, <3>4, AnotherType DEF CheckTarget, Counted, AccountsTypeOK, Held
  <2>15. ASSUME NEW w \in Workers, DeleteAccount(w) PROVE AccountsTypeOK'
    <3> DEFINE i == worker[w].id
    <3>1. i \in Ids
      BY <2>15 DEF DeleteAccount, AccountsTypeOK, Task, TaskHas
    <3>2. worker' \in [Workers -> Task] /\ \A v \in Workers : TaskHas(worker'[v])
      BY <2>15, IdleTaskType, GoesType DEF DeleteAccount
    <3>3. /\ users' \in [Ids -> User \cup {None}]
          /\ revoked' \in [Ids -> Int \cup {None}]
          /\ grants' \in [Ids -> Emails \cup {None}]
          /\ Held(users)' = Held(users) \ {i}
          /\ Held(revoked)' = Held(revoked) \ {i}
          /\ Held(grants)' = Held(grants) \ {i}
      BY <2>15, <3>1 DEF DeleteAccount, AccountsTypeOK, Held
    <3>4. /\ resets' \in [Tokens -> PasswordReset \cup {None}]
          /\ \A r \in Held(resets)' : r \in Held(resets) /\ resets'[r] = resets[r]
                                      /\ resets[r].user # i
      BY <2>15, NoneIsNo DEF DeleteAccount, ResetsWithout, AccountsTypeOK, Held
    <3>5. UNCHANGED <<clock, cookies, requester, count, history>>
      BY <2>15 DEF DeleteAccount
    <3>6. QED
      BY <3>2, <3>3, <3>4, <3>5 DEF AccountsTypeOK
  <2>16. ASSUME NEW w \in Workers, NEW e \in Emails, FindForGrant(w, e) PROVE AccountsTypeOK'
    <3>1. PICK i \in FindByEmail(e) :
            Goes(w, [IdleTask EXCEPT !.pc = "granting", !.job = "grant", !.id = i, !.email = e])
      BY <2>16 DEF FindForGrant
    <3>2. i \in Ids
      BY RowTypes DEF FindByEmail
    <3>3. [IdleTask EXCEPT !.pc = "granting", !.job = "grant", !.id = i, !.email = e] \in Task
      BY <3>2, IdleTaskType DEF Task
    <3>4. TaskHas([IdleTask EXCEPT !.pc = "granting", !.job = "grant", !.id = i, !.email = e])
      BY <3>2, NoneIsNo DEF IdleTask, TaskHas
    <3>5. worker' \in [Workers -> Task] /\ \A v \in Workers : TaskHas(worker'[v])
      BY <3>1, <3>3, <3>4, GoesType
    <3>6. QED
      BY <2>16, <3>5, AnotherType DEF FindForGrant, Counted, AccountsTypeOK, Held
  <2>17. ASSUME NEW w \in Workers, WriteGrant(w) PROVE AccountsTypeOK'
    <3>1. /\ worker[w].id \in Held(users) /\ worker[w].email \in Emails
      BY <2>17 DEF WriteGrant, AccountsTypeOK, Task, TaskHas
    <3>2. ASSUME NEW v \in Workers PROVE worker'[v] \in Task /\ TaskHas(worker'[v])
      <4>1. worker[v] \in Task /\ TaskHas(worker[v])
        BY DEF AccountsTypeOK
      <4>2. \/ worker'[v] = IdleTask \/ worker'[v] = worker[v]
            \/ worker'[v] = [worker[v] EXCEPT !.late = TRUE]
        BY <2>17 DEF WriteGrant
      <4>3. [worker[v] EXCEPT !.late = TRUE] \in Task
            /\ TaskHas([worker[v] EXCEPT !.late = TRUE])
        BY <4>1, ZenonT(60) DEF Task, TaskHas
      <4>4. QED
        BY <4>1, <4>2, <4>3, IdleTaskType
    <3>3. worker' \in [Workers -> Task]
      BY <2>17, <3>2 DEF WriteGrant
    <3>4. /\ grants' \in [Ids -> Emails \cup {None}]
          /\ Held(grants)' \subseteq Held(grants) \cup {worker[w].id}
      BY <2>17, <3>1 DEF WriteGrant, AccountsTypeOK, Held
    <3>5. UNCHANGED <<clock, users, revoked, resets, cookies, requester, count, history>>
      BY <2>17 DEF WriteGrant
    <3>6. QED
      BY <3>1, <3>2, <3>3, <3>4, <3>5 DEF AccountsTypeOK, Held
  <2>18. ASSUME NEW e \in Emails, RevokeAdmin(e) PROVE AccountsTypeOK'
    BY <2>18, AnotherType, ZenonT(60) DEF RevokeAdmin, AccountsTypeOK, Held
  <2>19. ASSUME NEW w \in Workers, Stop(w) PROVE AccountsTypeOK'
    <3>1. worker' \in [Workers -> Task] /\ \A v \in Workers : TaskHas(worker'[v])
      BY <2>19, IdleTaskType, GoesType DEF Stop
    <3>2. halfway' \subseteq Accts
      BY <2>19 DEF Stop, AccountsTypeOK, Task, TaskHas
    <3>3. UNCHANGED <<clock, tables, cookies, requester, count, uses, ended, clashed, raced, named>>
      BY <2>19 DEF Stop
    <3>4. QED
      BY <3>1, <3>2, <3>3 DEF AccountsTypeOK, Held
  <2>20. ASSUME Tick PROVE AccountsTypeOK'
    BY <2>20 DEF Tick, AccountsTypeOK, Held, Time
  <2>21. CASE UNCHANGED vars
    BY <2>21 DEF vars, AccountsTypeOK, Held
  <2>22. QED
    BY <2>1, <2>2, <2>3, <2>4, <2>5, <2>6, <2>7, <2>8, <2>9, <2>10, <2>11, <2>12, <2>13,
       <2>14, <2>15, <2>16, <2>17, <2>18, <2>19, <2>20, <2>21 DEF Next
<1>3. QED
  BY <1>1, <1>2, PTL DEF Spec

-----------------------------------------------------------------------------
(* The numbers of accounts and tokens, and the clock.                      *)

\* The row a sign-up adds is new.
LEMMA NewUserRow ==
    ASSUME AccountsTypeOK, Numbered
    PROVE  /\ NextRowid(users) \in 1 .. count.accounts + 1
           /\ NextRowid(users) \notin Held(users)
<1>1. count.accounts \in Nat /\ Held(users) \in SUBSET (1 .. count.accounts)
  BY BoundsAreNat DEF AccountsTypeOK, Numbered, Held, Ids
<1>2. QED
  BY <1>1, NextRowidIsNew DEF NextRowid

\* So is the row a reset request adds.
LEMMA NewResetRow ==
    ASSUME AccountsTypeOK, Numbered
    PROVE  /\ NextRowid(resets) \in 1 .. count.tokens + 1
           /\ NextRowid(resets) \notin Held(resets)
<1>1. count.tokens \in Nat /\ Held(resets) \in SUBSET (1 .. count.tokens)
  BY BoundsAreNat DEF AccountsTypeOK, Numbered, Held, Tokens
<1>2. QED
  BY <1>1, NextRowidIsNew DEF NextRowid

\* What SignUp does to the tables: a row of a new id, with a new number.
LEMMA SignUpAdds ==
    ASSUME AccountsTypeOK, Numbered, NEW e \in Emails, NEW p \in Passwords, SignUp(e, p)
    PROVE  \E i \in Ids :
             /\ i \notin Held(users) /\ i <= count.accounts + 1
             /\ Held(users)' = Held(users) \cup {i}
             /\ users'[i].email = e /\ users'[i].pw = p /\ users'[i].chosen = p
             /\ users'[i].acct = count.accounts + 1
             /\ \A j \in Ids \ {i} : users'[j] = users[j]
             /\ raced' = IF AboutToRehash(i) THEN raced \cup {count.accounts + 1} ELSE raced
             /\ count.accounts + 1 \in Accts
             /\ count'.accounts = count.accounts + 1 /\ count'.tokens = count.tokens
             /\ UNCHANGED <<clock, revoked, resets, grants, cookies, worker, requester,
                            uses, ended, clashed, halfway, named>>
<1>1. /\ NextRowid(users) \in Ids
      /\ count.accounts \in Nat /\ count.accounts + 1 \in Accts
      /\ count' = [count EXCEPT !.accounts = @ + 1, !.tasks = @ + 1]
      /\ count'.accounts = count.accounts + 1 /\ count'.tokens = count.tokens
      /\ users' = [users EXCEPT ![NextRowid(users)] =
                     [email |-> e, pw |-> p, marked |-> TRUE,
                      acct |-> count'.accounts, chosen |-> p]]
      /\ raced' = IF AboutToRehash(NextRowid(users)) THEN raced \cup {count'.accounts} ELSE raced
      /\ UNCHANGED <<clock, revoked, resets, grants, cookies, worker, requester,
                     uses, ended, clashed, halfway, named>>
  BY BoundsAreNat DEF SignUp, AccountsTypeOK, Accts
<1>2. NextRowid(users) \notin Held(users) /\ NextRowid(users) <= count.accounts + 1
  BY <1>1, NewUserRow
<1> DEFINE i == NextRowid(users)
           row == [email |-> e, pw |-> p, marked |-> TRUE,
                   acct |-> count.accounts + 1, chosen |-> p]
<1>3. row \in User
  BY <1>1 DEF User
<1>4. users' = [users EXCEPT ![i] = row] /\ i \in Ids
  BY <1>1
<1> HIDE DEF i, row
<1>5. Held(users)' = Held(users) \cup {i}
  BY <1>3, <1>4, NoneIsNo DEF Held, AccountsTypeOK
<1>6. users'[i] = row /\ \A j \in Ids \ {i} : users'[j] = users[j]
  BY <1>4 DEF AccountsTypeOK
<1>7. /\ users'[i].email = e /\ users'[i].pw = p /\ users'[i].chosen = p
      /\ users'[i].acct = count.accounts + 1
  BY <1>6 DEF row
<1>8. i <= count.accounts + 1 /\ i \notin Held(users)
      /\ raced' = IF AboutToRehash(i) THEN raced \cup {count.accounts + 1} ELSE raced
  BY <1>1, <1>2 DEF i
<1>9. QED
  BY <1>1, <1>4, <1>5, <1>6, <1>7, <1>8

\* What InsertReset does: a row of a new id, with a new token.
LEMMA InsertResetAdds ==
    ASSUME AccountsTypeOK, Numbered, InsertReset
    PROVE  \E r \in Tokens :
             /\ r \notin Held(resets) /\ r <= count.tokens + 1
             /\ Held(resets)' = Held(resets) \cup {r}
             /\ resets'[r].user = requester.id
             /\ resets'[r].acct = users[requester.id].acct
             /\ resets'[r].token = count.tokens + 1
             /\ resets'[r].created = clock /\ resets'[r].used = None
             /\ \A q \in Tokens \ {r} : resets'[q] = resets[q]
             /\ requester \in [id : Ids, now : Time] /\ requester.id \in Held(users)
             /\ requester # None /\ requester' = None
             /\ count.tokens + 1 \in Tokens
             /\ count'.tokens = count.tokens + 1 /\ count'.accounts = count.accounts
             /\ UNCHANGED <<clock, users, revoked, grants, cookies, worker, history>>
<1>1. /\ requester # None /\ requester' = None
      /\ requester \in [id : Ids, now : Time] /\ requester.id \in Held(users)
      /\ count.tokens < MaxTokens /\ count.tokens \in Nat
      /\ count' = [count EXCEPT !.tokens = @ + 1]
      /\ UNCHANGED <<clock, users, revoked, grants, cookies, worker, history>>
      /\ resets' = [resets EXCEPT ![NextRowid(resets)] =
                    [user |-> requester.id, acct |-> users[requester.id].acct,
                     token |-> count'.tokens, created |-> clock,
                     expires |-> requester.now + Expiry, used |-> None]]
  BY BoundsAreNat DEF InsertReset, AccountsTypeOK
<1>2. count'.tokens = count.tokens + 1 /\ count'.accounts = count.accounts
  BY <1>1 DEF AccountsTypeOK
<1> DEFINE r == NextRowid(resets)
           row == [user |-> requester.id, acct |-> users[requester.id].acct,
                   token |-> count.tokens + 1, created |-> clock,
                   expires |-> requester.now + Expiry, used |-> None]
<1>3. /\ r \in Tokens /\ r \notin Held(resets) /\ r <= count.tokens + 1
      /\ count.tokens + 1 \in Tokens
  BY <1>1, BoundsAreNat, NewResetRow DEF Tokens
<1>4. row \in PasswordReset
  BY <1>1, <1>3, BoundsAreNat, RowTypes DEF PasswordReset, AccountsTypeOK, User, Time
<1>5. resets' = [resets EXCEPT ![r] = row]
  BY <1>1, <1>2
<1> HIDE DEF r, row
<1>6. Held(resets)' = Held(resets) \cup {r}
  BY <1>3, <1>4, <1>5, NoneIsNo DEF Held, AccountsTypeOK
<1>7. resets'[r] = row /\ \A q \in Tokens \ {r} : resets'[q] = resets[q]
  BY <1>3, <1>5 DEF AccountsTypeOK
<1>8. /\ resets'[r].user = requester.id
      /\ resets'[r].acct = users[requester.id].acct
      /\ resets'[r].token = count.tokens + 1
      /\ resets'[r].created = clock /\ resets'[r].used = None
  BY <1>7 DEF row
<1>9. QED
  BY <1>1, <1>2, <1>3, <1>6, <1>7, <1>8

\* Rehash and SetPassword change passwords and marks of rows, and nothing else of users.
LEMMA PasswordWritten ==
    ASSUME AccountsTypeOK, NEW i \in Held(users), NEW row \in User,
           row.acct = users[i].acct, row.email = users[i].email,
           users' = [users EXCEPT ![i] = row]
    PROVE  /\ Held(users)' = Held(users)
           /\ \A j \in Held(users) : users'[j].acct = users[j].acct /\ users'[j].email = users[j].email
           /\ users'[i] = row
           /\ \A j \in Ids \ {i} : users'[j] = users[j]
<1>1. i \in Ids /\ users'[i] = row /\ \A j \in Ids \ {i} : users'[j] = users[j]
  BY DEF AccountsTypeOK, Held
<1>2. DOMAIN users' = Ids /\ DOMAIN users = Ids
  BY DEF AccountsTypeOK
<1>3. QED
  BY <1>1, <1>2, NoneIsNo DEF Held

\* What Rehash does to the table of users.
LEMMA RehashKeeps ==
    ASSUME AccountsTypeOK, NEW w \in Workers, Rehash(w)
    PROVE  LET i == worker[w].id IN
           /\ i \in Held(users) /\ i \in Ids
           /\ Held(users)' = Held(users)
           /\ \A j \in Held(users) : users'[j].acct = users[j].acct /\ users'[j].email = users[j].email
           /\ users'[i].pw = worker[w].pw /\ users'[i].chosen = users[i].chosen
           /\ \A j \in Ids \ {i} : users'[j] = users[j]
<1> DEFINE i == worker[w].id
           row == [users[i] EXCEPT !.pw = worker[w].pw, !.marked = TRUE]
<1>1. /\ i \in Held(users) /\ i \in Ids /\ users[i] \in User /\ worker[w].pw \in Passwords
  BY RowTypes DEF Rehash, AccountsTypeOK, Task, TaskHas
<1>2. /\ row \in User /\ row.acct = users[i].acct /\ row.email = users[i].email
      /\ row.pw = worker[w].pw /\ row.chosen = users[i].chosen
  BY <1>1 DEF User
<1>3. users' = [users EXCEPT ![i] = row]
  BY DEF Rehash
<1> HIDE DEF row, i
<1>4. /\ Held(users)' = Held(users)
      /\ \A j \in Held(users) : users'[j].acct = users[j].acct /\ users'[j].email = users[j].email
      /\ users'[i] = row
      /\ \A j \in Ids \ {i} : users'[j] = users[j]
  BY <1>1, <1>2, <1>3, PasswordWritten
<1>5. QED
  BY <1>1, <1>2, <1>4 DEF i

\* What SetPassword does to the tables.
LEMMA SetPasswordWrites ==
    ASSUME AccountsTypeOK, NEW w \in Workers, SetPassword(w)
    PROVE  LET t == worker[w] IN
           /\ t.pc = "checked" /\ t.job = "reset"
           /\ t.id \in Held(users) /\ t.id \in Ids
           /\ t.reset \in Held(resets) /\ t.reset \in Tokens
           /\ t.token \in Tokens
           /\ Held(users)' = Held(users)
           /\ \A j \in Held(users) : users'[j].acct = users[j].acct /\ users'[j].email = users[j].email
           /\ users'[t.id].pw = t.pw
           /\ users[t.id].acct = t.acct => users'[t.id].chosen = t.pw
           /\ \A j \in Ids \ {t.id} : users'[j] = users[j]
           /\ Held(resets)' = Held(resets)
           /\ \A r \in Held(resets) :
                /\ resets'[r].user = resets[r].user /\ resets'[r].acct = resets[r].acct
                /\ resets'[r].token = resets[r].token /\ resets'[r].created = resets[r].created
           /\ resets'[t.reset].used = clock
           /\ \A r \in Tokens \ {t.reset} : resets'[r] = resets[r]
<1> DEFINE t == worker[w]
           row == [users[t.id] EXCEPT !.pw = t.pw, !.marked = TRUE,
                                      !.chosen = IF users[t.id].acct = t.acct THEN t.pw ELSE @]
           reset == [resets[t.reset] EXCEPT !.used = clock]
<1>1. /\ t.pc = "checked" /\ t.job = "reset" /\ t.id \in Held(users) /\ t.reset \in Held(resets)
      /\ t.id \in Ids /\ t.reset \in Tokens /\ t.token \in Tokens
      /\ users[t.id] \in User /\ resets[t.reset] \in PasswordReset /\ t.pw \in Passwords
  BY RowTypes DEF SetPassword, AccountsTypeOK, Task, TaskHas
<1>2. /\ row \in User /\ row.acct = users[t.id].acct /\ row.email = users[t.id].email
      /\ row.pw = t.pw /\ (users[t.id].acct = t.acct => row.chosen = t.pw)
  BY <1>1 DEF User
<1>3. users' = [users EXCEPT ![t.id] = row] /\ resets' = [resets EXCEPT ![t.reset] = reset]
  BY DEF SetPassword
<1>4. /\ reset.user = resets[t.reset].user /\ reset.acct = resets[t.reset].acct
      /\ reset.token = resets[t.reset].token /\ reset.created = resets[t.reset].created
      /\ reset.used = clock /\ reset \in PasswordReset
  BY <1>1 DEF PasswordReset, AccountsTypeOK
<1> HIDE DEF t, row, reset
<1>5. /\ Held(users)' = Held(users)
      /\ \A j \in Held(users) : users'[j].acct = users[j].acct /\ users'[j].email = users[j].email
      /\ users'[t.id] = row
      /\ \A j \in Ids \ {t.id} : users'[j] = users[j]
  BY <1>1, <1>2, <1>3, PasswordWritten
<1>6. /\ resets'[t.reset] = reset /\ \A r \in Tokens \ {t.reset} : resets'[r] = resets[r]
      /\ DOMAIN resets = Tokens /\ DOMAIN resets' = Tokens
  BY <1>1, <1>3 DEF AccountsTypeOK
<1>7. Held(resets)' = Held(resets)
  BY <1>1, <1>4, <1>6, NoneIsNo DEF Held
<1>8. ASSUME NEW r \in Held(resets)
      PROVE  /\ resets'[r].user = resets[r].user /\ resets'[r].acct = resets[r].acct
             /\ resets'[r].token = resets[r].token /\ resets'[r].created = resets[r].created
  BY <1>4, <1>6 DEF Held
<1>9. QED
  BY <1>1, <1>2, <1>4, <1>5, <1>6, <1>7, <1>8 DEF t

\* What DeleteAccount does to the tables: one row of users goes, and the rows that
\* refer to it.
LEMMA DeleteAccountRemoves ==
    ASSUME AccountsTypeOK, NEW w \in Workers, DeleteAccount(w)
    PROVE  LET i == worker[w].id IN
           /\ i \in Ids
           /\ Held(users)' = Held(users) \ {i}
           /\ \A j \in Held(users)' : users'[j] = users[j]
           /\ \A j \in Ids \ {i} : revoked'[j] = revoked[j] /\ grants'[j] = grants[j]
           /\ grants'[i] = None /\ revoked'[i] = None
           /\ Held(resets)' = {r \in Held(resets) : resets[r].user # i}
           /\ \A r \in Held(resets)' : resets'[r] = resets[r]
<1> DEFINE i == worker[w].id
<1>1. i \in Ids
  BY DEF DeleteAccount, AccountsTypeOK, Task, TaskHas
<1>2. /\ users' = [users EXCEPT ![i] = None] /\ revoked' = [revoked EXCEPT ![i] = None]
      /\ grants' = [grants EXCEPT ![i] = None] /\ resets' = ResetsWithout(i)
  BY DEF DeleteAccount
<1> HIDE DEF i
<1>3. /\ Held(users)' = Held(users) \ {i}
      /\ \A j \in Held(users)' : users'[j] = users[j]
      /\ \A j \in Ids \ {i} : revoked'[j] = revoked[j] /\ grants'[j] = grants[j]
      /\ grants'[i] = None /\ revoked'[i] = None
  BY <1>1, <1>2 DEF AccountsTypeOK, Held
<1>4. /\ Held(resets)' = {r \in Held(resets) : resets[r].user # i}
      /\ \A r \in Held(resets)' : resets'[r] = resets[r]
  BY <1>2 DEF ResetsWithout, AccountsTypeOK, Held
<1>5. QED
  BY <1>1, <1>3, <1>4 DEF i

\* What WriteRevocation does to the workers.
LEMMA WriteRevocationWorkers ==
    ASSUME AccountsTypeOK, NEW w \in Workers, WriteRevocation(w)
    PROVE  /\ worker'[w].pc \in {"deleting", "idle"}
           /\ worker'[w].pc = "deleting" => worker'[w] = [worker[w] EXCEPT !.pc = "deleting"]
           /\ worker'[w].pc = "idle" => worker'[w] = IdleTask
           /\ \A v \in Workers \ {w} :
                worker'[v] = IF worker[v].pc = "writing" /\ worker[v].id = worker[w].id
                             THEN [worker[v] EXCEPT !.overtaken = TRUE] ELSE worker[v]
<1>1. worker'[w] = IF worker[w].job = "delete" THEN [worker[w] EXCEPT !.pc = "deleting"] ELSE IdleTask
  BY DEF WriteRevocation
<1>2. worker[w] \in Task
  BY DEF AccountsTypeOK
<1>3. /\ [worker[w] EXCEPT !.pc = "deleting"].pc = "deleting"
      /\ IdleTask.pc = "idle"
  BY <1>2 DEF Task, IdleTask
<1>4. \A v \in Workers \ {w} :
         worker'[v] = IF worker[v].pc = "writing" /\ worker[v].id = worker[w].id
                      THEN [worker[v] EXCEPT !.overtaken = TRUE] ELSE worker[v]
  BY DEF WriteRevocation
<1>5. QED
  BY <1>1, <1>3, <1>4

\* Every step keeps the numbering.
LEMMA NumberedStep ==
    ASSUME AccountsTypeOK, Numbered, [Next]_vars
    PROVE  Numbered'
<1> USE DEF tables, history
<1>1. ASSUME NEW e \in Emails, NEW p \in Passwords, SignUp(e, p) PROVE Numbered'
  <2>1. PICK i \in Ids :
          /\ i \notin Held(users) /\ i <= count.accounts + 1
          /\ Held(users)' = Held(users) \cup {i}
          /\ users'[i].acct = count.accounts + 1
          /\ \A j \in Ids \ {i} : users'[j] = users[j]
          /\ count.accounts + 1 \in Accts
          /\ count'.accounts = count.accounts + 1 /\ count'.tokens = count.tokens
          /\ UNCHANGED <<clock, resets, worker, requester, ended>>
    BY <1>1, SignUpAdds
  <2>2. count.accounts \in Nat /\ count.tokens \in Nat
    BY BoundsAreNat DEF AccountsTypeOK
  <2>3. \A j \in Held(users) : j \in Nat /\ users[j].acct \in Nat /\ j # i /\ j \in Ids
    BY <2>1, RowTypes, BoundsAreNat DEF User, Accts, Ids
  <2>4. /\ \A j \in Held(users)' : j <= count'.accounts /\ users'[j].acct <= count'.accounts
        /\ \A j, k \in Held(users)' : users'[j].acct = users'[k].acct => j = k
    BY <2>1, <2>2, <2>3, BoundsAreNat DEF Numbered, Ids
  <2>5. \A a \in Accts : ended'[a] <= clock' /\ (a > count'.accounts => ended'[a] = 0)
    BY <2>1, <2>2 DEF Numbered, Accts
  <2>6. ASSUME NEW r \in Held(resets)'
        PROVE  /\ r <= count'.tokens /\ resets'[r].token <= count'.tokens
               /\ resets'[r].acct = users'[resets'[r].user].acct
               /\ resets'[r].created <= clock'
               /\ resets'[r].used # None => resets'[r].used <= clock'
    BY <2>1, <2>3 DEF Numbered, AccountsTypeOK, Held
  <2>7. \A w \in Workers : TaskNumbered(worker[w])'
    BY <2>1, <2>2, BoundsAreNat DEF Numbered, TaskNumbered, AccountsTypeOK, Task, Accts
  <2>8. QED
    BY <2>1, <2>4, <2>5, <2>6, <2>7 DEF Numbered
<1>2. ASSUME NEW w \in Workers, NEW t, Goes(w, t), TaskNumbered(t),
             count'.accounts = count.accounts, count'.tokens = count.tokens,
             UNCHANGED <<clock, users, resets, ended>>,
             requester' = requester \/ requester' = None
      PROVE  Numbered'
  BY <1>2 DEF Numbered, TaskNumbered, Goes, AccountsTypeOK, Held
<1>3. ASSUME NEW w \in Workers, NEW e \in Emails, NEW p \in Passwords, Verify(w, e, p)
      PROVE  Numbered'
  <2>1. PICK i \in FindByEmail(e) :
          Goes(w, [IdleTask EXCEPT !.pc = "verifying", !.job = "login", !.id = i, !.email = e,
                                   !.acct = users[i].acct, !.pw = p, !.old = IsOld(i),
                                   !.bare = ~ users[i].marked])
    BY <1>3 DEF Verify
  <2>2. i \in Held(users) /\ users[i].acct <= count.accounts
    BY DEF FindByEmail, Numbered
  <2>3. TaskNumbered([IdleTask EXCEPT !.pc = "verifying", !.job = "login", !.id = i, !.email = e,
                                      !.acct = users[i].acct, !.pw = p, !.old = IsOld(i),
                                      !.bare = ~ users[i].marked])
    BY <1>3, <2>2, AnotherType DEF TaskNumbered, IdleTask, Verify, Counted, AccountsTypeOK, Time
  <2>4. /\ count'.accounts = count.accounts /\ count'.tokens = count.tokens
        /\ UNCHANGED <<clock, users, resets, ended, requester>>
    BY <1>3, AnotherType DEF Verify, Counted
  <2>5. QED
    BY <1>2, <2>1, <2>3, <2>4
<1>4. ASSUME NEW w \in Workers, Rehash(w) PROVE Numbered'
  <2>1. worker[w].id \in Held(users) /\ worker[w].id \in Ids /\ users[worker[w].id] \in User
        /\ worker[w].pw \in Passwords
    BY <1>4, RowTypes DEF Rehash, AccountsTypeOK, Task, TaskHas
  <2>2. [users[worker[w].id] EXCEPT !.pw = worker[w].pw, !.marked = TRUE] \in User
    BY <2>1 DEF User
  <2>3. Held(users)' = Held(users) /\ \A i \in Held(users) : users'[i].acct = users[i].acct
    BY <1>4, RehashKeeps
  <2>4. \A v \in Workers : TaskNumbered(worker[v])'
    BY <1>4 DEF Rehash, Goes, Numbered, TaskNumbered, AccountsTypeOK, Task
  <2>5. /\ UNCHANGED <<clock, resets, count, requester>> /\ ended' = ended
        /\ Held(resets)' = Held(resets)
    BY <1>4 DEF Rehash, Held
  <2>6. \A r \in Held(resets) : resets[r].user \in Held(users)
    BY DEF AccountsTypeOK
  <2>7. QED
    BY <2>3, <2>4, <2>5, <2>6 DEF Numbered
<1>5. ASSUME NEW w \in Workers, Issue(w) PROVE Numbered'
  <2>1. TaskNumbered(IdleTask)
    BY <1>5 DEF TaskNumbered, IdleTask, Issue, AccountsTypeOK, Time
  <2>2. QED
    BY <1>2, <1>5, <2>1 DEF Issue
<1>6. ASSUME NEW s \in cookies, Forget(s) PROVE Numbered'
  BY <1>6, AnotherType DEF Forget, Numbered, TaskNumbered, Held
<1>7. ASSUME NEW e \in Emails, CountRequests(e) PROVE Numbered'
  <2>1. requester'.now <= clock'
    BY <1>7 DEF CountRequests, AccountsTypeOK, Time
  <2>2. QED
    BY <1>7, <2>1, AnotherType DEF CountRequests, Numbered, TaskNumbered, Held
<1>8. ASSUME InsertReset PROVE Numbered'
  <2>1. PICK r \in Tokens :
          /\ r \notin Held(resets) /\ r <= count.tokens + 1
          /\ Held(resets)' = Held(resets) \cup {r}
          /\ resets'[r].user = requester.id
          /\ resets'[r].acct = users[requester.id].acct
          /\ resets'[r].token = count.tokens + 1
          /\ resets'[r].created = clock /\ resets'[r].used = None
          /\ \A q \in Tokens \ {r} : resets'[q] = resets[q]
          /\ requester' = None
          /\ count'.tokens = count.tokens + 1 /\ count'.accounts = count.accounts
          /\ UNCHANGED <<clock, users, worker, ended>>
    BY <1>8, InsertResetAdds
  <2>2. count.tokens \in Nat /\ clock \in Nat
    BY BoundsAreNat DEF AccountsTypeOK, Time
  <2>3. ASSUME NEW q \in Held(resets)'
        PROVE  /\ q <= count'.tokens /\ resets'[q].token <= count'.tokens
               /\ resets'[q].acct = users'[resets'[q].user].acct
               /\ resets'[q].created <= clock'
               /\ resets'[q].used # None => resets'[q].used <= clock'
    <3>1. CASE q = r
      BY <2>1, <2>2, <3>1 DEF Tokens
    <3>2. CASE q # r
      <4>1. q \in Held(resets) /\ q \in Tokens /\ resets'[q] = resets[q]
            /\ q \in Nat /\ resets[q].token \in Nat
        BY <2>1, <3>2, RowTypes, BoundsAreNat DEF Tokens, PasswordReset
      <4>2. QED
        BY <2>1, <2>2, <4>1 DEF Numbered
    <3>3. QED
      BY <3>1, <3>2
  <2>4. \A w \in Workers : TaskNumbered(worker[w])'
    BY <2>1, <2>2, BoundsAreNat DEF Numbered, TaskNumbered, AccountsTypeOK, Task, Tokens
  <2>5. QED
    BY <2>1, <2>3, <2>4 DEF Numbered, Held
<1>9. ASSUME RequestFails PROVE Numbered'
  BY <1>9 DEF RequestFails, Numbered, TaskNumbered, Held
<1>10. ASSUME NEW w \in Workers, NEW p \in Passwords, CheckToken(w, p) PROVE Numbered'
  <2>1. PICK r \in Held(resets) :
          Goes(w, [IdleTask EXCEPT !.pc = "checked", !.job = "reset", !.id = resets[r].user,
                                   !.acct = resets[r].acct, !.pw = p, !.reset = r,
                                   !.token = resets[r].token])
    BY <1>10 DEF CheckToken
  <2>2. resets[r].acct <= count.accounts /\ resets[r].token <= count.tokens
    BY DEF Numbered, AccountsTypeOK
  <2>3. TaskNumbered([IdleTask EXCEPT !.pc = "checked", !.job = "reset", !.id = resets[r].user,
                                      !.acct = resets[r].acct, !.pw = p, !.reset = r,
                                      !.token = resets[r].token])
    BY <1>10, <2>2, AnotherType
       DEF TaskNumbered, IdleTask, CheckToken, Counted, AccountsTypeOK, Time
  <2>4. /\ count'.accounts = count.accounts /\ count'.tokens = count.tokens
        /\ UNCHANGED <<clock, users, resets, ended, requester>>
    BY <1>10, AnotherType DEF CheckToken, Counted
  <2>5. QED
    BY <1>2, <2>1, <2>3, <2>4
<1>11. ASSUME NEW w \in Workers, SetPassword(w) PROVE Numbered'
  <2> DEFINE t == worker[w]
  <2>1. /\ t.id \in Held(users) /\ t \in Task /\ users[t.id] \in User
        /\ Held(users)' = Held(users)
        /\ \A j \in Held(users) : users'[j].acct = users[j].acct
        /\ Held(resets)' = Held(resets)
        /\ \A r \in Held(resets) :
             /\ resets'[r].user = resets[r].user /\ resets'[r].acct = resets[r].acct
             /\ resets'[r].token = resets[r].token /\ resets'[r].created = resets[r].created
        /\ resets'[t.reset].used = clock
        /\ \A r \in Tokens \ {t.reset} : resets'[r] = resets[r]
    BY <1>11, SetPasswordWrites, RowTypes DEF AccountsTypeOK
  <2>2. UNCHANGED <<clock, requester, count, ended>>
        /\ worker' = [worker EXCEPT ![w] = [t EXCEPT !.pc = "revoking", !.acct = users[t.id].acct]]
    BY <1>11 DEF SetPassword, Goes
  <2>3. clock \in Nat
    BY DEF AccountsTypeOK, Time
  <2>4. ASSUME NEW r \in Held(resets)'
        PROVE  /\ r <= count'.tokens /\ resets'[r].token <= count'.tokens
               /\ resets'[r].acct = users'[resets'[r].user].acct
               /\ resets'[r].created <= clock'
               /\ resets'[r].used # None => resets'[r].used <= clock'
    <3>1. r \in Held(resets) /\ r \in Tokens /\ resets[r].user \in Held(users)
      BY <2>1, RowTypes DEF AccountsTypeOK
    <3>2. QED
      BY <2>1, <2>2, <2>3, <3>1 DEF Numbered
  <2>5. ASSUME NEW v \in Workers PROVE TaskNumbered(worker[v])'
    <3>1. TaskNumbered(worker[v]) /\ TaskNumbered(t) /\ users[t.id].acct <= count.accounts
      BY <2>1 DEF Numbered
    <3>2. TaskNumbered([t EXCEPT !.pc = "revoking", !.acct = users[t.id].acct])
      BY <2>1, <3>1 DEF TaskNumbered, Task
    <3>3. worker'[v] = worker[v] \/ worker'[v] = [t EXCEPT !.pc = "revoking", !.acct = users[t.id].acct]
      BY <2>2 DEF AccountsTypeOK
    <3>4. TaskNumbered(worker'[v])
      BY <3>1, <3>2, <3>3
    <3>5. QED
      BY <2>2, <3>4 DEF TaskNumbered
  <2>6. QED
    BY <2>1, <2>2, <2>4, <2>5 DEF Numbered
<1>12. ASSUME NEW w \in Workers, NEW e \in Emails, FindForRevoke(w, e) PROVE Numbered'
  <2>1. PICK i \in FindByEmail(e) :
          Goes(w, [IdleTask EXCEPT !.pc = "revoking", !.job = "revoke", !.id = i,
                                   !.acct = users[i].acct])
    BY <1>12 DEF FindForRevoke
  <2>2. users[i].acct <= count.accounts
    BY DEF FindByEmail, Numbered
  <2>3. /\ count'.accounts = count.accounts /\ count'.tokens = count.tokens
        /\ UNCHANGED <<clock, users, resets, ended, requester>>
    BY <1>12, AnotherType DEF FindForRevoke, Counted
  <2>4. TaskNumbered([IdleTask EXCEPT !.pc = "revoking", !.job = "revoke", !.id = i,
                                      !.acct = users[i].acct])
    BY <2>2, <2>3 DEF TaskNumbered, IdleTask, AccountsTypeOK, Time
  <2>5. QED
    BY <1>2, <2>1, <2>3, <2>4
<1>13. ASSUME NEW w \in Workers, TakeEpoch(w) PROVE Numbered'
  <2> DEFINE t == [worker[w] EXCEPT !.pc = "writing", !.epoch = clock - Backoff(worker[w].job)]
  <2>1. worker[w] \in Task /\ clock \in Nat /\ clock >= 1 /\ TaskNumbered(worker[w])
    BY DEF AccountsTypeOK, Time, Numbered
  <2>2. Goes(w, t) /\ UNCHANGED <<clock, users, resets, ended, count, requester>>
    BY <1>13 DEF TakeEpoch
  <2>3. TaskNumbered(t)
    BY <2>1, <2>2 DEF TaskNumbered, Backoff, Task
  <2> HIDE DEF t
  <2>4. QED
    BY <1>2, <2>2, <2>3
<1>14. ASSUME NEW w \in Workers, WriteRevocation(w) PROVE Numbered'
  <2> DEFINE a == users[worker[w].id].acct
  <2>1. /\ UNCHANGED <<clock, users, resets, requester, count>>
        /\ ended' = [ended EXCEPT ![a] = Max({@, worker[w].epoch})]
        /\ worker[w].id \in Held(users)
    BY <1>14 DEF WriteRevocation
  <2>2. a \in Accts /\ a <= count.accounts /\ ended[a] \in Nat /\ ended[a] <= clock
        /\ worker[w].epoch \in Int /\ worker[w].epoch <= clock /\ clock \in Nat
    BY <2>1, RowTypes DEF User, Numbered, TaskNumbered, AccountsTypeOK, Task, Time
  <2>3. Max({ended[a], worker[w].epoch}) <= clock
    BY <2>2, MaxOfTwo
  <2>4. \A b \in Accts : ended'[b] <= clock' /\ (b > count'.accounts => ended'[b] = 0)
    <3>1. count.accounts \in Nat /\ ended \in [Accts -> Nat]
      BY DEF AccountsTypeOK
    <3> HIDE DEF a
    <3>2. QED
      BY <2>1, <2>2, <2>3, <3>1 DEF Numbered, Accts
  <2>5. ASSUME NEW v \in Workers PROVE TaskNumbered(worker'[v])
    <3>1. TaskNumbered(worker[v]) /\ worker[v] \in Task
      BY DEF Numbered, AccountsTypeOK
    <3>2. \/ worker'[v] = [worker[v] EXCEPT !.pc = "deleting"]
          \/ worker'[v] = IdleTask
          \/ worker'[v] = [worker[v] EXCEPT !.overtaken = TRUE]
          \/ worker'[v] = worker[v]
      BY <1>14 DEF WriteRevocation
    <3>3. /\ TaskNumbered([worker[v] EXCEPT !.pc = "deleting"])
          /\ TaskNumbered([worker[v] EXCEPT !.overtaken = TRUE])
          /\ TaskNumbered(IdleTask)
      BY <3>1, <2>2 DEF TaskNumbered, Task, IdleTask
    <3>4. QED
      BY <3>1, <3>2, <3>3
  <2>6. QED
    BY <2>1, <2>4, <2>5 DEF Numbered, TaskNumbered, Held
<1>15. ASSUME NEW w \in Workers, NEW i \in Ids, CheckTarget(w, i) PROVE Numbered'
  <2>1. users[i].acct <= count.accounts
    BY <1>15 DEF CheckTarget, Numbered
  <2>2. /\ count'.accounts = count.accounts /\ count'.tokens = count.tokens
        /\ UNCHANGED <<clock, users, resets, ended, requester>>
        /\ Goes(w, [IdleTask EXCEPT !.pc = "revoking", !.job = "delete", !.id = i,
                                    !.acct = users[i].acct])
    BY <1>15, AnotherType DEF CheckTarget, Counted
  <2>3. TaskNumbered([IdleTask EXCEPT !.pc = "revoking", !.job = "delete", !.id = i,
                                      !.acct = users[i].acct])
    BY <2>1, <2>2 DEF TaskNumbered, IdleTask, AccountsTypeOK, Time
  <2>4. QED
    BY <1>2, <2>2, <2>3
<1>16. ASSUME NEW w \in Workers, DeleteAccount(w) PROVE Numbered'
  <2>1. /\ Held(users)' \subseteq Held(users)
        /\ \A j \in Held(users)' : users'[j] = users[j]
        /\ Held(resets)' = {r \in Held(resets) : resets[r].user # worker[w].id}
        /\ Held(users)' = Held(users) \ {worker[w].id}
        /\ \A r \in Held(resets)' : resets'[r] = resets[r]
    BY <1>16, DeleteAccountRemoves
  <2>2. UNCHANGED <<clock, requester, count, ended>> /\ Goes(w, IdleTask)
    BY <1>16 DEF DeleteAccount
  <2>3. ASSUME NEW v \in Workers PROVE TaskNumbered(worker'[v])
    BY <2>2 DEF Goes, TaskNumbered, IdleTask, AccountsTypeOK, Numbered, Time
  <2>4. \A r \in Held(resets)' : resets[r].user \in Held(users)'
    BY <2>1 DEF AccountsTypeOK
  <2>5. QED
    BY <2>1, <2>2, <2>3, <2>4 DEF Numbered, TaskNumbered
<1>17. ASSUME NEW w \in Workers, NEW e \in Emails, FindForGrant(w, e) PROVE Numbered'
  <2>1. PICK i \in FindByEmail(e) :
          Goes(w, [IdleTask EXCEPT !.pc = "granting", !.job = "grant", !.id = i, !.email = e])
    BY <1>17 DEF FindForGrant
  <2>2. /\ count'.accounts = count.accounts /\ count'.tokens = count.tokens
        /\ UNCHANGED <<clock, users, resets, ended, requester>>
    BY <1>17, AnotherType DEF FindForGrant, Counted
  <2>3. TaskNumbered([IdleTask EXCEPT !.pc = "granting", !.job = "grant", !.id = i, !.email = e])
    BY <2>2 DEF TaskNumbered, IdleTask, AccountsTypeOK, Time
  <2>4. QED
    BY <1>2, <2>1, <2>2, <2>3
<1>18. ASSUME NEW w \in Workers, WriteGrant(w) PROVE Numbered'
  <2>1. UNCHANGED <<clock, users, resets, requester, count, ended>>
    BY <1>18 DEF WriteGrant
  <2>2. ASSUME NEW v \in Workers PROVE TaskNumbered(worker'[v])
    <3>1. TaskNumbered(worker[v]) /\ worker[v] \in Task /\ clock \in Nat
      BY DEF Numbered, AccountsTypeOK, Time
    <3>2. \/ worker'[v] = IdleTask \/ worker'[v] = worker[v]
          \/ worker'[v] = [worker[v] EXCEPT !.late = TRUE]
      BY <1>18 DEF WriteGrant
    <3>3. TaskNumbered([worker[v] EXCEPT !.late = TRUE]) /\ TaskNumbered(IdleTask)
      BY <3>1 DEF TaskNumbered, Task, IdleTask
    <3>4. QED
      BY <3>1, <3>2, <3>3
  <2>3. QED
    BY <2>1, <2>2 DEF Numbered, TaskNumbered, Held
<1>19. ASSUME NEW e \in Emails, RevokeAdmin(e) PROVE Numbered'
  BY <1>19, AnotherType DEF RevokeAdmin, Numbered, TaskNumbered, Held
<1>20. ASSUME NEW w \in Workers, Stop(w) PROVE Numbered'
  <2>1. TaskNumbered(IdleTask)
    BY <1>20 DEF TaskNumbered, IdleTask, Stop, AccountsTypeOK, Time
  <2>2. QED
    BY <1>2, <1>20, <2>1 DEF Stop
<1>21. ASSUME Tick PROVE Numbered'
  <2>1. clock' = clock + 1 /\ clock \in Nat
        /\ UNCHANGED <<users, resets, worker, requester, count, ended>>
    BY <1>21 DEF Tick, AccountsTypeOK, Time
  <2>2. \A w \in Workers : TaskNumbered(worker[w])'
    BY <2>1 DEF Numbered, TaskNumbered, AccountsTypeOK, Task
  <2>3. \A r \in Held(resets) : resets[r].created \in Nat
                               /\ (resets[r].used # None => resets[r].used \in Nat)
    BY RowTypes DEF PasswordReset, Time
  <2>4. \A a \in Accts : ended[a] \in Nat
    BY DEF AccountsTypeOK
  <2>5. requester # None => requester.now \in Nat
    BY DEF AccountsTypeOK, Time
  <2>6. QED
    BY <2>1, <2>2, <2>3, <2>4, <2>5 DEF Numbered, Held
<1>22. CASE UNCHANGED vars
  BY <1>22 DEF vars, Numbered, TaskNumbered, Held
<1>23. QED
  BY <1>1, <1>3, <1>4, <1>5, <1>6, <1>7, <1>8, <1>9, <1>10, <1>11, <1>12, <1>13,
     <1>14, <1>15, <1>16, <1>17, <1>18, <1>19, <1>20, <1>21, <1>22 DEF Next

\* Always.
LEMMA AccountsNumbered == Spec => []Numbered
<1>1. Init => Numbered
  <2> SUFFICES ASSUME Init PROVE Numbered
    OBVIOUS
  <2>1. PICK n \in 0 .. MaxAccounts : Founders \in [1 .. n -> Emails]
    BY AccountsAssumption
  <2>2. DOMAIN Founders = 1 .. n /\ Cardinality(1 .. n) = n /\ n \in Nat
    BY <2>1, BoundsAreNat, FS_Interval
  <2>3. count.accounts = n /\ count.tokens = 0 /\ clock = 1
    BY <2>2 DEF Init
  <2>4. \A i \in Held(users) : i \in 1 .. n /\ users[i].acct = i
    BY <2>2 DEF Init, Held
  <2>5. \A w \in Workers : TaskNumbered(worker[w])
    BY <2>3 DEF Init, TaskNumbered, IdleTask
  <2>6. Held(resets) = {} /\ requester = None /\ \A a \in Accts : ended[a] = 0
    BY DEF Init, Held
  <2>7. QED
    BY <2>2, <2>3, <2>4, <2>5, <2>6 DEF Numbered
<1>2. AccountsTypeOK /\ Numbered /\ [Next]_vars => Numbered'
  BY NumberedStep
<1>3. QED
  BY <1>1, <1>2, AccountsTypeCorrect, PTL DEF Spec

-----------------------------------------------------------------------------
(* Administrators.                                                         *)

\* Every step keeps grants to the emails that the operator named.
LEMMA GrantsWereNamedStep ==
    ASSUME AccountsTypeOK, GrantsWereNamed, [Next]_vars
    PROVE  GrantsWereNamed'
<1> USE DEF tables, history
<1>1. ASSUME NEW e \in Emails, NEW p \in Passwords, SignUp(e, p) PROVE GrantsWereNamed'
  BY <1>1 DEF AccountsTypeOK, GrantsWereNamed, Held, SignUp
<1>2. ASSUME NEW w \in Workers, NEW e \in Emails, NEW p \in Passwords, Verify(w, e, p)
      PROVE  GrantsWereNamed'
  BY <1>2 DEF AccountsTypeOK, Another, Counted, Goes, GrantsWereNamed, Held, IdleTask, Verify
<1>3. ASSUME NEW w \in Workers, Rehash(w) PROVE GrantsWereNamed'
  BY <1>3 DEF AccountsTypeOK, Goes, GrantsWereNamed, Held, Rehash
<1>4. ASSUME NEW w \in Workers, Issue(w) PROVE GrantsWereNamed'
  BY <1>4 DEF AccountsTypeOK, Goes, GrantsWereNamed, Held, IdleTask, Issue
<1>5. ASSUME NEW s \in cookies, Forget(s) PROVE GrantsWereNamed'
  BY <1>5 DEF AccountsTypeOK, Another, Forget, GrantsWereNamed, Held
<1>6. ASSUME NEW e \in Emails, CountRequests(e) PROVE GrantsWereNamed'
  BY <1>6 DEF AccountsTypeOK, Another, CountRequests, GrantsWereNamed, Held
<1>7. ASSUME InsertReset PROVE GrantsWereNamed'
  BY <1>7 DEF AccountsTypeOK, GrantsWereNamed, Held, InsertReset
<1>8. ASSUME RequestFails PROVE GrantsWereNamed'
  BY <1>8 DEF AccountsTypeOK, GrantsWereNamed, Held, RequestFails
<1>9. ASSUME NEW w \in Workers, NEW p \in Passwords, CheckToken(w, p) PROVE GrantsWereNamed'
  BY <1>9 DEF AccountsTypeOK, Another, CheckToken, Counted, Goes, GrantsWereNamed, Held, IdleTask
<1>10. ASSUME NEW w \in Workers, SetPassword(w) PROVE GrantsWereNamed'
  BY <1>10 DEF AccountsTypeOK, Goes, GrantsWereNamed, Held, SetPassword
<1>11. ASSUME NEW w \in Workers, NEW e \in Emails, FindForRevoke(w, e) PROVE GrantsWereNamed'
  BY <1>11 DEF AccountsTypeOK, Another, Counted, FindForRevoke, Goes, GrantsWereNamed, Held, IdleTask
<1>12. ASSUME NEW w \in Workers, TakeEpoch(w) PROVE GrantsWereNamed'
  BY <1>12 DEF AccountsTypeOK, Goes, GrantsWereNamed, Held, TakeEpoch
<1>13. ASSUME NEW w \in Workers, WriteRevocation(w) PROVE GrantsWereNamed'
  BY <1>13 DEF AccountsTypeOK, GrantsWereNamed, Held, IdleTask, WriteRevocation
<1>14. ASSUME NEW w \in Workers, NEW i \in Ids, CheckTarget(w, i) PROVE GrantsWereNamed'
  BY <1>14 DEF AccountsTypeOK, Another, CheckTarget, Counted, Goes, GrantsWereNamed, Held, IdleTask
<1>15. ASSUME NEW w \in Workers, DeleteAccount(w) PROVE GrantsWereNamed'
  BY <1>15 DEF AccountsTypeOK, DeleteAccount, Goes, GrantsWereNamed, Held, IdleTask
<1>16. ASSUME NEW w \in Workers, NEW e \in Emails, FindForGrant(w, e) PROVE GrantsWereNamed'
  BY <1>16 DEF AccountsTypeOK, FindForGrant, Goes, GrantsWereNamed, Held, IdleTask
<1>17. ASSUME NEW w \in Workers, WriteGrant(w) PROVE GrantsWereNamed'
  BY <1>17 DEF AccountsTypeOK, GrantsWereNamed, Held, IdleTask, WriteGrant
<1>18. ASSUME NEW e \in Emails, RevokeAdmin(e) PROVE GrantsWereNamed'
  BY <1>18 DEF AccountsTypeOK, GrantsWereNamed, Held, RevokeAdmin
<1>19. ASSUME NEW w \in Workers, Stop(w) PROVE GrantsWereNamed'
  BY <1>19 DEF AccountsTypeOK, Goes, GrantsWereNamed, Held, IdleTask, Stop
<1>20. ASSUME Tick PROVE GrantsWereNamed'
  BY <1>20 DEF AccountsTypeOK, GrantsWereNamed, Held, Tick
<1>21. CASE UNCHANGED vars
  BY <1>21 DEF vars, GrantsWereNamed, Held
<1>22. QED
  BY <1>1, <1>2, <1>3, <1>4, <1>5, <1>6, <1>7, <1>8, <1>9, <1>10, <1>11, <1>12, <1>13,
     <1>14, <1>15, <1>16, <1>17, <1>18, <1>19, <1>20, <1>21 DEF Next

\* A cookie that opens an account with a grant is for an email that the operator named.
THEOREM AdministratorsAreNamed == Spec => []AdministratorsWereNamed
<1>1. Init => GrantsWereNamed
  BY DEF Init, GrantsWereNamed, Held, IdleTask
<1>2. AccountsTypeOK /\ GrantsWereNamed /\ [Next]_vars => GrantsWereNamed'
  BY GrantsWereNamedStep
<1>3. AccountsTypeOK /\ GrantsWereNamed => AdministratorsWereNamed
  BY DEF AccountsTypeOK, GrantsWereNamed, AdministratorsWereNamed, Open, IsAdmin, Held
<1>4. QED
  BY <1>1, <1>2, <1>3, AccountsTypeCorrect, PTL DEF Spec

\* A deletion that has passed its checks keeps its target.
Kept(old, new) ==
    new.job = "delete" =>
        /\ old.job = "delete" /\ new.id = old.id /\ new.acct = old.acct
        /\ old.late => new.late

\* Every step keeps an administrator from a deletion that checked it.
LEMMA AdminDeletedStep ==
    ASSUME AccountsTypeOK, Numbered, AdminDeletedByLateGrantOnly, [Next]_vars
    PROVE  AdminDeletedByLateGrantOnly'
<1> USE DEF tables, history
<1>0. ASSUME \A v \in Workers : Kept(worker[v], worker'[v]),
             \A i \in Held(users)' :
                /\ i \in Held(users) /\ users'[i].acct = users[i].acct
                /\ users'[i].email = users[i].email
                /\ grants'[i] = None \/ grants'[i] = grants[i]
      PROVE  AdminDeletedByLateGrantOnly'
  <2> SUFFICES ASSUME NEW v \in Workers, worker'[v].job = "delete",
                      worker'[v].id \in Held(users)',
                      users'[worker'[v].id].acct = worker'[v].acct,
                      grants'[worker'[v].id] # None,
                      grants'[worker'[v].id] = users'[worker'[v].id].email
               PROVE  worker'[v].late
    BY DEF AdminDeletedByLateGrantOnly, IsAdmin
  <2>1. /\ worker[v].job = "delete" /\ worker[v].id = worker'[v].id
        /\ worker[v].acct = worker'[v].acct
        /\ worker[v].late => worker'[v].late
    BY <1>0 DEF Kept
  <2>2. /\ worker'[v].id \in Held(users)
        /\ users[worker'[v].id].acct = worker'[v].acct
        /\ grants[worker'[v].id] # None
        /\ grants[worker'[v].id] = users[worker'[v].id].email
    BY <1>0
  <2>3. QED
    BY <2>1, <2>2 DEF AdminDeletedByLateGrantOnly, IsAdmin
<1>1. ASSUME NEW e \in Emails, NEW p \in Passwords, SignUp(e, p)
      PROVE  AdminDeletedByLateGrantOnly'
  <2>1. PICK i \in Ids :
          /\ i \notin Held(users)
          /\ Held(users)' = Held(users) \cup {i}
          /\ users'[i].acct = count.accounts + 1
          /\ \A j \in Ids \ {i} : users'[j] = users[j]
          /\ UNCHANGED <<grants, worker>>
    BY <1>1, SignUpAdds
  <2>2. ASSUME NEW v \in Workers, worker[v].job = "delete", worker[v].id \in Held(users)',
               users'[worker[v].id].acct = worker[v].acct, IsAdmin(worker[v].id)'
        PROVE  worker[v].late
    <3>1. worker[v] \in Task /\ TaskNumbered(worker[v]) /\ count.accounts \in Nat
      BY DEF AccountsTypeOK, Numbered
    <3>2. worker[v].acct \in Nat \cup {None}
      BY <3>1, BoundsAreNat DEF Task, Accts
    <3>3. worker[v].acct # count.accounts + 1
      BY <3>1, <3>2, NoneIsNo DEF TaskNumbered
    <3>4. worker[v].id # i
      BY <2>1, <2>2, <3>3
    <3>5. worker[v].id \in Held(users) /\ worker[v].id \in Ids
      BY <2>1, <2>2, <3>4, RowTypes
    <3>6. QED
      BY <2>1, <2>2, <3>4, <3>5 DEF AdminDeletedByLateGrantOnly, IsAdmin
  <2>3. QED
    BY <2>1, <2>2 DEF AdminDeletedByLateGrantOnly
<1>2. ASSUME NEW w \in Workers, NEW e \in Emails, NEW p \in Passwords, Verify(w, e, p)
      PROVE  AdminDeletedByLateGrantOnly'
  <2>1. UNCHANGED <<users, grants>> /\ worker[w].pc = "idle"
    BY <1>2 DEF Verify, Counted
  <2>2. \A v \in Workers : Kept(worker[v], worker'[v])
    BY <1>2 DEF Verify, AccountsTypeOK, Kept, Goes, IdleTask
  <2>3. QED
    BY <1>0, <2>1, <2>2 DEF Held
<1>3. ASSUME NEW w \in Workers, Rehash(w) PROVE AdminDeletedByLateGrantOnly'
  <2>1. /\ \A i \in Held(users)' :
             /\ i \in Held(users) /\ users'[i].acct = users[i].acct
             /\ users'[i].email = users[i].email
        /\ grants' = grants
    BY <1>3, RehashKeeps DEF Rehash
  <2>2. worker[w] \in Task /\ worker' = [worker EXCEPT ![w] = [worker[w] EXCEPT !.pc = "verified"]]
    BY <1>3 DEF Rehash, Goes, AccountsTypeOK
  <2>3. \A v \in Workers : Kept(worker[v], worker'[v])
    BY <2>2 DEF AccountsTypeOK, Task, Kept
  <2>4. QED
    BY <1>0, <2>1, <2>3, RowTypes
<1>4. ASSUME NEW w \in Workers, Issue(w) PROVE AdminDeletedByLateGrantOnly'
  <2>1. \A v \in Workers : Kept(worker[v], worker'[v])
    BY <1>4, NoneIsNo DEF AccountsTypeOK, Kept, Issue, Goes, IdleTask
  <2>2. QED
    BY <1>0, <1>4, <2>1 DEF Issue, Held
<1>5. ASSUME NEW s \in cookies, Forget(s) PROVE AdminDeletedByLateGrantOnly'
  BY <1>5 DEF AccountsTypeOK, AdminDeletedByLateGrantOnly, Another, Forget, Held, IsAdmin
<1>6. ASSUME NEW e \in Emails, CountRequests(e) PROVE AdminDeletedByLateGrantOnly'
  BY <1>6 DEF AccountsTypeOK, AdminDeletedByLateGrantOnly, Another, CountRequests, Held, IsAdmin
<1>7. ASSUME InsertReset PROVE AdminDeletedByLateGrantOnly'
  BY <1>7 DEF AccountsTypeOK, AdminDeletedByLateGrantOnly, Held, InsertReset, IsAdmin
<1>8. ASSUME RequestFails PROVE AdminDeletedByLateGrantOnly'
  BY <1>8 DEF AccountsTypeOK, AdminDeletedByLateGrantOnly, Held, IsAdmin, RequestFails
<1>9. ASSUME NEW w \in Workers, NEW p \in Passwords, CheckToken(w, p)
      PROVE  AdminDeletedByLateGrantOnly'
  <2>1. UNCHANGED <<users, grants>> /\ worker[w].pc = "idle"
    BY <1>9 DEF CheckToken, Counted
  <2>2. \A v \in Workers : Kept(worker[v], worker'[v])
    BY <1>9 DEF CheckToken, AccountsTypeOK, Kept, Goes, IdleTask
  <2>3. QED
    BY <1>0, <2>1, <2>2 DEF Held
<1>10. ASSUME NEW w \in Workers, SetPassword(w) PROVE AdminDeletedByLateGrantOnly'
  <2>1. /\ \A i \in Held(users)' :
             /\ i \in Held(users) /\ users'[i].acct = users[i].acct
             /\ users'[i].email = users[i].email
        /\ grants' = grants /\ worker[w].job = "reset"
    BY <1>10, SetPasswordWrites DEF SetPassword
  <2>2. worker[w] \in Task
        /\ worker' = [worker EXCEPT ![w] = [worker[w] EXCEPT !.pc = "revoking",
                                                         !.acct = users[worker[w].id].acct]]
    BY <1>10 DEF SetPassword, Goes, AccountsTypeOK
  <2>3. \A v \in Workers : Kept(worker[v], worker'[v])
    BY <2>1, <2>2 DEF AccountsTypeOK, Task, Kept
  <2>4. QED
    BY <1>0, <2>1, <2>3
<1>11. ASSUME NEW w \in Workers, NEW e \in Emails, FindForRevoke(w, e)
      PROVE  AdminDeletedByLateGrantOnly'
  <2>1. UNCHANGED <<users, grants>> /\ worker[w].pc = "idle"
    BY <1>11 DEF FindForRevoke, Counted
  <2>2. \A v \in Workers : Kept(worker[v], worker'[v])
    BY <1>11 DEF FindForRevoke, AccountsTypeOK, Kept, Goes, IdleTask
  <2>3. QED
    BY <1>0, <2>1, <2>2 DEF Held
<1>12. ASSUME NEW w \in Workers, TakeEpoch(w) PROVE AdminDeletedByLateGrantOnly'
  <2>1. \A v \in Workers : Kept(worker[v], worker'[v])
    BY <1>12 DEF AccountsTypeOK, Task, Kept, TakeEpoch, Goes
  <2>2. QED
    BY <1>0, <1>12, <2>1 DEF TakeEpoch, Held
<1>13. ASSUME NEW w \in Workers, WriteRevocation(w) PROVE AdminDeletedByLateGrantOnly'
  <2>1. worker[w] \in Task /\ \A v \in Workers : worker[v] \in Task
    BY DEF AccountsTypeOK
  <2>2. \A v \in Workers : Kept(worker[v], worker'[v])
    <3>1. ASSUME NEW v \in Workers
          PROVE  /\ Kept(worker[v], [worker[v] EXCEPT !.pc = "deleting"])
                 /\ Kept(worker[v], [worker[v] EXCEPT !.overtaken = TRUE])
                 /\ Kept(worker[v], worker[v]) /\ Kept(worker[v], IdleTask)
      BY <2>1, NoneIsNo DEF Task, Kept, IdleTask
    <3>2. \A v \in Workers :
            \/ worker'[v] = [worker[v] EXCEPT !.pc = "deleting"]
            \/ worker'[v] = [worker[v] EXCEPT !.overtaken = TRUE]
            \/ worker'[v] = worker[v] \/ worker'[v] = IdleTask
      BY <1>13, WriteRevocationWorkers
    <3>3. QED
      BY <3>1, <3>2
  <2>3. QED
    BY <1>0, <1>13, <2>2 DEF WriteRevocation, Held
<1>14. ASSUME NEW w \in Workers, NEW i \in Ids, CheckTarget(w, i)
      PROVE  AdminDeletedByLateGrantOnly'
  <2>1. /\ UNCHANGED <<users, grants>>
        /\ worker' = [worker EXCEPT ![w] =
                        [IdleTask EXCEPT !.pc = "revoking", !.job = "delete", !.id = i,
                                         !.acct = users[i].acct]]
        /\ ~ IsAdmin(i)
    BY <1>14 DEF CheckTarget, Goes, MayDelete
  <2>2. worker'[w].id = i /\ \A v \in Workers \ {w} : worker'[v] = worker[v]
    BY <2>1 DEF AccountsTypeOK, IdleTask
  <2>3. QED
    BY <2>1, <2>2 DEF AdminDeletedByLateGrantOnly, IsAdmin, Held
<1>15. ASSUME NEW w \in Workers, DeleteAccount(w) PROVE AdminDeletedByLateGrantOnly'
  <2>1. \A i \in Held(users)' :
           i \in Held(users) /\ users'[i] = users[i] /\ grants'[i] = grants[i]
    BY <1>15, DeleteAccountRemoves, RowTypes
  <2>2. \A v \in Workers : Kept(worker[v], worker'[v])
    BY <1>15, NoneIsNo DEF AccountsTypeOK, Kept, DeleteAccount, Goes, IdleTask
  <2>3. QED
    BY <1>0, <2>1, <2>2
<1>16. ASSUME NEW w \in Workers, NEW e \in Emails, FindForGrant(w, e)
      PROVE  AdminDeletedByLateGrantOnly'
  <2>1. UNCHANGED <<users, grants>> /\ worker[w].pc = "idle"
    BY <1>16 DEF FindForGrant, Counted
  <2>2. \A v \in Workers : Kept(worker[v], worker'[v])
    BY <1>16 DEF FindForGrant, AccountsTypeOK, Kept, Goes, IdleTask
  <2>3. QED
    BY <1>0, <2>1, <2>2 DEF Held
<1>17. ASSUME NEW w \in Workers, WriteGrant(w) PROVE AdminDeletedByLateGrantOnly'
  <2> DEFINE i == worker[w].id
  <2>1. /\ UNCHANGED users /\ i \in Ids
        /\ \A j \in Ids \ {i} : grants'[j] = grants[j]
    BY <1>17, RowTypes DEF WriteGrant, AccountsTypeOK
  <2>2. ASSUME NEW v \in Workers
        PROVE  /\ Kept(worker[v], worker'[v])
               /\ worker'[v].job = "delete" /\ worker'[v].id = i => worker'[v].late
    <3>1. worker[v] \in Task
      BY DEF AccountsTypeOK
    <3>2. CASE worker'[v] = IdleTask
      BY <3>2, NoneIsNo DEF IdleTask, Kept
    <3>3. CASE worker[v].job = "delete" /\ worker[v].id = i
               /\ worker'[v] = [worker[v] EXCEPT !.late = TRUE]
      BY <3>1, <3>3 DEF Kept, Task
    <3>4. CASE ~ (worker[v].job = "delete" /\ worker[v].id = i) /\ worker'[v] = worker[v]
      BY <3>4 DEF Kept
    <3>5. QED
      BY <1>17, <3>2, <3>3, <3>4 DEF WriteGrant
  <2>3. ASSUME NEW v \in Workers, worker'[v].job = "delete", worker'[v].id \in Held(users),
               users[worker'[v].id].acct = worker'[v].acct,
               grants'[worker'[v].id] # None,
               grants'[worker'[v].id] = users[worker'[v].id].email
        PROVE  worker'[v].late
    <3>1. CASE worker'[v].id = i
      BY <2>2, <2>3, <3>1
    <3>2. CASE worker'[v].id # i
      <4>1. grants'[worker'[v].id] = grants[worker'[v].id]
        BY <2>1, <2>3, <3>2, RowTypes
      <4>2. QED
        BY <2>2, <2>3, <4>1, ZenonT(60) DEF AdminDeletedByLateGrantOnly, IsAdmin, Kept
    <3>3. QED
      BY <3>1, <3>2
  <2>4. QED
    BY <2>1, <2>3 DEF AdminDeletedByLateGrantOnly, IsAdmin, Held
<1>18. ASSUME NEW e \in Emails, RevokeAdmin(e) PROVE AdminDeletedByLateGrantOnly'
  <2>1. UNCHANGED <<users, worker>>
        /\ \A i \in Ids : grants'[i] = None \/ grants'[i] = grants[i]
    BY <1>18 DEF RevokeAdmin, AccountsTypeOK
  <2>2. QED
    BY <1>0, <2>1, RowTypes DEF Kept, Held
<1>19. ASSUME NEW w \in Workers, Stop(w) PROVE AdminDeletedByLateGrantOnly'
  <2>1. \A v \in Workers : Kept(worker[v], worker'[v])
    BY <1>19, NoneIsNo DEF AccountsTypeOK, Kept, Stop, Goes, IdleTask
  <2>2. QED
    BY <1>0, <1>19, <2>1 DEF Stop, Held
<1>20. ASSUME Tick PROVE AdminDeletedByLateGrantOnly'
  BY <1>20 DEF AccountsTypeOK, AdminDeletedByLateGrantOnly, Held, IsAdmin, Tick
<1>21. CASE UNCHANGED vars
  BY <1>21 DEF vars, AdminDeletedByLateGrantOnly, Held, IsAdmin
<1>22. QED
  BY <1>1, <1>2, <1>3, <1>4, <1>5, <1>6, <1>7, <1>8, <1>9, <1>10, <1>11, <1>12, <1>13,
     <1>14, <1>15, <1>16, <1>17, <1>18, <1>19, <1>20, <1>21 DEF Next

\* An administrator is deleted only when the grant came after the check.
THEOREM AdministratorsAreNotDeleted == Spec => []AdminDeletedByLateGrantOnly
<1>1. Init => AdminDeletedByLateGrantOnly
  BY NoneIsNo DEF Init, AdminDeletedByLateGrantOnly, IdleTask
<1>2. AccountsTypeOK /\ Numbered /\ AdminDeletedByLateGrantOnly /\ [Next]_vars
        => AdminDeletedByLateGrantOnly'
  BY AdminDeletedStep
<1>3. QED
  BY <1>1, <1>2, AccountsTypeCorrect, AccountsNumbered, PTL DEF Spec

-----------------------------------------------------------------------------
(* Requests of a reset.                                                    *)

\* The requests of a window are finitely many.
LEMMA RequestedIsFinite ==
    ASSUME AccountsTypeOK, NEW u, NEW now
    PROVE  IsFiniteSet(Requested(u, now)) /\ Cardinality(Requested(u, now)) \in Nat
<1>1. IsFiniteSet(Tokens)
  BY BoundsAreNat, FS_Interval DEF Tokens
<1>2. Requested(u, now) \in SUBSET Tokens
  BY RowTypes DEF Requested
<1>3. QED
  BY <1>1, <1>2, FS_Subset, FS_CardinalityType

\* The requests of any window, counting the one that holds the event loop.
RequestsCapped == ResetRequestsCapped /\ RequestIsWithinLimit

\* Every step keeps the requests of a window within the limit.
LEMMA RequestsCappedStep ==
    ASSUME AccountsTypeOK, Numbered, RequestsCapped, [Next]_vars
    PROVE  RequestsCapped'
<1> USE DEF tables, history
<1> DEFINE Upto(i, now) == {r \in Requested(i, now) : resets[r].created <= now}
<1>0. ASSUME \A r \in Held(resets)' :
                /\ r \in Held(resets)
                /\ resets'[r].user = resets[r].user /\ resets'[r].created = resets[r].created,
             requester' # None => requester' = requester
      PROVE  RequestsCapped'
  <2>1. ASSUME NEW i, NEW now PROVE Requested(i, now)' \in SUBSET Requested(i, now)
    BY <1>0 DEF Requested
  <2>2. ASSUME NEW i, NEW now PROVE Upto(i, now)' \in SUBSET Upto(i, now)
    BY <1>0 DEF Requested
  <2>3. ASSUME NEW i \in Ids, NEW now \in Time PROVE Cardinality(Upto(i, now)') <= MaxRequests
    <3>1. Upto(i, now) \in SUBSET Requested(i, now)
      OBVIOUS
    <3>2. IsFiniteSet(Upto(i, now)) /\ Cardinality(Upto(i, now)) \in Nat
      BY <3>1, RequestedIsFinite, FS_Subset, FS_CardinalityType
    <3>3. Cardinality(Upto(i, now)) <= MaxRequests
      BY DEF RequestsCapped, ResetRequestsCapped
    <3> HIDE DEF Upto
    <3>4. IsFiniteSet(Upto(i, now)') /\ Cardinality(Upto(i, now)') <= Cardinality(Upto(i, now))
      BY <2>2, <3>2, FS_Subset
    <3>5. Cardinality(Upto(i, now)') \in Nat
      BY <3>4, FS_CardinalityType
    <3>6. QED
      BY <3>2, <3>3, <3>4, <3>5, BoundsAreNat
  <2>4. ASSUME requester' # None PROVE MayRequest(requester.id, requester.now)'
    <3>1. requester' = requester /\ MayRequest(requester.id, requester.now)
      BY <1>0, <2>4 DEF RequestsCapped, RequestIsWithinLimit
    <3> DEFINE R == Requested(requester.id, requester.now)
    <3>2. R' \in SUBSET R
      BY <2>1, <3>1 DEF Requested
    <3>3. IsFiniteSet(R) /\ Cardinality(R) \in Nat /\ Cardinality(R) < MaxRequests
      BY <3>1, RequestedIsFinite DEF MayRequest
    <3> HIDE DEF R
    <3>4. IsFiniteSet(R') /\ Cardinality(R') <= Cardinality(R)
      BY <3>2, <3>3, FS_Subset
    <3>5. Cardinality(R') \in Nat
      BY <3>4, FS_CardinalityType
    <3>6. Cardinality(R') < MaxRequests
      BY <3>3, <3>4, <3>5, BoundsAreNat
    <3>7. QED
      BY <3>6 DEF R, MayRequest
  <2>5. QED
    BY <2>3, <2>4 DEF RequestsCapped, ResetRequestsCapped, RequestIsWithinLimit
<1>1. ASSUME NEW e \in Emails, NEW p \in Passwords, SignUp(e, p) PROVE RequestsCapped'
  BY <1>0, <1>1 DEF SignUp, Held
<1>2. ASSUME NEW w \in Workers, NEW e \in Emails, NEW p \in Passwords, Verify(w, e, p)
      PROVE  RequestsCapped'
  BY <1>0, <1>2 DEF Verify, Held
<1>3. ASSUME NEW w \in Workers, Rehash(w) PROVE RequestsCapped'
  BY <1>0, <1>3 DEF Rehash, Held
<1>4. ASSUME NEW w \in Workers, Issue(w) PROVE RequestsCapped'
  BY <1>0, <1>4 DEF Issue, Held
<1>5. ASSUME NEW s \in cookies, Forget(s) PROVE RequestsCapped'
  BY <1>0, <1>5 DEF Forget, Held
<1>6. ASSUME NEW e \in Emails, CountRequests(e) PROVE RequestsCapped'
  <2>1. resets' = resets
    BY <1>6 DEF CountRequests
  <2>2. MayRequest(requester.id, requester.now)'
    BY <1>6, <2>1 DEF CountRequests, MayRequest, Requested, Held
  <2>3. ResetRequestsCapped'
    BY <2>1 DEF RequestsCapped, ResetRequestsCapped, Requested, Held
  <2>4. QED
    BY <2>2, <2>3 DEF RequestsCapped, RequestIsWithinLimit
<1>7. ASSUME InsertReset PROVE RequestsCapped'
  <2>1. PICK new \in Tokens :
          /\ new \notin Held(resets)
          /\ Held(resets)' = Held(resets) \cup {new}
          /\ resets'[new].user = requester.id
          /\ resets'[new].created = clock
          /\ \A q \in Tokens \ {new} : resets'[q] = resets[q]
          /\ requester # None /\ requester' = None
          /\ requester \in [id : Ids, now : Time]
    BY <1>7, InsertResetAdds
  <2>2. clock \in Int /\ requester.now \in Int /\ requester.now <= clock
    BY <2>1 DEF AccountsTypeOK, Time, Numbered
  <2> DEFINE R == Requested(requester.id, requester.now)
  <2>3. IsFiniteSet(R) /\ Cardinality(R) \in Nat /\ Cardinality(R) < MaxRequests
    BY <2>1, RequestedIsFinite DEF RequestsCapped, RequestIsWithinLimit, MayRequest
  <2>4. ASSUME NEW i \in Ids, NEW now \in Time PROVE Cardinality(Upto(i, now)') <= MaxRequests
    <3>0. \A q \in Held(resets) : q \in Tokens /\ q # new /\ resets[q].created \in Int
      BY <2>1, RowTypes DEF PasswordReset, Time
    <3>1. CASE i = requester.id /\ clock <= now /\ clock >= now - ResetWindow
      <4>1. Upto(i, now)' \in SUBSET (R \cup {new})
        <5>1. ASSUME NEW r \in Upto(i, now)', r # new PROVE r \in R
          <6>1. /\ r \in Held(resets) /\ resets'[r] = resets[r]
                /\ resets[r].user = i /\ resets[r].created >= now - ResetWindow
            BY <2>1, <3>0, <5>1 DEF Requested
          <6>2. resets[r].created >= requester.now - ResetWindow
            BY <2>2, <3>0, <3>1, <6>1, BoundsAreNat DEF Time
          <6>3. QED
            BY <3>1, <6>1, <6>2 DEF Requested
        <5>2. QED
          BY <5>1
      <4> HIDE DEF R, Upto
      <4>2. IsFiniteSet(R \cup {new}) /\ Cardinality(R \cup {new}) <= MaxRequests
        <5>1. /\ IsFiniteSet(R \cup {new})
              /\ Cardinality(R \cup {new}) = IF new \in R THEN Cardinality(R) ELSE Cardinality(R) + 1
          BY <2>3, FS_AddElement
        <5>2. QED
          BY <2>3, <5>1, BoundsAreNat
      <4>3. /\ IsFiniteSet(Upto(i, now)')
            /\ Cardinality(Upto(i, now)') <= Cardinality(R \cup {new})
        BY <4>1, <4>2, FS_Subset
      <4>4. Cardinality(Upto(i, now)') \in Nat /\ Cardinality(R \cup {new}) \in Nat
        BY <4>2, <4>3, FS_CardinalityType
      <4>5. QED
        BY <4>2, <4>3, <4>4, BoundsAreNat
    <3>2. CASE ~ (i = requester.id /\ clock <= now /\ clock >= now - ResetWindow)
      <4>1. Upto(i, now)' = Upto(i, now)
        <5>1. new \notin Upto(i, now)'
          BY <2>1, <3>2 DEF Requested
        <5>2. \A q \in Held(resets) : q \in Upto(i, now)' <=> q \in Upto(i, now)
          BY <2>1, <3>0 DEF Requested
        <5>3. Upto(i, now)' \subseteq Held(resets) \cup {new} /\ Upto(i, now) \subseteq Held(resets)
          BY <2>1 DEF Requested
        <5>4. QED
          BY <5>1, <5>2, <5>3
      <4>2. QED
        BY <4>1 DEF RequestsCapped, ResetRequestsCapped
    <3>3. QED
      BY <3>1, <3>2
  <2>5. QED
    BY <2>1, <2>4 DEF RequestsCapped, ResetRequestsCapped, RequestIsWithinLimit
<1>8. ASSUME RequestFails PROVE RequestsCapped'
  BY <1>0, <1>8 DEF RequestFails, Held
<1>9. ASSUME NEW w \in Workers, NEW p \in Passwords, CheckToken(w, p) PROVE RequestsCapped'
  BY <1>0, <1>9 DEF CheckToken, Held
<1>10. ASSUME NEW w \in Workers, SetPassword(w) PROVE RequestsCapped'
  <2>1. \A r \in Held(resets)' :
          /\ r \in Held(resets)
          /\ resets'[r].user = resets[r].user /\ resets'[r].created = resets[r].created
    BY <1>10, SetPasswordWrites
  <2>2. QED
    BY <1>0, <1>10, <2>1 DEF SetPassword
<1>11. ASSUME NEW w \in Workers, NEW e \in Emails, FindForRevoke(w, e) PROVE RequestsCapped'
  BY <1>0, <1>11 DEF FindForRevoke, Held
<1>12. ASSUME NEW w \in Workers, TakeEpoch(w) PROVE RequestsCapped'
  BY <1>0, <1>12 DEF TakeEpoch, Held
<1>13. ASSUME NEW w \in Workers, WriteRevocation(w) PROVE RequestsCapped'
  BY <1>0, <1>13 DEF WriteRevocation, Held
<1>14. ASSUME NEW w \in Workers, NEW i \in Ids, CheckTarget(w, i) PROVE RequestsCapped'
  BY <1>0, <1>14 DEF CheckTarget, Held
<1>15. ASSUME NEW w \in Workers, DeleteAccount(w) PROVE RequestsCapped'
  <2>1. \A r \in Held(resets)' : r \in Held(resets) /\ resets'[r] = resets[r]
    BY <1>15, DeleteAccountRemoves
  <2>2. QED
    BY <1>0, <1>15, <2>1 DEF DeleteAccount
<1>16. ASSUME NEW w \in Workers, NEW e \in Emails, FindForGrant(w, e) PROVE RequestsCapped'
  BY <1>0, <1>16 DEF FindForGrant, Held
<1>17. ASSUME NEW w \in Workers, WriteGrant(w) PROVE RequestsCapped'
  BY <1>0, <1>17 DEF WriteGrant, Held
<1>18. ASSUME NEW e \in Emails, RevokeAdmin(e) PROVE RequestsCapped'
  BY <1>0, <1>18 DEF RevokeAdmin, Held
<1>19. ASSUME NEW w \in Workers, Stop(w) PROVE RequestsCapped'
  BY <1>0, <1>19 DEF Stop, Held
<1>20. ASSUME Tick PROVE RequestsCapped'
  BY <1>0, <1>20 DEF Tick, Held
<1>21. CASE UNCHANGED vars
  BY <1>0, <1>21 DEF vars, Held
<1>22. QED
  BY <1>1, <1>2, <1>3, <1>4, <1>5, <1>6, <1>7, <1>8, <1>9, <1>10, <1>11, <1>12, <1>13,
     <1>14, <1>15, <1>16, <1>17, <1>18, <1>19, <1>20, <1>21 DEF Next

\* There are never more reset requests of an account in a window than the limit.
THEOREM ResetRequestsAreCapped == Spec => []ResetRequestsCapped
<1>1. Init => RequestsCapped
  <2> SUFFICES ASSUME Init PROVE RequestsCapped
    OBVIOUS
  <2>1. requester = None /\ Held(resets) = {}
    BY DEF Init, Held
  <2>2. ASSUME NEW i \in Ids, NEW now \in Time
        PROVE  Cardinality({r \in Requested(i, now) : resets[r].created <= now}) <= MaxRequests
    <3>1. {r \in Requested(i, now) : resets[r].created <= now} = {}
      BY <2>1 DEF Requested
    <3>2. QED
      BY <3>1, FS_EmptySet, BoundsAreNat
  <2>3. QED
    BY <2>1, <2>2
       DEF RequestsCapped, ResetRequestsCapped, RequestIsWithinLimit
<1>2. AccountsTypeOK /\ Numbered /\ RequestsCapped /\ [Next]_vars => RequestsCapped'
  BY RequestsCappedStep
<1>3. RequestsCapped => ResetRequestsCapped
  BY DEF RequestsCapped
<1>4. QED
  BY <1>1, <1>2, <1>3, AccountsTypeCorrect, AccountsNumbered, PTL DEF Spec

-----------------------------------------------------------------------------
(* Tokens.                                                                 *)

\* A completion that has checked its token holds it.
StillChecked(old, new) ==
    new.pc = "checked" => old.pc = "checked" /\ new.token = old.token /\ new.reset = old.reset

\* A revocation, that overtakes others, has no part in checks.
LEMMA OvertakenIsNoNewCheck ==
    ASSUME AccountsTypeOK, NEW w \in Workers, WriteRevocation(w)
    PROVE  \A v \in Workers : StillChecked(worker[v], worker'[v])
<1>1. ASSUME NEW v \in Workers
      PROVE  /\ StillChecked(worker[v], [worker[v] EXCEPT !.pc = "deleting"])
             /\ StillChecked(worker[v], [worker[v] EXCEPT !.overtaken = TRUE])
             /\ StillChecked(worker[v], worker[v]) /\ StillChecked(worker[v], IdleTask)
  BY DEF AccountsTypeOK, Task, StillChecked, IdleTask
<1>2. QED
  BY <1>1, WriteRevocationWorkers

\* Every step keeps the mark on the row of a token that was used.
LEMMA UsedTokenIsMarkedStep ==
    ASSUME AccountsTypeOK, Numbered, UsedTokenIsMarked, [Next]_vars
    PROVE  UsedTokenIsMarked'
<1> USE DEF tables, history
<1>0. ASSUME \A r \in Held(resets)' :
                /\ r \in Held(resets) /\ resets'[r].token = resets[r].token
                /\ resets[r].used # None => resets'[r].used # None,
             UNCHANGED uses, count'.tokens = count.tokens,
             \A v \in Workers : StillChecked(worker[v], worker'[v])
      PROVE  UsedTokenIsMarked'
  BY <1>0 DEF UsedTokenIsMarked, StillChecked
<1>1. ASSUME NEW e \in Emails, NEW p \in Passwords, SignUp(e, p) PROVE UsedTokenIsMarked'
  <2>1. UNCHANGED <<resets, uses, worker>> /\ count'.tokens = count.tokens
    BY <1>1, SignUpAdds
  <2>2. QED
    BY <1>0, <2>1 DEF Held, StillChecked
<1>2. ASSUME NEW w \in Workers, NEW e \in Emails, NEW p \in Passwords, Verify(w, e, p)
      PROVE  UsedTokenIsMarked'
  BY <1>0, <1>2 DEF AccountsTypeOK, Another, Counted, Goes, Held, IdleTask, StillChecked, Task, Verify
<1>3. ASSUME NEW w \in Workers, Rehash(w) PROVE UsedTokenIsMarked'
  <2>1. \A v \in Workers : StillChecked(worker[v], worker'[v])
    BY <1>3 DEF Rehash, Goes, StillChecked, AccountsTypeOK, Task
  <2>2. QED
    BY <1>0, <1>3, <2>1 DEF Rehash, Held
<1>4. ASSUME NEW w \in Workers, Issue(w) PROVE UsedTokenIsMarked'
  BY <1>0, <1>4 DEF AccountsTypeOK, Goes, Held, IdleTask, Issue, StillChecked, Task
<1>5. ASSUME NEW s \in cookies, Forget(s) PROVE UsedTokenIsMarked'
  BY <1>0, <1>5 DEF AccountsTypeOK, Another, Forget, Held, StillChecked, Task
<1>6. ASSUME NEW e \in Emails, CountRequests(e) PROVE UsedTokenIsMarked'
  BY <1>0, <1>6 DEF AccountsTypeOK, Another, CountRequests, Held, StillChecked, Task
<1>7. ASSUME InsertReset PROVE UsedTokenIsMarked'
  <2>1. PICK new \in Tokens :
          /\ new \notin Held(resets)
          /\ Held(resets)' = Held(resets) \cup {new}
          /\ resets'[new].token = count.tokens + 1
          /\ \A q \in Tokens \ {new} : resets'[q] = resets[q]
          /\ count.tokens + 1 \in Tokens
          /\ count'.tokens = count.tokens + 1
          /\ UNCHANGED <<worker, uses>>
    BY <1>7, InsertResetAdds
  <2>2. count.tokens \in Nat
    BY BoundsAreNat DEF AccountsTypeOK
  <2>3. \A q \in Held(resets) : /\ q \in Tokens /\ q # new /\ resets[q].token \in Tokens
                               /\ resets[q].token <= count.tokens
    BY <2>1, RowTypes DEF PasswordReset, Numbered
  <2>4. \A q \in Held(resets) : resets'[q] = resets[q] /\ resets[q].token # count.tokens + 1
    BY <2>1, <2>2, <2>3 DEF Tokens
  <2>5. uses[count.tokens + 1] = 0
    BY <2>1, <2>2 DEF UsedTokenIsMarked
  <2>6. \A q, r \in Held(resets)' : resets'[q].token = resets'[r].token => q = r
    BY <2>1, <2>4 DEF UsedTokenIsMarked
  <2>7. \A r \in Held(resets)' : uses'[resets'[r].token] > 0 => resets'[r].used # None
    BY <2>1, <2>4, <2>5 DEF UsedTokenIsMarked
  <2>8. \A t \in Tokens : t > count'.tokens => uses'[t] = 0
    BY <2>1, <2>2 DEF UsedTokenIsMarked, Tokens
  <2>9. ASSUME NEW v \in Workers, NEW r \in Held(resets)',
               worker[v].pc = "checked", resets'[r].token = worker[v].token
        PROVE  worker[v].reset = r
    <3>1. worker[v].token \in Tokens /\ worker[v].token <= count.tokens
      BY <2>9 DEF AccountsTypeOK, TaskHas, Task, Numbered, TaskNumbered
    <3>2. r # new
      BY <2>1, <2>2, <2>9, <3>1 DEF Tokens
    <3>3. QED
      BY <2>1, <2>4, <2>9, <3>2 DEF UsedTokenIsMarked
  <2>10. QED
    BY <2>1, <2>6, <2>7, <2>8, <2>9 DEF UsedTokenIsMarked
<1>8. ASSUME RequestFails PROVE UsedTokenIsMarked'
  BY <1>0, <1>8 DEF AccountsTypeOK, Held, RequestFails, StillChecked, Task
<1>9. ASSUME NEW w \in Workers, NEW p \in Passwords, CheckToken(w, p) PROVE UsedTokenIsMarked'
  <2>1. PICK new \in Held(resets) :
          Goes(w, [IdleTask EXCEPT !.pc = "checked", !.job = "reset", !.id = resets[new].user,
                                   !.acct = resets[new].acct, !.pw = p, !.reset = new,
                                   !.token = resets[new].token])
    BY <1>9 DEF CheckToken
  <2>2. UNCHANGED <<resets, uses>> /\ count'.tokens = count.tokens
    BY <1>9, AnotherType DEF CheckToken, Counted
  <2>3. /\ worker'[w].reset = new /\ worker'[w].token = resets[new].token
        /\ \A v \in Workers \ {w} : worker'[v] = worker[v]
    BY <2>1 DEF Goes, AccountsTypeOK, IdleTask
  <2>4. QED
    BY <2>2, <2>3 DEF UsedTokenIsMarked, Held
<1>10. ASSUME NEW w \in Workers, SetPassword(w) PROVE UsedTokenIsMarked'
  <2> DEFINE t == worker[w]
  <2>1. /\ t.pc = "checked" /\ t.token \in Tokens
        /\ t.reset \in Held(resets) /\ Held(resets)' = Held(resets)
        /\ \A r \in Held(resets) : resets'[r].token = resets[r].token
        /\ resets'[t.reset].used = clock
        /\ \A r \in Tokens \ {t.reset} : resets'[r] = resets[r]
    BY <1>10, SetPasswordWrites
  <2>2. /\ uses' = [uses EXCEPT ![t.token] = @ + 1] /\ count' = count
        /\ worker' = [worker EXCEPT ![w] = [t EXCEPT !.pc = "revoking", !.acct = users[t.id].acct]]
    BY <1>10 DEF SetPassword, Goes
  <2>3. clock # None /\ t.token <= count.tokens /\ count.tokens \in Nat
        /\ \A r \in Held(resets) : r \in Tokens /\ resets[r].token \in Tokens
    BY <2>1, NoneIsNo, RowTypes, BoundsAreNat
       DEF AccountsTypeOK, Numbered, TaskNumbered, PasswordReset
  <2>4. uses \in [Tokens -> Nat] /\ \A u \in Tokens \ {t.token} : uses'[u] = uses[u]
    BY <2>1, <2>2 DEF AccountsTypeOK
  <2>5. ASSUME NEW r \in Held(resets)', uses'[resets'[r].token] > 0
        PROVE  resets'[r].used # None
    <3>1. CASE r = t.reset
      BY <2>1, <2>3, <3>1
    <3>2. CASE r # t.reset
      <4>1. resets[r].token # t.token
        BY <2>1, <3>2 DEF UsedTokenIsMarked
      <4>2. QED
        BY <2>1, <2>3, <2>4, <2>5, <3>2, <4>1 DEF UsedTokenIsMarked
    <3>3. QED
      BY <3>1, <3>2
  <2>6. \A u \in Tokens : u > count'.tokens => uses'[u] = 0
    BY <2>2, <2>3, <2>4 DEF UsedTokenIsMarked, Tokens
  <2>7. \A v \in Workers : StillChecked(worker[v], worker'[v])
    BY <2>2 DEF StillChecked, AccountsTypeOK, Task
  <2>8. QED
    BY <2>1, <2>5, <2>6, <2>7 DEF UsedTokenIsMarked, StillChecked
<1>11. ASSUME NEW w \in Workers, NEW e \in Emails, FindForRevoke(w, e) PROVE UsedTokenIsMarked'
  BY <1>0, <1>11 DEF AccountsTypeOK, Another, Counted, FindForRevoke, Goes, Held, IdleTask, StillChecked, Task
<1>12. ASSUME NEW w \in Workers, TakeEpoch(w) PROVE UsedTokenIsMarked'
  <2>1. \A v \in Workers : StillChecked(worker[v], worker'[v])
    BY <1>12 DEF TakeEpoch, Goes, StillChecked, AccountsTypeOK, Task
  <2>2. QED
    BY <1>0, <1>12, <2>1 DEF TakeEpoch, Held
<1>13. ASSUME NEW w \in Workers, WriteRevocation(w) PROVE UsedTokenIsMarked'
  <2>1. \A v \in Workers : StillChecked(worker[v], worker'[v])
    BY <1>13, OvertakenIsNoNewCheck
  <2>2. QED
    BY <1>0, <1>13, <2>1 DEF WriteRevocation, Held
<1>14. ASSUME NEW w \in Workers, NEW i \in Ids, CheckTarget(w, i) PROVE UsedTokenIsMarked'
  BY <1>0, <1>14 DEF AccountsTypeOK, Another, CheckTarget, Counted, Goes, Held, IdleTask, StillChecked, Task
<1>15. ASSUME NEW w \in Workers, DeleteAccount(w) PROVE UsedTokenIsMarked'
  <2>1. \A r \in Held(resets)' : r \in Held(resets) /\ resets'[r] = resets[r]
    BY <1>15, DeleteAccountRemoves
  <2>2. QED
    BY <1>0, <1>15, <2>1 DEF DeleteAccount, Goes, IdleTask, StillChecked, AccountsTypeOK
<1>16. ASSUME NEW w \in Workers, NEW e \in Emails, FindForGrant(w, e) PROVE UsedTokenIsMarked'
  BY <1>0, <1>16 DEF AccountsTypeOK, Another, Counted, FindForGrant, Goes, Held, IdleTask, StillChecked, Task
<1>17. ASSUME NEW w \in Workers, WriteGrant(w) PROVE UsedTokenIsMarked'
  <2>1. \A v \in Workers : StillChecked(worker[v], worker'[v])
    <3>1. ASSUME NEW v \in Workers
          PROVE  /\ StillChecked(worker[v], [worker[v] EXCEPT !.late = TRUE])
                 /\ StillChecked(worker[v], worker[v]) /\ StillChecked(worker[v], IdleTask)
      BY DEF AccountsTypeOK, Task, StillChecked, IdleTask
    <3>2. QED
      BY <1>17, <3>1 DEF WriteGrant
  <2>2. QED
    BY <1>0, <1>17, <2>1 DEF WriteGrant, Held
<1>18. ASSUME NEW e \in Emails, RevokeAdmin(e) PROVE UsedTokenIsMarked'
  BY <1>0, <1>18 DEF AccountsTypeOK, Another, Held, RevokeAdmin, StillChecked, Task
<1>19. ASSUME NEW w \in Workers, Stop(w) PROVE UsedTokenIsMarked'
  BY <1>0, <1>19 DEF AccountsTypeOK, Goes, Held, IdleTask, StillChecked, Stop, Task
<1>20. ASSUME Tick PROVE UsedTokenIsMarked'
  BY <1>0, <1>20 DEF AccountsTypeOK, Held, StillChecked, Task, Tick
<1>21. CASE UNCHANGED vars
  BY <1>0, <1>21 DEF vars, Held, StillChecked
<1>22. QED
  BY <1>1, <1>2, <1>3, <1>4, <1>5, <1>6, <1>7, <1>8, <1>9, <1>10, <1>11, <1>12, <1>13,
     <1>14, <1>15, <1>16, <1>17, <1>18, <1>19, <1>20, <1>21 DEF Next

\* Every step keeps the uses of a token, with those to come, within the workers.
LEMMA TokenSpentStep ==
    ASSUME AccountsTypeOK, UsedTokenIsMarked, TokenSpentByOverlapOnly, [Next]_vars
    PROVE  TokenSpentByOverlapOnly'
<1> USE DEF tables, history
<1> DEFINE C(t) == {v \in Workers : worker[v].pc = "checked" /\ worker[v].token = t}
<1>a. \A t : IsFiniteSet(C(t)) /\ Cardinality(C(t)) \in Nat /\ Cardinality(C(t)) <= Cardinality(Workers)
  <2>1. \A t : C(t) \in SUBSET Workers
    OBVIOUS
  <2>2. QED
    BY <2>1, AccountsAssumption, FS_Subset, FS_CardinalityType
<1>b. ASSUME NEW t \in Tokens, C(t)' \in SUBSET C(t), uses'[t] = uses[t], uses'[t] > 0
      PROVE  uses'[t] + Cardinality(C(t)') <= Cardinality(Workers)
  <2>1. uses[t] \in Nat /\ uses[t] + Cardinality(C(t)) <= Cardinality(Workers)
    BY <1>b DEF TokenSpentByOverlapOnly, AccountsTypeOK
  <2> HIDE DEF C
  <2>2. IsFiniteSet(C(t)') /\ Cardinality(C(t)') <= Cardinality(C(t))
    BY <1>a, <1>b, FS_Subset
  <2>3. Cardinality(C(t)') \in Nat /\ Cardinality(Workers) \in Nat
    BY <2>2, AccountsAssumption, FS_CardinalityType
  <2>4. QED
    BY <1>a, <1>b, <2>1, <2>2, <2>3
<1>0. ASSUME UNCHANGED uses, \A v \in Workers : StillChecked(worker[v], worker'[v])
      PROVE  TokenSpentByOverlapOnly'
  <2>1. \A t \in Tokens : C(t)' \in SUBSET C(t)
    BY <1>0 DEF StillChecked
  <2>2. QED
    BY <1>0, <1>b, <2>1 DEF TokenSpentByOverlapOnly
<1>1. ASSUME NEW e \in Emails, NEW p \in Passwords, SignUp(e, p) PROVE TokenSpentByOverlapOnly'
  BY <1>0, <1>1 DEF SignUp, StillChecked
<1>2. ASSUME NEW w \in Workers, NEW e \in Emails, NEW p \in Passwords, Verify(w, e, p)
      PROVE  TokenSpentByOverlapOnly'
  BY <1>0, <1>2 DEF AccountsTypeOK, Another, Counted, Goes, IdleTask, StillChecked, Task, Verify
<1>3. ASSUME NEW w \in Workers, Rehash(w) PROVE TokenSpentByOverlapOnly'
  <2>1. \A v \in Workers : StillChecked(worker[v], worker'[v])
    BY <1>3 DEF Rehash, Goes, StillChecked, AccountsTypeOK, Task
  <2>2. QED
    BY <1>0, <1>3, <2>1 DEF Rehash
<1>4. ASSUME NEW w \in Workers, Issue(w) PROVE TokenSpentByOverlapOnly'
  BY <1>0, <1>4 DEF AccountsTypeOK, Goes, IdleTask, Issue, StillChecked, Task
<1>5. ASSUME NEW s \in cookies, Forget(s) PROVE TokenSpentByOverlapOnly'
  BY <1>0, <1>5 DEF AccountsTypeOK, Another, Forget, StillChecked, Task
<1>6. ASSUME NEW e \in Emails, CountRequests(e) PROVE TokenSpentByOverlapOnly'
  BY <1>0, <1>6 DEF AccountsTypeOK, Another, CountRequests, StillChecked, Task
<1>7. ASSUME InsertReset PROVE TokenSpentByOverlapOnly'
  BY <1>0, <1>7 DEF AccountsTypeOK, InsertReset, StillChecked, Task
<1>8. ASSUME RequestFails PROVE TokenSpentByOverlapOnly'
  BY <1>0, <1>8 DEF AccountsTypeOK, RequestFails, StillChecked, Task
<1>9. ASSUME NEW w \in Workers, NEW p \in Passwords, CheckToken(w, p)
      PROVE  TokenSpentByOverlapOnly'
  <2>1. PICK r \in Held(resets) :
          /\ Usable(r)
          /\ Goes(w, [IdleTask EXCEPT !.pc = "checked", !.job = "reset", !.id = resets[r].user,
                                      !.acct = resets[r].acct, !.pw = p, !.reset = r,
                                      !.token = resets[r].token])
    BY <1>9 DEF CheckToken
  <2>2. /\ worker'[w].token = resets[r].token
        /\ \A v \in Workers \ {w} : worker'[v] = worker[v]
    BY <2>1 DEF Goes, AccountsTypeOK, IdleTask
  <2>3. uses' = uses /\ uses[resets[r].token] = 0
    <3>1. resets[r].token \in Tokens /\ resets[r].used = None
      BY <2>1, RowTypes DEF PasswordReset, Usable
    <3>2. uses[resets[r].token] \in Nat /\ ~ (uses[resets[r].token] > 0)
      BY <3>1 DEF AccountsTypeOK, UsedTokenIsMarked
    <3>3. QED
      BY <1>9, <3>2 DEF CheckToken
  <2>4. \A t \in Tokens : t # resets[r].token => C(t)' \in SUBSET C(t)
    BY <2>2
  <2>5. ASSUME NEW t \in Tokens, uses'[t] > 0
        PROVE  uses'[t] + Cardinality(C(t)') <= Cardinality(Workers)
    <3>1. t # resets[r].token
      BY <2>3, <2>5
    <3>2. QED
      BY <1>b, <2>3, <2>4, <2>5, <3>1
  <2>6. QED
    BY <2>5 DEF TokenSpentByOverlapOnly
<1>10. ASSUME NEW w \in Workers, SetPassword(w) PROVE TokenSpentByOverlapOnly'
  <2>0. PICK t0 \in Tokens : t0 = worker[w].token
    BY <1>10, SetPasswordWrites
  <2>1. /\ w \in C(t0) /\ t0 \in Tokens
        /\ uses' = [uses EXCEPT ![t0] = @ + 1]
        /\ worker'[w].pc = "revoking" /\ worker'[w].token = t0
        /\ \A v \in Workers \ {w} : worker'[v] = worker[v]
    <3>1. /\ worker[w].pc = "checked" /\ t0 \in Tokens
          /\ uses' = [uses EXCEPT ![t0] = @ + 1]
          /\ worker' = [worker EXCEPT ![w] = [worker[w] EXCEPT !.pc = "revoking",
                                                !.acct = users[worker[w].id].acct]]
      BY <1>10, <2>0, SetPasswordWrites DEF SetPassword, Goes
    <3>2. worker \in [Workers -> Task]
      BY DEF AccountsTypeOK
    <3>3. worker'[w].pc = "revoking" /\ worker'[w].token = t0
      BY <2>0, <3>1, <3>2 DEF Task
    <3>4. QED
      BY <2>0, <3>1, <3>2, <3>3
  <2>2. C(t0)' = C(t0) \ {w} /\ \A t \in Tokens \ {t0} : C(t)' = C(t)
    BY <2>1
  <2>3. uses[t0] \in Nat /\ uses'[t0] = uses[t0] + 1 /\ \A t \in Tokens \ {t0} : uses'[t] = uses[t]
    BY <2>1 DEF AccountsTypeOK
  <2>4. uses'[t0] + Cardinality(C(t0)') <= Cardinality(Workers)
    <3>1. uses[t0] > 0 => uses[t0] + Cardinality(C(t0)) <= Cardinality(Workers)
      BY <2>1 DEF TokenSpentByOverlapOnly
    <3>0. w \in C(t0)
      BY <2>1
    <3> HIDE DEF C
    <3>2. Cardinality(C(t0)') = Cardinality(C(t0)) - 1
      BY <1>a, <2>2, <3>0, FS_RemoveElement
    <3>3. Cardinality(C(t0)) \in Nat /\ Cardinality(C(t0)) <= Cardinality(Workers)
          /\ Cardinality(Workers) \in Nat
      BY <1>a, AccountsAssumption, FS_CardinalityType
    <3>4. QED
      BY <2>3, <3>1, <3>2, <3>3
  <2>5. ASSUME NEW t \in Tokens, t # t0, uses'[t] > 0
        PROVE  uses'[t] + Cardinality(C(t)') <= Cardinality(Workers)
    <3>1. C(t)' \in SUBSET C(t) /\ uses'[t] = uses[t]
      BY <2>2, <2>3, <2>5
    <3>2. QED
      BY <1>b, <2>5, <3>1
  <2>6. QED
    BY <2>4, <2>5 DEF TokenSpentByOverlapOnly
<1>11. ASSUME NEW w \in Workers, NEW e \in Emails, FindForRevoke(w, e)
      PROVE  TokenSpentByOverlapOnly'
  BY <1>0, <1>11 DEF AccountsTypeOK, Another, Counted, FindForRevoke, Goes, IdleTask, StillChecked, Task
<1>12. ASSUME NEW w \in Workers, TakeEpoch(w) PROVE TokenSpentByOverlapOnly'
  <2>1. \A v \in Workers : StillChecked(worker[v], worker'[v])
    BY <1>12 DEF TakeEpoch, Goes, StillChecked, AccountsTypeOK, Task
  <2>2. QED
    BY <1>0, <1>12, <2>1 DEF TakeEpoch
<1>13. ASSUME NEW w \in Workers, WriteRevocation(w) PROVE TokenSpentByOverlapOnly'
  <2>1. \A v \in Workers : StillChecked(worker[v], worker'[v])
    BY <1>13, OvertakenIsNoNewCheck
  <2>2. QED
    BY <1>0, <1>13, <2>1 DEF WriteRevocation
<1>14. ASSUME NEW w \in Workers, NEW i \in Ids, CheckTarget(w, i) PROVE TokenSpentByOverlapOnly'
  BY <1>0, <1>14 DEF AccountsTypeOK, Another, CheckTarget, Counted, Goes, IdleTask, StillChecked, Task
<1>15. ASSUME NEW w \in Workers, DeleteAccount(w) PROVE TokenSpentByOverlapOnly'
  BY <1>0, <1>15 DEF AccountsTypeOK, DeleteAccount, Goes, IdleTask, StillChecked, Task
<1>16. ASSUME NEW w \in Workers, NEW e \in Emails, FindForGrant(w, e)
      PROVE  TokenSpentByOverlapOnly'
  BY <1>0, <1>16 DEF AccountsTypeOK, Another, Counted, FindForGrant, Goes, IdleTask, StillChecked, Task
<1>17. ASSUME NEW w \in Workers, WriteGrant(w) PROVE TokenSpentByOverlapOnly'
  <2>1. \A v \in Workers : StillChecked(worker[v], worker'[v])
    <3>1. ASSUME NEW v \in Workers
          PROVE  /\ StillChecked(worker[v], [worker[v] EXCEPT !.late = TRUE])
                 /\ StillChecked(worker[v], worker[v]) /\ StillChecked(worker[v], IdleTask)
      BY DEF AccountsTypeOK, Task, StillChecked, IdleTask
    <3>2. QED
      BY <1>17, <3>1 DEF WriteGrant
  <2>2. QED
    BY <1>0, <1>17, <2>1 DEF WriteGrant
<1>18. ASSUME NEW e \in Emails, RevokeAdmin(e) PROVE TokenSpentByOverlapOnly'
  BY <1>0, <1>18 DEF AccountsTypeOK, Another, RevokeAdmin, StillChecked, Task
<1>19. ASSUME NEW w \in Workers, Stop(w) PROVE TokenSpentByOverlapOnly'
  BY <1>0, <1>19 DEF AccountsTypeOK, Goes, IdleTask, StillChecked, Stop, Task
<1>20. ASSUME Tick PROVE TokenSpentByOverlapOnly'
  BY <1>0, <1>20 DEF AccountsTypeOK, StillChecked, Task, Tick
<1>21. CASE UNCHANGED vars
  BY <1>0, <1>21 DEF vars, StillChecked
<1>22. QED
  BY <1>1, <1>2, <1>3, <1>4, <1>5, <1>6, <1>7, <1>8, <1>9, <1>10, <1>11, <1>12, <1>13,
     <1>14, <1>15, <1>16, <1>17, <1>18, <1>19, <1>20, <1>21 DEF Next

\* A token that was used is marked as long as it has a row.
LEMMA UsedTokensAreMarked == Spec => []UsedTokenIsMarked
<1>1. Init => UsedTokenIsMarked
  BY DEF Init, UsedTokenIsMarked, Held
<1>2. AccountsTypeOK /\ Numbered /\ UsedTokenIsMarked /\ [Next]_vars => UsedTokenIsMarked'
  BY UsedTokenIsMarkedStep
<1>3. QED
  BY <1>1, <1>2, AccountsTypeCorrect, AccountsNumbered, PTL DEF Spec

\* A token sets more than one password only when completions overlap, and never more
\* than there are workers.
THEOREM TokensAreSpentOnce == Spec => []TokenSpentByOverlapOnly
<1>1. Init => TokenSpentByOverlapOnly
  BY DEF Init, TokenSpentByOverlapOnly
<1>2. AccountsTypeOK /\ UsedTokenIsMarked /\ TokenSpentByOverlapOnly /\ [Next]_vars
        => TokenSpentByOverlapOnly'
  BY TokenSpentStep
<1>3. QED
  BY <1>1, <1>2, AccountsTypeCorrect, UsedTokensAreMarked, PTL DEF Spec

-----------------------------------------------------------------------------
(* Passwords.                                                              *)

\* A login that has checked its password holds what it read.
StillVerifying(old, new) ==
    new.pc = "verifying" =>
        /\ old.pc = "verifying" /\ new.old = old.old /\ new.bare = old.bare
        /\ new.id = old.id /\ new.pw = old.pw

\* A revocation, that overtakes others, has no part in logins.
LEMMA OvertakenIsNoNewLogin ==
    ASSUME AccountsTypeOK, NEW w \in Workers, WriteRevocation(w)
    PROVE  \A v \in Workers : StillVerifying(worker[v], worker'[v])
<1>1. ASSUME NEW v \in Workers
      PROVE  /\ StillVerifying(worker[v], [worker[v] EXCEPT !.pc = "deleting"])
             /\ StillVerifying(worker[v], [worker[v] EXCEPT !.overtaken = TRUE])
             /\ StillVerifying(worker[v], worker[v]) /\ StillVerifying(worker[v], IdleTask)
  BY DEF AccountsTypeOK, Task, StillVerifying, IdleTask
<1>2. QED
  BY <1>1, WriteRevocationWorkers

\* The password of each row, and of each login about to write one back.
PasswordsStand == RehashIsOfThePassword /\ ResetPasswordStands

\* Every step keeps them.
LEMMA PasswordsStandStep ==
    ASSUME AccountsTypeOK, Numbered, PasswordsStand, [Next]_vars
    PROVE  PasswordsStand'
<1> USE DEF tables, history
<1>0. ASSUME \A v \in Workers : StillVerifying(worker[v], worker'[v]),
             \A i \in Held(users)' : i \in Held(users) /\ users'[i] = users[i],
             raced' = raced
      PROVE  PasswordsStand'
  BY <1>0 DEF PasswordsStand, RehashIsOfThePassword, ResetPasswordStands, StillVerifying
<1>1. ASSUME NEW e \in Emails, NEW p \in Passwords, SignUp(e, p) PROVE PasswordsStand'
  <2>1. PICK i \in Ids :
          /\ i \notin Held(users)
          /\ Held(users)' = Held(users) \cup {i}
          /\ users'[i].pw = p /\ users'[i].chosen = p
          /\ users'[i].acct = count.accounts + 1
          /\ \A j \in Ids \ {i} : users'[j] = users[j]
          /\ raced' = IF AboutToRehash(i) THEN raced \cup {count.accounts + 1} ELSE raced
          /\ worker' = worker
    BY <1>1, SignUpAdds
  <2>2. \A j \in Held(users) : j # i /\ users'[j] = users[j]
    BY <2>1, RowTypes
  <2>3. ASSUME NEW v \in Workers, worker[v].pc = "verifying", worker[v].old, worker[v].id = i
        PROVE  users'[i].acct \in raced'
    BY <2>1, <2>3 DEF PasswordsStand, RehashIsOfThePassword, AboutToRehash
  <2>4. RehashIsOfThePassword'
    BY <2>1, <2>2, <2>3 DEF PasswordsStand, RehashIsOfThePassword
  <2>5. ResetPasswordStands'
    BY <2>1, <2>2 DEF PasswordsStand, ResetPasswordStands
  <2>6. QED
    BY <2>4, <2>5 DEF PasswordsStand
<1>2. ASSUME NEW w \in Workers, NEW e \in Emails, NEW p \in Passwords, Verify(w, e, p)
      PROVE  PasswordsStand'
  <2>1. PICK i \in FindByEmail(e) :
          /\ users[i].pw = p
          /\ Goes(w, [IdleTask EXCEPT !.pc = "verifying", !.job = "login", !.id = i, !.email = e,
                                      !.acct = users[i].acct, !.pw = p, !.old = IsOld(i),
                                      !.bare = ~ users[i].marked])
    BY <1>2 DEF Verify
  <2>2. /\ worker'[w].id = i /\ worker'[w].pw = p /\ worker'[w].old = worker'[w].bare
        /\ \A v \in Workers \ {w} : worker'[v] = worker[v]
    BY <2>1 DEF Goes, AccountsTypeOK, IdleTask, IsOld
  <2>3. UNCHANGED <<users, raced>>
    BY <1>2 DEF Verify
  <2>4. RehashIsOfThePassword'
    BY <2>1, <2>2, <2>3 DEF PasswordsStand, RehashIsOfThePassword
  <2>5. QED
    BY <2>3, <2>4 DEF PasswordsStand, ResetPasswordStands, Held
<1>3. ASSUME NEW w \in Workers, Rehash(w) PROVE PasswordsStand'
  <2> DEFINE i == worker[w].id
  <2>1. /\ i \in Held(users) /\ i \in Ids
        /\ Held(users)' = Held(users)
        /\ \A j \in Held(users) : users'[j].acct = users[j].acct
        /\ users'[i].pw = worker[w].pw /\ users'[i].chosen = users[i].chosen
        /\ \A j \in Ids \ {i} : users'[j] = users[j]
    BY <1>3, RehashKeeps
  <2>2. /\ worker[w].pc = "verifying" /\ worker[w].old /\ raced' = raced
        /\ worker' = [worker EXCEPT ![w] = [worker[w] EXCEPT !.pc = "verified"]]
    BY <1>3 DEF Rehash, Goes
  <2>3. users[i].pw = worker[w].pw \/ users[i].acct \in raced
    BY <2>1, <2>2 DEF PasswordsStand, RehashIsOfThePassword
  <2>4. \A v \in Workers : StillVerifying(worker[v], worker'[v])
    BY <2>2 DEF StillVerifying, AccountsTypeOK, Task
  <2>5. \A j \in Held(users) : j \in Ids
    BY RowTypes
  <2>6. ASSUME NEW v \in Workers, worker'[v].pc = "verifying", worker'[v].old,
               worker'[v].id \in Held(users)
        PROVE  users'[worker'[v].id].pw = worker'[v].pw \/ users'[worker'[v].id].acct \in raced'
    <3>1. /\ worker[v].pc = "verifying" /\ worker[v].old /\ worker'[v].id = worker[v].id
          /\ worker'[v].pw = worker[v].pw
      BY <2>4, <2>6 DEF StillVerifying
    <3>2. users[worker[v].id].pw = worker[v].pw \/ users[worker[v].id].acct \in raced
      BY <2>6, <3>1 DEF PasswordsStand, RehashIsOfThePassword
    <3>3. CASE worker[v].id = i
      BY <2>1, <2>2, <2>3, <3>1, <3>2, <3>3
    <3>4. CASE worker[v].id # i
      <4>1. users'[worker[v].id] = users[worker[v].id]
        BY <2>1, <2>5, <2>6, <3>1, <3>4
      <4>2. QED
        BY <2>2, <3>1, <3>2, <4>1
    <3>5. QED
      BY <3>3, <3>4
  <2>7. \A v \in Workers : worker'[v].pc = "verifying" => worker'[v].old = worker'[v].bare
    BY <2>4 DEF StillVerifying, PasswordsStand, RehashIsOfThePassword
  <2>8. \A j \in Held(users) : users'[j].pw = users'[j].chosen \/ users'[j].acct \in raced
    BY <2>1, <2>3, <2>5 DEF PasswordsStand, ResetPasswordStands
  <2>9. QED
    BY <2>1, <2>2, <2>6, <2>7, <2>8 DEF PasswordsStand, RehashIsOfThePassword, ResetPasswordStands
<1>4. ASSUME NEW w \in Workers, Issue(w) PROVE PasswordsStand'
  BY <1>0, <1>4 DEF AccountsTypeOK, Goes, Held, IdleTask, Issue, StillVerifying, Task
<1>5. ASSUME NEW s \in cookies, Forget(s) PROVE PasswordsStand'
  BY <1>0, <1>5 DEF AccountsTypeOK, Another, Forget, Held, StillVerifying, Task
<1>6. ASSUME NEW e \in Emails, CountRequests(e) PROVE PasswordsStand'
  BY <1>0, <1>6 DEF AccountsTypeOK, Another, CountRequests, Held, StillVerifying, Task
<1>7. ASSUME InsertReset PROVE PasswordsStand'
  BY <1>0, <1>7 DEF InsertReset, Held, StillVerifying
<1>8. ASSUME RequestFails PROVE PasswordsStand'
  BY <1>0, <1>8 DEF AccountsTypeOK, Held, RequestFails, StillVerifying, Task
<1>9. ASSUME NEW w \in Workers, NEW p \in Passwords, CheckToken(w, p) PROVE PasswordsStand'
  <2>1. PICK r \in Held(resets) :
          Goes(w, [IdleTask EXCEPT !.pc = "checked", !.job = "reset", !.id = resets[r].user,
                                   !.acct = resets[r].acct, !.pw = p, !.reset = r,
                                   !.token = resets[r].token])
    BY <1>9 DEF CheckToken
  <2>2. worker'[w].pc = "checked" /\ \A v \in Workers \ {w} : worker'[v] = worker[v]
    BY <2>1 DEF Goes, AccountsTypeOK, IdleTask
  <2>3. \A v \in Workers : StillVerifying(worker[v], worker'[v])
    BY <2>2 DEF StillVerifying
  <2>4. QED
    BY <1>0, <1>9, <2>3 DEF CheckToken, Held
<1>10. ASSUME NEW w \in Workers, SetPassword(w) PROVE PasswordsStand'
  <2> DEFINE t == worker[w]
  <2>1. /\ t.id \in Held(users) /\ t.id \in Ids /\ Held(users)' = Held(users)
        /\ \A j \in Held(users) : users'[j].acct = users[j].acct
        /\ users'[t.id].pw = t.pw
        /\ users[t.id].acct = t.acct => users'[t.id].chosen = t.pw
        /\ \A j \in Ids \ {t.id} : users'[j] = users[j]
    BY <1>10, SetPasswordWrites
  <2>2. /\ raced' = IF AboutToRehash(t.id) \/ users[t.id].acct # t.acct
                    THEN raced \cup {users[t.id].acct} ELSE raced
        /\ worker' = [worker EXCEPT ![w] = [t EXCEPT !.pc = "revoking", !.acct = users[t.id].acct]]
    BY <1>10 DEF SetPassword, Goes
  <2>3. \A v \in Workers : StillVerifying(worker[v], worker'[v])
    BY <2>2 DEF StillVerifying, AccountsTypeOK, Task
  <2>4. \A j \in Held(users) : j \in Ids
    BY RowTypes
  <2>5. ASSUME NEW v \in Workers, worker'[v].pc = "verifying", worker'[v].old,
               worker'[v].id \in Held(users)
        PROVE  users'[worker'[v].id].pw = worker'[v].pw \/ users'[worker'[v].id].acct \in raced'
    <3>1. /\ worker[v].pc = "verifying" /\ worker[v].old /\ worker'[v].id = worker[v].id
          /\ worker'[v].pw = worker[v].pw
      BY <2>3, <2>5 DEF StillVerifying
    <3>2. CASE worker[v].id = t.id
      <4>1. worker[v].bare
        BY <3>1 DEF PasswordsStand, RehashIsOfThePassword
      <4>2. AboutToRehash(t.id)
        BY <3>1, <3>2, <4>1 DEF AboutToRehash
      <4>3. QED
        BY <2>1, <2>2, <3>1, <3>2, <4>2
    <3>3. CASE worker[v].id # t.id
      <4>1. users'[worker[v].id] = users[worker[v].id]
        BY <2>1, <2>4, <2>5, <3>1, <3>3
      <4>2. users[worker[v].id].pw = worker[v].pw \/ users[worker[v].id].acct \in raced
        BY <2>5, <3>1 DEF PasswordsStand, RehashIsOfThePassword
      <4>3. QED
        BY <2>2, <3>1, <4>1, <4>2
    <3>4. QED
      BY <3>2, <3>3
  <2>6. \A v \in Workers : worker'[v].pc = "verifying" => worker'[v].old = worker'[v].bare
    BY <2>3 DEF StillVerifying, PasswordsStand, RehashIsOfThePassword
  <2>7. \A j \in Held(users) : users'[j].pw = users'[j].chosen \/ users'[j].acct \in raced'
    BY <2>1, <2>2, <2>4 DEF PasswordsStand, ResetPasswordStands
  <2>8. QED
    BY <2>1, <2>5, <2>6, <2>7 DEF PasswordsStand, RehashIsOfThePassword, ResetPasswordStands
<1>11. ASSUME NEW w \in Workers, NEW e \in Emails, FindForRevoke(w, e) PROVE PasswordsStand'
  <2>1. \A v \in Workers : StillVerifying(worker[v], worker'[v])
    BY <1>11, ZenonT(60) DEF FindForRevoke, Goes, StillVerifying, AccountsTypeOK, IdleTask
  <2>2. QED
    BY <1>0, <1>11, <2>1 DEF FindForRevoke, Held
<1>12. ASSUME NEW w \in Workers, TakeEpoch(w) PROVE PasswordsStand'
  <2>1. \A v \in Workers : StillVerifying(worker[v], worker'[v])
    BY <1>12 DEF TakeEpoch, Goes, StillVerifying, AccountsTypeOK, Task
  <2>2. QED
    BY <1>0, <1>12, <2>1 DEF TakeEpoch, Held
<1>13. ASSUME NEW w \in Workers, WriteRevocation(w) PROVE PasswordsStand'
  <2>1. \A v \in Workers : StillVerifying(worker[v], worker'[v])
    BY <1>13, OvertakenIsNoNewLogin
  <2>2. QED
    BY <1>0, <1>13, <2>1 DEF WriteRevocation, Held
<1>14. ASSUME NEW w \in Workers, NEW i \in Ids, CheckTarget(w, i) PROVE PasswordsStand'
  BY <1>0, <1>14 DEF AccountsTypeOK, Another, CheckTarget, Counted, Goes, Held, IdleTask, StillVerifying, Task
<1>15. ASSUME NEW w \in Workers, DeleteAccount(w) PROVE PasswordsStand'
  <2>1. \A i \in Held(users)' : i \in Held(users) /\ users'[i] = users[i]
    BY <1>15, DeleteAccountRemoves
  <2>2. QED
    BY <1>0, <1>15, <2>1 DEF DeleteAccount, Goes, IdleTask, StillVerifying, AccountsTypeOK
<1>16. ASSUME NEW w \in Workers, NEW e \in Emails, FindForGrant(w, e) PROVE PasswordsStand'
  <2>1. \A v \in Workers : StillVerifying(worker[v], worker'[v])
    BY <1>16, ZenonT(60) DEF FindForGrant, Goes, StillVerifying, AccountsTypeOK, IdleTask
  <2>2. QED
    BY <1>0, <1>16, <2>1 DEF FindForGrant, Held
<1>17. ASSUME NEW w \in Workers, WriteGrant(w) PROVE PasswordsStand'
  <2>1. \A v \in Workers : StillVerifying(worker[v], worker'[v])
    <3>1. ASSUME NEW v \in Workers
          PROVE  /\ StillVerifying(worker[v], [worker[v] EXCEPT !.late = TRUE])
                 /\ StillVerifying(worker[v], worker[v]) /\ StillVerifying(worker[v], IdleTask)
      BY DEF AccountsTypeOK, Task, StillVerifying, IdleTask
    <3>2. QED
      BY <1>17, <3>1 DEF WriteGrant
  <2>2. QED
    BY <1>0, <1>17, <2>1 DEF WriteGrant, Held
<1>18. ASSUME NEW e \in Emails, RevokeAdmin(e) PROVE PasswordsStand'
  BY <1>0, <1>18 DEF AccountsTypeOK, Another, Held, RevokeAdmin, StillVerifying, Task
<1>19. ASSUME NEW w \in Workers, Stop(w) PROVE PasswordsStand'
  BY <1>0, <1>19 DEF AccountsTypeOK, Goes, Held, IdleTask, StillVerifying, Stop, Task
<1>20. ASSUME Tick PROVE PasswordsStand'
  BY <1>0, <1>20 DEF AccountsTypeOK, Held, StillVerifying, Task, Tick
<1>21. CASE UNCHANGED vars
  BY <1>0, <1>21 DEF vars, Held, StillVerifying
<1>22. QED
  BY <1>1, <1>2, <1>3, <1>4, <1>5, <1>6, <1>7, <1>8, <1>9, <1>10, <1>11, <1>12, <1>13,
     <1>14, <1>15, <1>16, <1>17, <1>18, <1>19, <1>20, <1>21 DEF Next

\* The password of an account is the one its owner chose last, but for a login that
\* had read the old hash before and for a reset of the account whose id it was given.
THEOREM ResetPasswordsStand == Spec => []ResetPasswordStands
<1>1. Init => PasswordsStand
  <2> SUFFICES ASSUME Init PROVE PasswordsStand
    OBVIOUS
  <2>1. \A i \in Held(users) : users[i].pw = users[i].chosen
    BY DEF Init, Held
  <2>2. \A w \in Workers : worker[w].pc = "idle"
    BY DEF Init, IdleTask
  <2>3. QED
    BY <2>1, <2>2 DEF PasswordsStand, RehashIsOfThePassword, ResetPasswordStands
<1>2. AccountsTypeOK /\ Numbered /\ PasswordsStand /\ [Next]_vars => PasswordsStand'
  BY PasswordsStandStep
<1>3. PasswordsStand => ResetPasswordStands
  BY DEF PasswordsStand
<1>4. QED
  BY <1>1, <1>2, <1>3, AccountsTypeCorrect, AccountsNumbered, PTL DEF Spec

-----------------------------------------------------------------------------
(* Revocations.                                                            *)

\* A worker about to write an epoch, that was not overtaken, holds what it took.
StillWriting(old, new) ==
    new.pc = "writing" /\ ~ new.overtaken =>
        /\ old.pc = "writing" /\ ~ old.overtaken
        /\ new.id = old.id /\ new.epoch = old.epoch

\* Writing the row of an account overtakes whoever is about to write it.
LEMMA OvertakenByWrite ==
    ASSUME AccountsTypeOK, NEW w \in Workers, WriteRevocation(w)
    PROVE  \A v \in Workers :
             /\ StillWriting(worker[v], worker'[v])
             /\ worker'[v].pc = "writing" /\ ~ worker'[v].overtaken => worker'[v].id # worker[w].id
<1>1. ASSUME NEW v \in Workers, worker'[v].pc = "writing", ~ worker'[v].overtaken
      PROVE  worker'[v] = worker[v] /\ worker[v].id # worker[w].id
  <2>1. v # w
    BY <1>1, WriteRevocationWorkers
  <2>2. worker[v] \in Task /\ [worker[v] EXCEPT !.overtaken = TRUE].overtaken
    BY DEF AccountsTypeOK, Task
  <2>3. worker'[v] = IF worker[v].pc = "writing" /\ worker[v].id = worker[w].id
                     THEN [worker[v] EXCEPT !.overtaken = TRUE] ELSE worker[v]
    BY <2>1 DEF WriteRevocation
  <2>4. CASE worker[v].pc = "writing" /\ worker[v].id = worker[w].id
    BY <1>1, <2>2, <2>3, <2>4
  <2>5. CASE ~ (worker[v].pc = "writing" /\ worker[v].id = worker[w].id)
    BY <1>1, <2>3, <2>5
  <2>6. QED
    BY <2>4, <2>5
<1>2. QED
  BY <1>1 DEF StillWriting

\* What WriteRevocation does to the table and to the history of revocations.
LEMMA WriteRevocationWrites ==
    ASSUME AccountsTypeOK, Numbered, NEW w \in Workers, WriteRevocation(w)
    PROVE  LET t == worker[w]
               a == users[t.id].acct
           IN  /\ t.pc = "writing" /\ t.id \in Ids /\ t.id \in Held(users) /\ a \in Accts
               /\ t.epoch \in Int
               /\ revoked'[t.id] = t.epoch
               /\ \A j \in Ids \ {t.id} : revoked'[j] = revoked[j]
               /\ ended'[a] = IF ended[a] >= t.epoch THEN ended[a] ELSE t.epoch
               /\ \A b \in Accts \ {a} : ended'[b] = ended[b]
               /\ \A j \in Held(users) \ {t.id} : users[j].acct \in Accts \ {a}
               /\ clashed \subseteq clashed' /\ (t.overtaken => a \in clashed')
               /\ UNCHANGED <<users, resets, halfway>>
<1> DEFINE t == worker[w]
           a == users[t.id].acct
<1>1. /\ t.pc = "writing" /\ t.id \in Ids /\ t.id \in Held(users) /\ a \in Accts
      /\ t.epoch \in Int /\ ended[a] \in Int
  BY RowTypes DEF WriteRevocation, AccountsTypeOK, Task, User
<1>2. revoked'[t.id] = t.epoch /\ \A j \in Ids \ {t.id} : revoked'[j] = revoked[j]
  BY <1>1 DEF WriteRevocation, AccountsTypeOK, StoredEpoch
<1>3. /\ ended'[a] = Max({ended[a], t.epoch})
      /\ \A b \in Accts \ {a} : ended'[b] = ended[b]
  BY <1>1 DEF WriteRevocation, AccountsTypeOK
<1>4. \A j \in Held(users) \ {t.id} : users[j].acct \in Accts \ {a}
  BY <1>1, RowTypes DEF Numbered, User
<1>5. QED
  BY <1>1, <1>2, <1>3, <1>4, MaxOfTwo DEF WriteRevocation

\* Every step keeps the epochs.
LEMMA NoEpochIsLostStep ==
    ASSUME AccountsTypeOK, Numbered, NoEpochIsLost, [Next]_vars
    PROVE  NoEpochIsLost'
<1> USE DEF tables, history
<1>0. ASSUME \A v \in Workers : StillWriting(worker[v], worker'[v]),
             \A i \in Held(users)' :
                /\ i \in Held(users) /\ users'[i].acct = users[i].acct
                /\ revoked'[i] = revoked[i],
             ended' = ended, clashed' = clashed
      PROVE  NoEpochIsLost'
  BY <1>0 DEF NoEpochIsLost, StillWriting
<1>1. ASSUME NEW e \in Emails, NEW p \in Passwords, SignUp(e, p) PROVE NoEpochIsLost'
  <2>1. PICK i \in Ids :
          /\ i \notin Held(users)
          /\ Held(users)' = Held(users) \cup {i}
          /\ users'[i].acct = count.accounts + 1
          /\ \A j \in Ids \ {i} : users'[j] = users[j]
          /\ count.accounts + 1 \in Accts
          /\ UNCHANGED <<worker, revoked, ended, clashed>>
    BY <1>1, SignUpAdds
  <2>2. /\ revoked[i] = None /\ ended[count.accounts + 1] = 0
        /\ \A v \in Workers : worker[v].epoch \in Int /\ 0 <= worker[v].epoch
    BY <2>1, BoundsAreNat DEF AccountsTypeOK, Task, Numbered, TaskNumbered, Held, Accts
  <2>3. \A j \in Held(users) : j # i /\ users'[j] = users[j]
    BY <2>1, RowTypes
  <2>4. ASSUME NEW j \in Held(users)'
        PROVE  \/ users'[j].acct \in clashed'
               \/ revoked'[j] = None /\ ended'[users'[j].acct] = 0
               \/ revoked'[j] # None /\ ended'[users'[j].acct] <= revoked'[j] + 1
    BY <2>1, <2>2, <2>3 DEF NoEpochIsLost
  <2>5. ASSUME NEW v \in Workers, worker'[v].pc = "writing", ~ worker'[v].overtaken,
               worker'[v].id \in Held(users)'
        PROVE  ended'[users'[worker'[v].id].acct] <= worker'[v].epoch + 1
    BY <2>1, <2>2, <2>3, <2>5 DEF NoEpochIsLost
  <2>6. QED
    BY <2>4, <2>5 DEF NoEpochIsLost
<1>2. ASSUME NEW w \in Workers, NEW e \in Emails, NEW p \in Passwords, Verify(w, e, p)
      PROVE  NoEpochIsLost'
  <2>1. PICK i \in FindByEmail(e) :
          Goes(w, [IdleTask EXCEPT !.pc = "verifying", !.job = "login", !.id = i, !.email = e,
                                   !.acct = users[i].acct, !.pw = p, !.old = IsOld(i),
                                   !.bare = ~ users[i].marked])
    BY <1>2 DEF Verify
  <2>2. worker'[w].pc = "verifying" /\ \A v \in Workers \ {w} : worker'[v] = worker[v]
    BY <2>1 DEF Goes, AccountsTypeOK, IdleTask
  <2>3. \A v \in Workers : StillWriting(worker[v], worker'[v])
    BY <2>2 DEF StillWriting
  <2>4. QED
    BY <1>0, <1>2, <2>3 DEF Verify, Held
<1>3. ASSUME NEW w \in Workers, Rehash(w) PROVE NoEpochIsLost'
  <2>1. \A i \in Held(users)' : i \in Held(users) /\ users'[i].acct = users[i].acct
    BY <1>3, RehashKeeps
  <2>2. \A v \in Workers : StillWriting(worker[v], worker'[v])
    BY <1>3 DEF Rehash, Goes, StillWriting, AccountsTypeOK, Task
  <2>3. QED
    BY <1>0, <1>3, <2>1, <2>2 DEF Rehash
<1>4. ASSUME NEW w \in Workers, Issue(w) PROVE NoEpochIsLost'
  BY <1>0, <1>4 DEF AccountsTypeOK, Goes, Held, IdleTask, Issue, StillWriting, Task
<1>5. ASSUME NEW s \in cookies, Forget(s) PROVE NoEpochIsLost'
  BY <1>0, <1>5 DEF AccountsTypeOK, Another, Forget, Held, StillWriting, Task
<1>6. ASSUME NEW e \in Emails, CountRequests(e) PROVE NoEpochIsLost'
  BY <1>0, <1>6 DEF AccountsTypeOK, Another, CountRequests, Held, StillWriting, Task
<1>7. ASSUME InsertReset PROVE NoEpochIsLost'
  BY <1>0, <1>7 DEF InsertReset, Held, StillWriting
<1>8. ASSUME RequestFails PROVE NoEpochIsLost'
  BY <1>0, <1>8 DEF AccountsTypeOK, Held, RequestFails, StillWriting, Task
<1>9. ASSUME NEW w \in Workers, NEW p \in Passwords, CheckToken(w, p) PROVE NoEpochIsLost'
  <2>1. PICK r \in Held(resets) :
          Goes(w, [IdleTask EXCEPT !.pc = "checked", !.job = "reset", !.id = resets[r].user,
                                   !.acct = resets[r].acct, !.pw = p, !.reset = r,
                                   !.token = resets[r].token])
    BY <1>9 DEF CheckToken
  <2>2. worker'[w].pc = "checked" /\ \A v \in Workers \ {w} : worker'[v] = worker[v]
    BY <2>1 DEF Goes, AccountsTypeOK, IdleTask
  <2>3. \A v \in Workers : StillWriting(worker[v], worker'[v])
    BY <2>2 DEF StillWriting
  <2>4. QED
    BY <1>0, <1>9, <2>3 DEF CheckToken, Held
<1>10. ASSUME NEW w \in Workers, SetPassword(w) PROVE NoEpochIsLost'
  <2>1. \A i \in Held(users)' : i \in Held(users) /\ users'[i].acct = users[i].acct
    BY <1>10, SetPasswordWrites
  <2>2. \A v \in Workers : StillWriting(worker[v], worker'[v])
    BY <1>10 DEF SetPassword, Goes, StillWriting, AccountsTypeOK, Task
  <2>3. QED
    BY <1>0, <1>10, <2>1, <2>2 DEF SetPassword
<1>11. ASSUME NEW w \in Workers, NEW e \in Emails, FindForRevoke(w, e) PROVE NoEpochIsLost'
  <2>1. PICK i \in FindByEmail(e) :
          Goes(w, [IdleTask EXCEPT !.pc = "revoking", !.job = "revoke", !.id = i,
                                   !.acct = users[i].acct])
    BY <1>11 DEF FindForRevoke
  <2>2. worker'[w].pc = "revoking" /\ \A v \in Workers \ {w} : worker'[v] = worker[v]
    BY <2>1 DEF Goes, AccountsTypeOK, IdleTask
  <2>3. \A v \in Workers : StillWriting(worker[v], worker'[v])
    BY <2>2 DEF StillWriting
  <2>4. QED
    BY <1>0, <1>11, <2>3 DEF FindForRevoke, Held
<1>12. ASSUME NEW w \in Workers, TakeEpoch(w) PROVE NoEpochIsLost'
  <2>1. /\ worker'[w].epoch = clock - Backoff(worker[w].job) /\ worker'[w].id = worker[w].id
        /\ \A v \in Workers \ {w} : worker'[v] = worker[v]
        /\ UNCHANGED <<users, revoked, ended, clashed>>
    BY <1>12 DEF TakeEpoch, Goes, AccountsTypeOK, Task
  <2>2. \A j \in Held(users) : users[j].acct \in Accts
    BY RowTypes DEF User
  <2>3. /\ clock \in Nat /\ Backoff(worker[w].job) \in {0, 1}
        /\ \A a \in Accts : ended[a] \in Nat /\ ended[a] <= clock
    BY BoundsAreNat DEF AccountsTypeOK, Time, Backoff, Numbered
  <2>4. worker'[w].id \in Held(users) => ended[users[worker'[w].id].acct] <= worker'[w].epoch + 1
    BY <2>1, <2>2, <2>3
  <2>5. QED
    BY <2>1, <2>4 DEF NoEpochIsLost, Held
<1>13. ASSUME NEW w \in Workers, WriteRevocation(w) PROVE NoEpochIsLost'
  <2> DEFINE t == worker[w]
             a == users[t.id].acct
  <2>1. /\ t.pc = "writing" /\ t.id \in Ids /\ t.id \in Held(users) /\ a \in Accts
        /\ t.epoch \in Int /\ revoked'[t.id] = t.epoch
        /\ \A j \in Ids \ {t.id} : revoked'[j] = revoked[j]
        /\ ended'[a] = IF ended[a] >= t.epoch THEN ended[a] ELSE t.epoch
        /\ \A b \in Accts \ {a} : ended'[b] = ended[b]
        /\ \A j \in Held(users) \ {t.id} : users[j].acct \in Accts \ {a}
        /\ clashed \subseteq clashed' /\ (t.overtaken => a \in clashed')
        /\ users' = users
    BY <1>13, WriteRevocationWrites
  <2>2. \A j \in Held(users) : j \in Ids
    BY RowTypes
  <2>3. ~ t.overtaken => ended[a] <= t.epoch + 1
    BY <2>1 DEF NoEpochIsLost
  <2>4. ended[a] \in Nat /\ t.epoch # None
    BY <2>1, NoneIsNo DEF AccountsTypeOK
  <2>5. ASSUME NEW j \in Held(users)
        PROVE  \/ users[j].acct \in clashed'
               \/ revoked'[j] = None /\ ended'[users[j].acct] = 0
               \/ revoked'[j] # None /\ ended'[users[j].acct] <= revoked'[j] + 1
    <3>1. CASE j = t.id
      BY <2>1, <2>3, <2>4, <3>1
    <3>2. CASE j # t.id
      <4>1. revoked'[j] = revoked[j] /\ ended'[users[j].acct] = ended[users[j].acct]
        BY <2>1, <2>2, <3>2
      <4>2. QED
        BY <2>1, <4>1 DEF NoEpochIsLost
    <3>3. QED
      BY <3>1, <3>2
  <2>6. ASSUME NEW v \in Workers, worker'[v].pc = "writing", ~ worker'[v].overtaken,
               worker'[v].id \in Held(users)
        PROVE  ended'[users[worker'[v].id].acct] <= worker'[v].epoch + 1
    <3>1. /\ worker[v].pc = "writing" /\ ~ worker[v].overtaken
          /\ worker'[v].id = worker[v].id /\ worker'[v].epoch = worker[v].epoch
          /\ worker'[v].id # t.id
      BY <1>13, <2>6, OvertakenByWrite DEF StillWriting
    <3>2. ended'[users[worker'[v].id].acct] = ended[users[worker'[v].id].acct]
      BY <2>1, <2>6, <3>1
    <3>3. ended[users[worker'[v].id].acct] <= worker'[v].epoch + 1
      BY <2>6, <3>1 DEF NoEpochIsLost
    <3>4. QED
      BY <3>2, <3>3
  <2>7. QED
    BY <2>1, <2>5, <2>6 DEF NoEpochIsLost, Held
<1>14. ASSUME NEW w \in Workers, NEW i \in Ids, CheckTarget(w, i) PROVE NoEpochIsLost'
  BY <1>0, <1>14 DEF AccountsTypeOK, Another, CheckTarget, Counted, Goes, Held, IdleTask, StillWriting, Task
<1>15. ASSUME NEW w \in Workers, DeleteAccount(w) PROVE NoEpochIsLost'
  <2>1. /\ \A i \in Held(users)' :
             /\ i \in Held(users) /\ i \in Ids /\ i # worker[w].id /\ users'[i] = users[i]
        /\ \A i \in Ids \ {worker[w].id} : revoked'[i] = revoked[i]
    BY <1>15, DeleteAccountRemoves, RowTypes
  <2>2. \A v \in Workers : StillWriting(worker[v], worker'[v])
    BY <1>15 DEF DeleteAccount, Goes, IdleTask, StillWriting, AccountsTypeOK
  <2>3. QED
    BY <1>0, <1>15, <2>1, <2>2 DEF DeleteAccount
<1>16. ASSUME NEW w \in Workers, NEW e \in Emails, FindForGrant(w, e) PROVE NoEpochIsLost'
  <2>1. PICK i \in FindByEmail(e) :
          Goes(w, [IdleTask EXCEPT !.pc = "granting", !.job = "grant", !.id = i, !.email = e])
    BY <1>16 DEF FindForGrant
  <2>2. worker'[w].pc = "granting" /\ \A v \in Workers \ {w} : worker'[v] = worker[v]
    BY <2>1 DEF Goes, AccountsTypeOK, IdleTask
  <2>3. \A v \in Workers : StillWriting(worker[v], worker'[v])
    BY <2>2 DEF StillWriting
  <2>4. QED
    BY <1>0, <1>16, <2>3 DEF FindForGrant, Held
<1>17. ASSUME NEW w \in Workers, WriteGrant(w) PROVE NoEpochIsLost'
  <2>1. \A v \in Workers : StillWriting(worker[v], worker'[v])
    <3>1. ASSUME NEW v \in Workers
          PROVE  /\ StillWriting(worker[v], [worker[v] EXCEPT !.late = TRUE])
                 /\ StillWriting(worker[v], worker[v]) /\ StillWriting(worker[v], IdleTask)
      BY DEF AccountsTypeOK, Task, StillWriting, IdleTask
    <3>2. QED
      BY <1>17, <3>1 DEF WriteGrant
  <2>2. QED
    BY <1>0, <1>17, <2>1 DEF WriteGrant, Held
<1>18. ASSUME NEW e \in Emails, RevokeAdmin(e) PROVE NoEpochIsLost'
  BY <1>0, <1>18 DEF AccountsTypeOK, Another, Held, RevokeAdmin, StillWriting, Task
<1>19. ASSUME NEW w \in Workers, Stop(w) PROVE NoEpochIsLost'
  BY <1>0, <1>19 DEF AccountsTypeOK, Goes, Held, IdleTask, StillWriting, Stop, Task
<1>20. ASSUME Tick PROVE NoEpochIsLost'
  BY <1>0, <1>20 DEF AccountsTypeOK, Held, StillWriting, Task, Tick
<1>21. CASE UNCHANGED vars
  BY <1>0, <1>21 DEF vars, Held, StillWriting
<1>22. QED
  BY <1>1, <1>2, <1>3, <1>4, <1>5, <1>6, <1>7, <1>8, <1>9, <1>10, <1>11, <1>12, <1>13,
     <1>14, <1>15, <1>16, <1>17, <1>18, <1>19, <1>20, <1>21 DEF Next

\* A session that a revocation ended stays ended, but for the second of a reset and
\* for revocations that overlap.
THEOREM RevokedSessionsStayOut == Spec => []RevokedStaysOut
<1>1. Init => NoEpochIsLost
  <2> SUFFICES ASSUME Init PROVE NoEpochIsLost
    OBVIOUS
  <2>1. \A i \in Held(users) : revoked[i] = None /\ users[i].acct \in Accts
    <3>1. PICK n \in 0 .. MaxAccounts : Founders \in [1 .. n -> Emails]
      BY AccountsAssumption
    <3>2. QED
      BY <3>1, BoundsAreNat DEF Init, Held, Ids, Accts
  <2>2. \A a \in Accts : ended[a] = 0
    BY DEF Init
  <2>3. \A w \in Workers : worker[w].pc = "idle"
    BY DEF Init, IdleTask
  <2>4. QED
    BY <2>1, <2>2, <2>3 DEF NoEpochIsLost
<1>2. AccountsTypeOK /\ Numbered /\ NoEpochIsLost /\ [Next]_vars => NoEpochIsLost'
  BY NoEpochIsLostStep
<1>3. AccountsTypeOK /\ NoEpochIsLost => RevokedStaysOut
  <2> SUFFICES ASSUME AccountsTypeOK, NoEpochIsLost, NEW s \in cookies,
                      Open(s), users[s.id].acct = s.acct, s.acct \notin clashed
               PROVE  s.iat >= ended[s.acct]
    BY DEF RevokedStaysOut
  <2>1. /\ s.id \in Held(users) /\ ~ (revoked[s.id] # None /\ s.iat <= revoked[s.id])
        /\ s.iat \in Nat /\ s.acct \in Accts /\ s.id \in Ids
    BY BoundsAreNat DEF Open, IsSessionRevoked, AccountsTypeOK, Cookie, Time, Ids
  <2>2. /\ ended[s.acct] \in Nat
        /\ revoked[s.id] # None => revoked[s.id] \in Int
    BY <2>1 DEF AccountsTypeOK
  <2>3. \/ revoked[s.id] = None /\ ended[s.acct] = 0
        \/ revoked[s.id] # None /\ ended[s.acct] <= revoked[s.id] + 1
    BY <2>1 DEF NoEpochIsLost
  <2>4. QED
    BY <2>1, <2>2, <2>3
<1>4. QED
  BY <1>1, <1>2, <1>3, AccountsTypeCorrect, AccountsNumbered, PTL DEF Spec

\* A worker in the second commit of a reset is where it was.
StillEnding(old, new) ==
    old.job = "reset" /\ old.pc \in {"revoking", "writing"} =>
        /\ new.job = old.job /\ new.pc = old.pc
        /\ new.id = old.id /\ new.acct = old.acct /\ new.epoch = old.epoch

\* SpentTokenEnds, of one row.
RowEnds(r) ==
    resets[r].used # None =>
        LET i == resets[r].user
            e == resets[r].used - 1
        IN  \/ /\ revoked[i] # None /\ revoked[i] >= e
               /\ \A w \in Workers :
                    worker[w].pc = "writing" /\ worker[w].id = i /\ ~ worker[w].overtaken
                        => worker[w].epoch >= e
            \/ \E w \in Workers : Ending(w, i, users[i].acct, e)
            \/ users[i].acct \in halfway \cup clashed

\* A step that changes neither the row, nor its account, nor who revokes, keeps it.
LEMMA RowEndsKept ==
    ASSUME NEW r, RowEnds(r),
           \A v \in Workers : StillWriting(worker[v], worker'[v]) /\ StillEnding(worker[v], worker'[v]),
           resets'[r].used = resets[r].used, resets'[r].user = resets[r].user,
           users'[resets[r].user].acct = users[resets[r].user].acct,
           revoked'[resets[r].user] = revoked[resets[r].user],
           halfway \subseteq halfway', clashed \subseteq clashed'
    PROVE  RowEnds(r)'
<1> SUFFICES ASSUME resets[r].used # None PROVE RowEnds(r)'
  BY DEF RowEnds
<1> DEFINE i == resets[r].user
           a == users[i].acct
           e == resets[r].used - 1
<1>1. CASE /\ revoked[i] # None /\ revoked[i] >= e
           /\ \A w \in Workers :
                worker[w].pc = "writing" /\ worker[w].id = i /\ ~ worker[w].overtaken
                    => worker[w].epoch >= e
  BY <1>1 DEF RowEnds, StillWriting
<1>2. CASE \E w \in Workers : Ending(w, i, a, e)
  <2>1. PICK w \in Workers : Ending(w, i, a, e)
    BY <1>2
  <2>2. Ending(w, i, a, e)'
    BY <2>1 DEF Ending, StillEnding
  <2>3. QED
    BY <2>1 DEF RowEnds, Ending, StillEnding
<1>3. CASE a \in halfway \cup clashed
  BY <1>3 DEF RowEnds
<1>4. QED
  BY <1>1, <1>2, <1>3 DEF RowEnds

\* Every step keeps what a spent token promises.
LEMMA SpentTokenEndsStep ==
    ASSUME AccountsTypeOK, Numbered, SpentTokenEnds, [Next]_vars
    PROVE  SpentTokenEnds'
<1> USE DEF tables, history
<1>0. ASSUME \A v \in Workers : StillWriting(worker[v], worker'[v]) /\ StillEnding(worker[v], worker'[v]),
             \A r \in Held(resets)' : resets'[r].used # None =>
                /\ r \in Held(resets) /\ resets'[r] = resets[r]
                /\ users'[resets[r].user].acct = users[resets[r].user].acct
                /\ revoked'[resets[r].user] = revoked[resets[r].user],
             halfway \subseteq halfway', clashed \subseteq clashed'
      PROVE  SpentTokenEnds'
  <2>1. ASSUME NEW r \in Held(resets)', resets'[r].used # None PROVE RowEnds(r)'
    <3>1. RowEnds(r)
      BY <1>0, <2>1 DEF SpentTokenEnds, RowEnds
    <3>2. QED
      BY <1>0, <2>1, <3>1, RowEndsKept
  <2>2. QED
    BY <2>1 DEF SpentTokenEnds, RowEnds
<1>1. ASSUME NEW e \in Emails, NEW p \in Passwords, SignUp(e, p) PROVE SpentTokenEnds'
  <2>1. PICK i \in Ids :
          /\ i \notin Held(users)
          /\ \A j \in Ids \ {i} : users'[j] = users[j]
          /\ UNCHANGED <<worker, revoked, resets, halfway, clashed>>
    BY <1>1, SignUpAdds
  <2>2. \A r \in Held(resets) : resets[r].user \in Ids \ {i}
    BY <2>1, RowTypes DEF AccountsTypeOK
  <2>3. QED
    BY <1>0, <2>1, <2>2 DEF StillWriting, StillEnding, Held
<1>2. ASSUME NEW w \in Workers, NEW e \in Emails, NEW p \in Passwords, Verify(w, e, p)
      PROVE  SpentTokenEnds'
  <2>1. PICK i \in FindByEmail(e) :
          Goes(w, [IdleTask EXCEPT !.pc = "verifying", !.job = "login", !.id = i, !.email = e,
                                   !.acct = users[i].acct, !.pw = p, !.old = IsOld(i),
                                   !.bare = ~ users[i].marked])
    BY <1>2 DEF Verify
  <2>2. /\ worker[w].pc = "idle" /\ worker'[w].pc = "verifying"
        /\ \A v \in Workers \ {w} : worker'[v] = worker[v]
    BY <1>2, <2>1 DEF Verify, Counted, Goes, AccountsTypeOK, IdleTask
  <2>3. \A v \in Workers : StillWriting(worker[v], worker'[v]) /\ StillEnding(worker[v], worker'[v])
    BY <2>2 DEF StillWriting, StillEnding
  <2>4. QED
    BY <1>0, <1>2, <2>3 DEF Verify, Held
<1>3. ASSUME NEW w \in Workers, Rehash(w) PROVE SpentTokenEnds'
  <2>1. \A i \in Held(users) : users'[i].acct = users[i].acct
    BY <1>3, RehashKeeps
  <2>2. \A v \in Workers : StillWriting(worker[v], worker'[v]) /\ StillEnding(worker[v], worker'[v])
    BY <1>3 DEF Rehash, Goes, StillWriting, StillEnding, AccountsTypeOK, Task
  <2>3. QED
    BY <1>0, <1>3, <2>1, <2>2 DEF Rehash, AccountsTypeOK, Held
<1>4. ASSUME NEW w \in Workers, Issue(w) PROVE SpentTokenEnds'
  BY <1>0, <1>4 DEF AccountsTypeOK, Goes, Held, IdleTask, Issue, StillEnding, StillWriting, Task
<1>5. ASSUME NEW s \in cookies, Forget(s) PROVE SpentTokenEnds'
  BY <1>0, <1>5 DEF AccountsTypeOK, Another, Forget, Held, StillEnding, StillWriting, Task
<1>6. ASSUME NEW e \in Emails, CountRequests(e) PROVE SpentTokenEnds'
  BY <1>0, <1>6 DEF AccountsTypeOK, Another, CountRequests, Held, StillEnding, StillWriting, Task
<1>7. ASSUME InsertReset PROVE SpentTokenEnds'
  <2>1. PICK q \in Tokens :
          /\ Held(resets)' = Held(resets) \cup {q}
          /\ resets'[q].used = None
          /\ \A r \in Tokens \ {q} : resets'[r] = resets[r]
          /\ UNCHANGED <<users, revoked, worker, history>>
    BY <1>7, InsertResetAdds
  <2>2. QED
    BY <1>0, <2>1, RowTypes DEF StillWriting, StillEnding
<1>8. ASSUME RequestFails PROVE SpentTokenEnds'
  BY <1>0, <1>8 DEF AccountsTypeOK, Held, RequestFails, StillEnding, StillWriting, Task
<1>9. ASSUME NEW w \in Workers, NEW p \in Passwords, CheckToken(w, p) PROVE SpentTokenEnds'
  <2>1. PICK r \in Held(resets) :
          Goes(w, [IdleTask EXCEPT !.pc = "checked", !.job = "reset", !.id = resets[r].user,
                                   !.acct = resets[r].acct, !.pw = p, !.reset = r,
                                   !.token = resets[r].token])
    BY <1>9 DEF CheckToken
  <2>2. /\ worker[w].pc = "idle" /\ worker'[w].pc = "checked"
        /\ \A v \in Workers \ {w} : worker'[v] = worker[v]
    BY <1>9, <2>1 DEF CheckToken, Counted, Goes, AccountsTypeOK, IdleTask
  <2>3. \A v \in Workers : StillWriting(worker[v], worker'[v]) /\ StillEnding(worker[v], worker'[v])
    BY <2>2 DEF StillWriting, StillEnding
  <2>4. QED
    BY <1>0, <1>9, <2>3 DEF CheckToken, Held
<1>10. ASSUME NEW w \in Workers, SetPassword(w) PROVE SpentTokenEnds'
  <2> DEFINE t == worker[w]
  <2>1. /\ t.pc = "checked" /\ t.job = "reset" /\ t.id \in Held(users) /\ t.reset \in Held(resets)
        /\ \A j \in Held(users) : users'[j].acct = users[j].acct
        /\ Held(resets)' = Held(resets)
        /\ resets'[t.reset].user = resets[t.reset].user
        /\ resets'[t.reset].used = clock
        /\ \A r \in Tokens \ {t.reset} : resets'[r] = resets[r]
    BY <1>10, SetPasswordWrites
  <2>2. /\ halfway' = IF resets[t.reset].user # t.id
                      THEN halfway \cup {resets[t.reset].acct} ELSE halfway
        /\ clashed' = clashed /\ revoked' = revoked
        /\ worker' = [worker EXCEPT ![w] = [t EXCEPT !.pc = "revoking", !.acct = users[t.id].acct]]
    BY <1>10 DEF SetPassword, Goes
  <2>3. /\ \A v \in Workers : StillWriting(worker[v], worker'[v]) /\ StillEnding(worker[v], worker'[v])
        /\ worker'[w].job = "reset" /\ worker'[w].id = t.id /\ worker'[w].pc = "revoking"
        /\ worker'[w].acct = users[t.id].acct
    BY <2>1, <2>2 DEF StillWriting, StillEnding, AccountsTypeOK, Task
  <2>4. ASSUME NEW r \in Held(resets), r # t.reset PROVE RowEnds(r)'
    <3>1. resets'[r] = resets[r] /\ resets[r].user \in Held(users) /\ RowEnds(r)
      BY <2>1, <2>4, RowTypes DEF AccountsTypeOK, SpentTokenEnds, RowEnds
    <3>2. QED
      BY <2>1, <2>2, <2>3, <3>1, RowEndsKept
  <2>5. ASSUME NEW r \in Held(resets), r = t.reset PROVE RowEnds(r)'
    <3>1. PICK i : i = resets[r].user
      OBVIOUS
    <3>2. /\ i \in Held(users) /\ resets[r].acct = users[i].acct /\ users'[i].acct = users[i].acct
          /\ resets'[r].user = i /\ resets'[r].used = clock
      BY <2>1, <2>5, <3>1 DEF AccountsTypeOK, Numbered
    <3>3. CASE i = t.id
      <4>1. /\ worker'[w].job = "reset" /\ worker'[w].id = i
            /\ worker'[w].acct = users'[i].acct /\ worker'[w].pc = "revoking"
        BY <2>3, <3>2, <3>3
      <4>2. QED
        BY <3>2, <4>1 DEF RowEnds, Ending
    <3>4. CASE i # t.id
      BY <2>2, <2>5, <3>1, <3>2, <3>4 DEF RowEnds
    <3>5. QED
      BY <3>3, <3>4
  <2>6. \A r \in Held(resets) : RowEnds(r)'
    BY <2>4, <2>5
  <2>7. QED
    BY <2>1, <2>6 DEF SpentTokenEnds, RowEnds
<1>11. ASSUME NEW w \in Workers, NEW e \in Emails, FindForRevoke(w, e) PROVE SpentTokenEnds'
  <2>1. PICK i \in FindByEmail(e) :
          Goes(w, [IdleTask EXCEPT !.pc = "revoking", !.job = "revoke", !.id = i,
                                   !.acct = users[i].acct])
    BY <1>11 DEF FindForRevoke
  <2>2. /\ worker[w].pc = "idle" /\ worker'[w].pc = "revoking"
        /\ \A v \in Workers \ {w} : worker'[v] = worker[v]
    BY <1>11, <2>1 DEF FindForRevoke, Counted, Goes, AccountsTypeOK, IdleTask
  <2>3. \A v \in Workers : StillWriting(worker[v], worker'[v]) /\ StillEnding(worker[v], worker'[v])
    BY <2>2 DEF StillWriting, StillEnding
  <2>4. QED
    BY <1>0, <1>11, <2>3 DEF FindForRevoke, Held
<1>12. ASSUME NEW w \in Workers, TakeEpoch(w) PROVE SpentTokenEnds'
  <2> DEFINE t == worker[w]
  <2>1. /\ t.pc = "revoking"
        /\ worker'[w].pc = "writing" /\ worker'[w].epoch = clock - Backoff(t.job)
        /\ worker'[w].job = t.job /\ worker'[w].id = t.id /\ worker'[w].acct = t.acct
        /\ \A v \in Workers \ {w} : worker'[v] = worker[v]
        /\ UNCHANGED <<users, revoked, resets, halfway, clashed>>
    BY <1>12 DEF TakeEpoch, Goes, AccountsTypeOK, Task
  <2>2. clock \in Nat /\ Backoff(t.job) \in {0, 1}
    BY BoundsAreNat DEF AccountsTypeOK, Time, Backoff
  <2>3. ASSUME NEW r \in Held(resets), resets[r].used # None PROVE RowEnds(r)'
    <3> DEFINE i == resets[r].user
               a == users[i].acct
               e == resets[r].used - 1
    <3>1. resets[r].used \in Int /\ resets[r].used <= clock
      BY <2>3, RowTypes, BoundsAreNat DEF PasswordReset, Time, Numbered
    <3>2. worker'[w].epoch >= e
      BY <2>1, <2>2, <3>1
    <3>3. \/ /\ revoked[i] # None /\ revoked[i] >= e
             /\ \A v \in Workers :
                  worker[v].pc = "writing" /\ worker[v].id = i /\ ~ worker[v].overtaken
                      => worker[v].epoch >= e
          \/ \E v \in Workers : Ending(v, i, a, e)
          \/ a \in halfway \cup clashed
      BY <2>3 DEF SpentTokenEnds
    <3>4. CASE /\ revoked[i] # None /\ revoked[i] >= e
               /\ \A v \in Workers :
                    worker[v].pc = "writing" /\ worker[v].id = i /\ ~ worker[v].overtaken
                        => worker[v].epoch >= e
      BY <2>1, <3>2, <3>4 DEF RowEnds
    <3>5. CASE \E v \in Workers : Ending(v, i, a, e)
      <4>1. PICK v \in Workers : Ending(v, i, a, e)
        BY <3>5
      <4>2. /\ worker'[v].job = "reset" /\ worker'[v].id = i /\ worker'[v].acct = a
            /\ worker'[v].pc = "revoking" \/ (worker'[v].pc = "writing" /\ worker'[v].epoch >= e)
        BY <2>1, <3>2, <4>1 DEF Ending
      <4>3. QED
        BY <2>1, <4>2 DEF RowEnds, Ending
    <3>6. CASE a \in halfway \cup clashed
      BY <2>1, <3>6 DEF RowEnds
    <3>7. QED
      BY <3>3, <3>4, <3>5, <3>6
  <2>4. QED
    BY <2>1, <2>3 DEF SpentTokenEnds, RowEnds, Held
<1>13. ASSUME NEW w \in Workers, WriteRevocation(w) PROVE SpentTokenEnds'
  <2> DEFINE t == worker[w]
  <2>1. /\ t.pc = "writing" /\ t.id \in Ids /\ t.epoch \in Int /\ revoked'[t.id] = t.epoch
        /\ \A j \in Ids \ {t.id} : revoked'[j] = revoked[j]
        /\ clashed \subseteq clashed' /\ (t.overtaken => users[t.id].acct \in clashed')
        /\ UNCHANGED <<users, resets, halfway>>
    BY <1>13, WriteRevocationWrites
  <2>2. ASSUME NEW v \in Workers, v # w PROVE StillEnding(worker[v], worker'[v])
    <3>1. worker'[v] = IF worker[v].pc = "writing" /\ worker[v].id = t.id
                       THEN [worker[v] EXCEPT !.overtaken = TRUE] ELSE worker[v]
      BY <1>13, <2>2, WriteRevocationWorkers
    <3>2. StillEnding(worker[v], [worker[v] EXCEPT !.overtaken = TRUE])
      BY DEF AccountsTypeOK, Task, StillEnding
    <3>3. StillEnding(worker[v], worker[v])
      BY DEF StillEnding
    <3>4. QED
      BY <3>1, <3>2, <3>3
  <2>3. \A v \in Workers :
           /\ StillWriting(worker[v], worker'[v])
           /\ worker'[v].pc = "writing" /\ ~ worker'[v].overtaken => worker'[v].id # t.id
    BY <1>13, OvertakenByWrite
  <2>4. ASSUME NEW r \in Held(resets), resets[r].used # None PROVE RowEnds(r)'
    <3> DEFINE i == resets[r].user
               a == users[i].acct
               e == resets[r].used - 1
    <3>1. i \in Ids /\ i \in Held(users) /\ t.epoch # None
      BY <2>1, RowTypes, NoneIsNo DEF AccountsTypeOK
    <3>2. \/ /\ revoked[i] # None /\ revoked[i] >= e
             /\ \A v \in Workers :
                  worker[v].pc = "writing" /\ worker[v].id = i /\ ~ worker[v].overtaken
                      => worker[v].epoch >= e
          \/ \E v \in Workers : Ending(v, i, a, e)
          \/ a \in halfway \cup clashed
      BY <2>4 DEF SpentTokenEnds
    <3>3. CASE a \in halfway \cup clashed
      BY <2>1, <3>3 DEF RowEnds
    <3>4. CASE \E v \in Workers \ {w} : Ending(v, i, a, e)
      <4>1. PICK v \in Workers \ {w} : Ending(v, i, a, e)
        BY <3>4
      <4>2. /\ worker'[v].job = "reset" /\ worker'[v].id = i /\ worker'[v].acct = a
            /\ worker'[v].pc = "revoking" \/ (worker'[v].pc = "writing" /\ worker'[v].epoch >= e)
        BY <2>2, <4>1 DEF Ending, StillEnding
      <4>3. QED
        BY <2>1, <4>2 DEF RowEnds, Ending
    <3>5. CASE i = t.id /\ t.overtaken
      BY <2>1, <3>5 DEF RowEnds
    <3>6. CASE i = t.id /\ t.epoch >= e
      BY <2>1, <2>3, <3>1, <3>6 DEF RowEnds
    <3>7. CASE /\ i # t.id
               /\ revoked[i] # None /\ revoked[i] >= e
               /\ \A v \in Workers :
                    worker[v].pc = "writing" /\ worker[v].id = i /\ ~ worker[v].overtaken
                        => worker[v].epoch >= e
      <4>1. revoked'[i] = revoked[i]
        BY <2>1, <3>1, <3>7
      <4>2. \A v \in Workers :
               worker'[v].pc = "writing" /\ worker'[v].id = i /\ ~ worker'[v].overtaken
                   => worker'[v].epoch >= e
        BY <2>3, <3>7 DEF StillWriting
      <4>3. QED
        BY <2>1, <3>7, <4>1, <4>2 DEF RowEnds
    <3>8. QED
      BY <2>1, <3>2, <3>3, <3>4, <3>5, <3>6, <3>7 DEF Ending
  <2>5. QED
    BY <2>1, <2>4 DEF SpentTokenEnds, RowEnds, Held
<1>14. ASSUME NEW w \in Workers, NEW i \in Ids, CheckTarget(w, i) PROVE SpentTokenEnds'
  BY <1>0, <1>14 DEF AccountsTypeOK, Another, CheckTarget, Counted, Goes, Held, IdleTask, StillEnding, StillWriting, Task
<1>15. ASSUME NEW w \in Workers, DeleteAccount(w) PROVE SpentTokenEnds'
  <2>1. /\ \A j \in Held(users)' : users'[j] = users[j]
        /\ Held(users)' = Held(users) \ {worker[w].id}
        /\ \A j \in Ids \ {worker[w].id} : revoked'[j] = revoked[j]
        /\ Held(resets)' = {r \in Held(resets) : resets[r].user # worker[w].id}
        /\ \A r \in Held(resets)' : resets'[r] = resets[r]
    BY <1>15, DeleteAccountRemoves
  <2>2. \A r \in Held(resets)' :
           resets[r].user \in Held(users)' /\ resets[r].user \in Ids \ {worker[w].id}
    BY <2>1, RowTypes DEF AccountsTypeOK
  <2>3. \A v \in Workers : StillWriting(worker[v], worker'[v]) /\ StillEnding(worker[v], worker'[v])
    BY <1>15 DEF DeleteAccount, Goes, IdleTask, StillWriting, StillEnding, AccountsTypeOK
  <2>4. QED
    BY <1>0, <1>15, <2>1, <2>2, <2>3 DEF DeleteAccount
<1>16. ASSUME NEW w \in Workers, NEW e \in Emails, FindForGrant(w, e) PROVE SpentTokenEnds'
  <2>1. PICK i \in FindByEmail(e) :
          Goes(w, [IdleTask EXCEPT !.pc = "granting", !.job = "grant", !.id = i, !.email = e])
    BY <1>16 DEF FindForGrant
  <2>2. /\ worker[w].pc = "idle" /\ worker'[w].pc = "granting"
        /\ \A v \in Workers \ {w} : worker'[v] = worker[v]
    BY <1>16, <2>1 DEF FindForGrant, Counted, Goes, AccountsTypeOK, IdleTask
  <2>3. \A v \in Workers : StillWriting(worker[v], worker'[v]) /\ StillEnding(worker[v], worker'[v])
    BY <2>2 DEF StillWriting, StillEnding
  <2>4. QED
    BY <1>0, <1>16, <2>3 DEF FindForGrant, Held
<1>17. ASSUME NEW w \in Workers, WriteGrant(w) PROVE SpentTokenEnds'
  <2>1. \A v \in Workers : StillWriting(worker[v], worker'[v]) /\ StillEnding(worker[v], worker'[v])
    <3>1. ASSUME NEW v \in Workers
          PROVE  /\ StillWriting(worker[v], [worker[v] EXCEPT !.late = TRUE])
                 /\ StillEnding(worker[v], [worker[v] EXCEPT !.late = TRUE])
                 /\ StillWriting(worker[v], worker[v]) /\ StillEnding(worker[v], worker[v])
                 /\ StillWriting(worker[v], IdleTask)
      BY DEF AccountsTypeOK, Task, StillWriting, StillEnding, IdleTask
    <3>2. StillEnding(worker[w], IdleTask)
      BY <1>17 DEF WriteGrant, StillEnding
    <3>3. QED
      BY <1>17, <3>1, <3>2 DEF WriteGrant
  <2>2. QED
    BY <1>0, <1>17, <2>1 DEF WriteGrant, Held
<1>18. ASSUME NEW e \in Emails, RevokeAdmin(e) PROVE SpentTokenEnds'
  BY <1>0, <1>18 DEF AccountsTypeOK, Another, Held, RevokeAdmin, StillEnding, StillWriting, Task
<1>19. ASSUME NEW w \in Workers, Stop(w) PROVE SpentTokenEnds'
  <2>1. /\ worker'[w] = IdleTask /\ IdleTask.pc = "idle"
        /\ \A v \in Workers \ {w} : worker'[v] = worker[v]
        /\ halfway' = IF worker[w].job = "reset" /\ worker[w].pc \in {"revoking", "writing"}
                      THEN halfway \cup {worker[w].acct} ELSE halfway
        /\ UNCHANGED <<users, revoked, resets, clashed>>
    BY <1>19 DEF Stop, Goes, AccountsTypeOK, IdleTask
  <2>2. ASSUME NEW r \in Held(resets), resets[r].used # None PROVE RowEnds(r)'
    <3> DEFINE i == resets[r].user
               a == users[i].acct
               e == resets[r].used - 1
    <3>1. \/ /\ revoked[i] # None /\ revoked[i] >= e
             /\ \A v \in Workers :
                  worker[v].pc = "writing" /\ worker[v].id = i /\ ~ worker[v].overtaken
                      => worker[v].epoch >= e
          \/ \E v \in Workers : Ending(v, i, a, e)
          \/ a \in halfway \cup clashed
      BY <2>2 DEF SpentTokenEnds
    <3>2. CASE /\ revoked[i] # None /\ revoked[i] >= e
               /\ \A v \in Workers :
                    worker[v].pc = "writing" /\ worker[v].id = i /\ ~ worker[v].overtaken
                        => worker[v].epoch >= e
      BY <2>1, <3>2 DEF RowEnds
    <3>3. CASE \E v \in Workers : Ending(v, i, a, e)
      <4>1. PICK v \in Workers : Ending(v, i, a, e)
        BY <3>3
      <4>2. CASE v = w
        BY <2>1, <4>1, <4>2 DEF RowEnds, Ending
      <4>3. CASE v # w
        BY <2>1, <4>1, <4>3 DEF RowEnds, Ending
      <4>4. QED
        BY <4>2, <4>3
    <3>4. CASE a \in halfway \cup clashed
      BY <2>1, <3>4 DEF RowEnds
    <3>5. QED
      BY <3>1, <3>2, <3>3, <3>4
  <2>3. QED
    BY <2>1, <2>2 DEF SpentTokenEnds, RowEnds, Held
<1>20. ASSUME Tick PROVE SpentTokenEnds'
  BY <1>0, <1>20 DEF AccountsTypeOK, Held, StillEnding, StillWriting, Task, Tick
<1>21. CASE UNCHANGED vars
  BY <1>0, <1>21 DEF vars, Held, StillWriting, StillEnding
<1>22. QED
  BY <1>1, <1>2, <1>3, <1>4, <1>5, <1>6, <1>7, <1>8, <1>9, <1>10, <1>11, <1>12, <1>13,
     <1>14, <1>15, <1>16, <1>17, <1>18, <1>19, <1>20, <1>21 DEF Next

\* A token that was used has ended the sessions, or is about to, unless the reset was
\* stopped between its commits or revocations overlapped.
THEOREM SpentTokensRevoke == Spec => []SpentTokenRevokes
<1>1. Init => SpentTokenEnds
  BY DEF Init, SpentTokenEnds, Held
<1>2. AccountsTypeOK /\ Numbered /\ SpentTokenEnds /\ [Next]_vars => SpentTokenEnds'
  BY SpentTokenEndsStep
<1>3. SpentTokenEnds => SpentTokenRevokes
  BY DEF SpentTokenEnds, SpentTokenRevokes, Ending
<1>4. QED
  BY <1>1, <1>2, <1>3, AccountsTypeCorrect, AccountsNumbered, PTL DEF Spec

=============================================================================
