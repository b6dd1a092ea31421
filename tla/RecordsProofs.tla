---------------------------- MODULE RecordsProofs ----------------------------
(***************************************************************************)
(* Proofs about Records, for any threads, any earlier records, any lists   *)
(* asked for and any value of the settings and bounds.                     *)
(***************************************************************************)
EXTENDS Records, SetLemmas, TLAPS

-----------------------------------------------------------------------------
(* The inductive invariant.                                                *)

\* The rows of a table: of its type, an id to each, a log's no higher than it has had rows.
RowsNumbered ==
    /\ tables \in [Tables -> SUBSET Row] /\ written \in [LogNames -> Nat]
    /\ \A t \in Tables : /\ \A x \in tables[t] : x.id > 0 /\ x.thread \in ThreadsOf(t) /\ x.what \in Whats[t]
                         /\ \A x, y \in tables[t] : x.id = y.id => x = y
                         /\ \E max \in IdsOf(t) \cup {0} : \A x \in tables[t] : x.id <= max
    /\ \A t \in LogNames : \A x \in tables[t] : x.id <= written[t]

\* What a request knows: the code it would log, against the reply its client gets; the
\* table it is about to trim.
RequestsKnow ==
    /\ reqs \in [Reqs -> Request] /\ incidents \in 0 .. MaxIncidents
    /\ \A r \in Reqs :
          LET q == reqs[r] IN
          /\ q.stage \in {"handling", "raised"} => q.reply = None /\ q.code = "error"
          /\ q.stage \in {"viewing", "answered"} => q.reply \in {"ok", "refused"}
          /\ q.stage = "unwinding" => <<q.reply, q.code>> \in {<<None, "left">>, <<"error", "error">>}
          /\ q.stage = "handling" => (q.kind = "list" <=> pager.stage = "waiting" /\ pager.req = r)
          /\ q.stage = "none" => ~ (pager.stage = "waiting" /\ pager.req = r)
          /\ q.trim # None => /\ written[q.trim.table] > 0
                              /\ q.trim.max <= written[q.trim.table]

\* A request has left no row of a kind that it has yet to write.
RowsFollowRequests ==
    \A t \in Tables : \A x \in tables[t] : x.req \in Reqs =>
        LET stage == reqs[x.req].stage IN
        /\ stage # "none"
        /\ t = "chats" => stage # "handling"
        /\ t = "requests" \/ x.what = "finished" => stage = "done"

\* Where the client is: before which row the next page starts, and what it asked for.
Pager == [stage : {"idle", "waiting", "reading", "ended", "failed"}, view : View \cup {None},
          limit : Nat \ {0}, before : Nat \cup {None}, rows : Seq(Row), left : 0 .. MaxPages,
          req : Reqs \cup {None}, first : SUBSET Row, full : BOOLEAN]

PagerKnows ==
    /\ pager \in Pager
    /\ pager.stage = "idle" => pager = NoPager
    /\ pager.stage # "idle" => /\ pager.view # None
                               /\ pager.view.audited \/ pager.limit <= MaxPage
    /\ pager.stage \in {"idle", "waiting", "reading"} => ~ pager.full /\ pager.left > 0
    /\ pager.stage = "waiting" => /\ pager.req # None
                                  /\ pager.before = None => pager.rows = <<>>
    /\ pager.stage = "reading" => pager.before # None
    /\ pager.before # None => pager.rows # <<>> /\ pager.before = pager.rows[Len(pager.rows)].id

\* The rows there were at its start: no new row is taken for one of them.
FirstIsPast ==
    pager.view # None =>
        \A x \in pager.first :
            /\ pager.view.table \in LogNames => x.id <= written[pager.view.table]
            /\ pager.view.table = "chats" /\ x.req \in Reqs => reqs[x.req].stage \notin {"none", "handling"}

\* The page that is on its way: rows before the cursor, and all that are asked for, or as
\* many as a page holds and none older left out.
Page(rows, n) ==
    /\ \A x \in rows : x.id > 0 /\ (pager.before # None => x.id < pager.before)
    /\ \A x, y \in rows : x.id = y.id => x = y
    /\ IsFiniteSet(rows) /\ Cardinality(rows) <= n
    /\ \A x \in Selected(pager.first \cap tables[pager.view.table], pager.view) :
          \/ x \in rows
          \/ pager.before # None /\ x.id >= pager.before
          \/ Cardinality(rows) = n /\ \A y \in rows : y.id > x.id

PageIsExact ==
    pager.stage = "waiting" /\ reqs[pager.req].reply = "ok" =>
        Page(reqs[pager.req].seen, Clamped(pager.limit))

RecordsInv ==
    /\ RowsNumbered /\ RequestsKnow /\ RowsFollowRequests /\ PagerKnows /\ FirstIsPast
    /\ PageIsExact /\ NewestKept /\ PagingExact /\ RecordedAsAnswered

-----------------------------------------------------------------------------
(* The constants.                                                          *)

LEMMA ConstantsAre ==
    /\ Keep \in Nat /\ Keep > 0 /\ MaxPage \in Nat /\ MaxPage > 0 /\ MaxPages \in Nat /\ MaxPages > 0
    /\ MaxReqs \in Nat /\ MaxActive \in Nat /\ MaxIncidents \in Nat
    /\ OldReqs \in Nat /\ OldReqs < MaxReqs
    /\ None \notin Nat /\ None \notin Statuses /\ None \notin View
    /\ None \notin [table : LogNames, max : Nat, loop : BOOLEAN]
<1>1. Len(OldChats) \in Nat
  BY RecordsAssumption
<1>2. QED
  BY <1>1, RecordsAssumption, NoneIsNoValue DEF OldReqs

LEMMA ReqsAre ==
    /\ Reqs \subseteq 1 .. MaxReqs /\ 1 .. OldReqs \subseteq 1 .. MaxReqs
    /\ \A r \in Reqs : r \in Nat /\ r \notin 1 .. OldReqs
    /\ IsFiniteSet(Reqs)
<1>1. OldReqs \in Nat /\ MaxReqs \in Nat /\ OldReqs < MaxReqs
  BY ConstantsAre
<1>2. IsFiniteSet(OldReqs + 1 .. MaxReqs)
  BY <1>1, FS_Interval
<1>3. QED
  BY <1>1, <1>2 DEF Reqs

\* The table of a log is none of chat records; what a log may say is what a row may.
LEMMA WhatsAre ==
    /\ Tables = {"chats", "events", "requests"} /\ LogNames = {"events", "requests"}
    /\ Whats["chats"] = {"success", "ai_error"}
    /\ Whats["events"] = {"received", "viewed", "unhandled", "finished"}
    /\ Whats["requests"] = Statuses
    /\ \A t \in Tables : Whats[t] \subseteq UNION Range(Whats)
<1>1. /\ Whats["chats"] = {"success", "ai_error"}
      /\ Whats["events"] = {"received", "viewed", "unhandled", "finished"}
      /\ Whats["requests"] = Statuses
  BY DEF Whats
<1>2. DOMAIN Whats = Tables
  BY DEF Whats, Tables
<1>3. \A t \in Tables : Whats[t] \in Range(Whats)
  BY <1>2 DEF Range
<1>4. QED
  BY <1>1, <1>3 DEF Tables, LogNames

-----------------------------------------------------------------------------
(* Numbered rows.                                                          *)

\* Rows in descending order: every row once.
LEMMA NewestFirstIs ==
    ASSUME NEW S, IsFiniteSet(S), \A x \in S : x.id \in Nat,
           \A x, y \in S : x.id = y.id => x = y
    PROVE  LET s == NewestFirst(S)
               k == Cardinality(S)
           IN  /\ k \in Nat /\ s \in [1 .. k -> S]
               /\ \A i, j \in 1 .. k : i < j => s[i].id > s[j].id
               /\ \A x \in S : \E i \in 1 .. k : s[i] = x
<1> DEFINE After(x) == {y \in S : y.id > x.id}
           k == Cardinality(S)
           rank == [x \in S |-> Cardinality(After(x)) + 1]
<1>1. k \in Nat
  BY FS_CardinalityType
<1>2. ASSUME NEW x \in S
      PROVE  /\ IsFiniteSet(After(x)) /\ Cardinality(After(x)) \in Nat
             /\ Cardinality(After(x)) < k
  <2>1. After(x) \subseteq S \ {x}
    OBVIOUS
  <2>2. IsFiniteSet(S \ {x}) /\ Cardinality(S \ {x}) = k - 1
    BY FS_RemoveElement
  <2>3. /\ IsFiniteSet(After(x)) /\ Cardinality(After(x)) <= k - 1
    BY <2>1, <2>2, FS_Subset
  <2>4. QED
    BY <1>1, <2>3, FS_CardinalityType
<1>3. ASSUME NEW x \in S, NEW y \in S, x.id < y.id
      PROVE  Cardinality(After(y)) < Cardinality(After(x))
  <2>1. After(y) \subseteq After(x) \ {y} /\ y \in After(x)
    BY <1>3
  <2>2. IsFiniteSet(After(x) \ {y}) /\ Cardinality(After(x) \ {y}) = Cardinality(After(x)) - 1
    BY <1>2, <2>1, FS_RemoveElement
  <2>3. Cardinality(After(y)) <= Cardinality(After(x)) - 1
    BY <2>1, <2>2, FS_Subset
  <2>4. Cardinality(After(x)) \in Nat /\ Cardinality(After(y)) \in Nat
    BY <1>2
  <2> HIDE DEF After
  <2>5. QED
    BY <2>3, <2>4
<1> HIDE DEF After
<1>4. rank \in Injection(S, 1 .. k)
  <2>1. rank \in [S -> 1 .. k]
    BY <1>1, <1>2
  <2>2. ASSUME NEW x \in S, NEW y \in S, rank[x] = rank[y] PROVE x = y
    <3>1. Cardinality(After(x)) = Cardinality(After(y))
      BY <1>2, <2>2
    <3>2. ~ (x.id < y.id) /\ ~ (y.id < x.id)
      BY <1>2, <1>3, <3>1
    <3>3. QED
      BY <3>2
  <2>3. QED
    BY <2>1, <2>2 DEF Injection, IsInjective
<1>5. rank \in Surjection(S, 1 .. k)
  BY <1>1, <1>4, FS_Injection, FS_Interval
<1>6. \A i \in 1 .. k : \E x \in S : Cardinality(After(x)) = i - 1
  <2>1. \A i \in 1 .. k : \E x \in S : rank[x] = i
    BY <1>5 DEF Surjection
  <2>2. QED
    BY <1>2, <2>1
<1> DEFINE s == NewestFirst(S)
<1>7. s = [i \in 1 .. k |-> CHOOSE x \in S : Cardinality(After(x)) = i - 1]
  BY DEF NewestFirst, After
<1>8. \A i \in 1 .. k : s[i] \in S /\ Cardinality(After(s[i])) = i - 1
  BY <1>6, <1>7
<1>9. s \in [1 .. k -> S]
  BY <1>7, <1>8
<1> HIDE DEF s
<1>10. ASSUME NEW i \in 1 .. k, NEW j \in 1 .. k, i < j PROVE s[i].id > s[j].id
  <2>1. /\ s[i] \in S /\ Cardinality(After(s[i])) = i - 1
        /\ s[j] \in S /\ Cardinality(After(s[j])) = j - 1
    BY <1>8
  <2>2. s[i].id # s[j].id
    BY <2>1, <1>10
  <2>3. ~ (s[i].id < s[j].id)
    BY <2>1, <1>3, <1>10
  <2>4. QED
    BY <2>1, <2>2, <2>3
<1>11. ASSUME NEW x \in S PROVE \E i \in 1 .. k : s[i] = x
  <2> DEFINE i == Cardinality(After(x)) + 1
  <2>1. i \in 1 .. k /\ Cardinality(After(x)) = i - 1
    BY <1>1, <1>2
  <2>2. s[i] \in S /\ Cardinality(After(s[i])) = Cardinality(After(x))
    BY <1>8, <2>1
  <2>3. ~ (s[i].id < x.id) /\ ~ (x.id < s[i].id)
    BY <1>2, <1>3, <2>2
  <2>4. s[i] = x
    BY <2>2, <2>3
  <2>5. QED
    BY <2>1, <2>4
<1>12. QED
  BY <1>1, <1>9, <1>10, <1>11 DEF s

\* The ids of a table, and the next.
LEMMA IdsAre ==
    ASSUME RowsNumbered, NEW t \in Tables
    PROVE  /\ IdsOf(t) \subseteq Nat \ {0} /\ tables[t] \subseteq Row
           /\ \A x \in tables[t] : x.id \in IdsOf(t) /\ x.id \in Nat /\ x.id > 0
           /\ NextId(t) \in Nat \ {0}
           /\ \A x \in tables[t] : x.id < NextId(t)
           /\ IdsOf(t) # {} => Max(IdsOf(t)) \in IdsOf(t) /\ \A i \in IdsOf(t) : i <= Max(IdsOf(t))
           /\ \E b \in Nat : \A x \in tables[t] : x.id <= b
<1>1. tables[t] \subseteq Row
  BY DEF RowsNumbered
<1>2. \A x \in tables[t] : x.id \in Nat /\ x.id > 0
  BY <1>1 DEF RowsNumbered, Row
<1>3. IdsOf(t) \subseteq Nat \ {0} /\ \A x \in tables[t] : x.id \in IdsOf(t)
  BY <1>2 DEF IdsOf
<1>4. PICK b \in IdsOf(t) \cup {0} : \A x \in tables[t] : x.id <= b
  BY DEF RowsNumbered
<1>5. b \in Nat /\ \A i \in IdsOf(t) : i <= b
  BY <1>3, <1>4 DEF IdsOf
<1> DEFINE I == IdsOf(t) \cup {0}
<1>6. I \in SUBSET Nat /\ I # {} /\ \A i \in I : i <= b
  BY <1>3, <1>5
<1>7. Max(I) \in I /\ \A i \in I : i <= Max(I)
  BY <1>5, <1>6, MaxOfBounded
<1>8. IdsOf(t) # {} => Max(IdsOf(t)) \in IdsOf(t) /\ \A i \in IdsOf(t) : i <= Max(IdsOf(t))
  BY <1>3, <1>5, MaxOfBounded
<1> DEFINE m == Max(I)
<1>9. NextId(t) = m + 1 /\ m \in Nat /\ \A i \in IdsOf(t) : i <= m
  BY <1>6, <1>7 DEF NextId
<1> HIDE DEF I, m
<1>10. NextId(t) \in Nat \ {0} /\ \A i \in IdsOf(t) : i < NextId(t)
  BY <1>3, <1>9
<1>11. QED
  BY <1>1, <1>2, <1>3, <1>4, <1>5, <1>8, <1>10

\* A log's rows are numbered as they are written, though the number is one more than the
\* highest there is: the last row written is there.
LEMMA NextIdCounts ==
    ASSUME RowsNumbered, NewestKept, NEW t \in LogNames
    PROVE  NextId(t) = written[t] + 1
<1>1. t \in Tables /\ written[t] \in Nat /\ Keep \in Nat /\ Keep > 0
  BY ConstantsAre, WhatsAre DEF RowsNumbered
<1>2. \A i \in IdsOf(t) : i \in Nat /\ i > 0 /\ i <= written[t]
  <2>1. \A x \in tables[t] : x.id \in Nat /\ x.id > 0
    BY <1>1, IdsAre
  <2>2. \A x \in tables[t] : x.id <= written[t]
    BY DEF RowsNumbered
  <2>3. QED
    BY <2>1, <2>2 DEF IdsOf
<1>3. written[t] > 0 => written[t] \in IdsOf(t)
  BY <1>1 DEF NewestKept
<1>4. \A i \in IdsOf(t) \cup {0} : i <= written[t] /\ i \in Nat
  BY <1>1, <1>2
<1>5. written[t] \in IdsOf(t) \cup {0}
  BY <1>1, <1>3
<1>6. Max(IdsOf(t) \cup {0}) \in IdsOf(t) \cup {0} /\ written[t] <= Max(IdsOf(t) \cup {0})
  <2> DEFINE I == IdsOf(t) \cup {0}
  <2>1. I \in SUBSET Nat /\ I # {} /\ \A i \in I : i <= written[t]
    BY <1>4
  <2>2. Max(I) \in I /\ \A i \in I : i <= Max(I)
    BY <1>1, <2>1, MaxOfBounded
  <2>3. QED
    BY <1>5, <2>2
<1>7. Max(IdsOf(t) \cup {0}) = written[t]
  BY <1>1, <1>4, <1>6
<1>8. QED
  BY <1>7 DEF NextId

-----------------------------------------------------------------------------
(* What the actions do.                                                    *)

\* Request `r` leaves the rows `whats` in the logs `into`.
Wrote(r, whats, into) ==
    /\ into \subseteq LogNames
    /\ tables' = [t \in Tables |-> IF t \in into
                      THEN tables[t] \cup {NewRow(NextId(t), None, whats[t], r)} ELSE tables[t]]
    /\ written' = [t \in LogNames |-> IF t \in into THEN written[t] + 1 ELSE written[t]]

\* A request is as `rec`, or as `rec` with one of the logs `into` to trim.
Trims(q, rec, into) ==
    /\ q \in Request
    /\ q.stage = rec.stage /\ q.kind = rec.kind /\ q.code = rec.code /\ q.reply = rec.reply
    /\ q.seen = rec.seen
    /\ q.trim # None => q.trim \in [table : into, max : {0}, loop : BOOLEAN]

LEMMA TrimOf ==
    ASSUME NEW rec \in Request, rec.trim = None, NEW into \in SUBSET LogNames,
           NEW t \in into, NEW loop \in BOOLEAN, NEW q,
           q = [rec EXCEPT !.trim = [table |-> t, max |-> 0, loop |-> loop]]
    PROVE  Trims(q, rec, into)
<1> DEFINE trim == [table |-> t, max |-> 0, loop |-> loop]
<1>1. /\ trim \in [table : LogNames, max : Nat, loop : BOOLEAN]
      /\ trim \in [table : into, max : {0}, loop : BOOLEAN]
  OBVIOUS
<1> HIDE DEF trim
<1>2. /\ q \in Request /\ q.trim = trim
      /\ q.stage = rec.stage /\ q.kind = rec.kind /\ q.code = rec.code /\ q.reply = rec.reply
      /\ q.seen = rec.seen
  <2>1. q = [rec EXCEPT !.trim = trim]
    BY DEF trim
  <2>2. QED
    BY <1>1, <2>1 DEF Request
<1>3. QED
  BY <1>1, <1>2 DEF Trims

\* Nothing is written.
LEMMA WroteNothing ==
    ASSUME RowsNumbered, UNCHANGED <<tables, written>>, NEW r, NEW whats
    PROVE  Wrote(r, whats, {})
BY DEF RowsNumbered, Wrote

\* One more incident is within the bound.
LEMMA IncidentIsBounded ==
    ASSUME RequestsKnow, Incident
    PROVE  incidents' \in 0 .. MaxIncidents
<1> DEFINE R == {r \in Reqs : reqs[r].stage # "none"}
<1>1. Cardinality(R) \in Nat
  BY ReqsAre, FS_Subset, FS_CardinalityType
<1>2. incidents + Cardinality(R) < MaxIncidents /\ incidents' = incidents + 1
  BY DEF Incident, Room
<1> HIDE DEF R
<1>3. incidents \in 0 .. MaxIncidents /\ MaxIncidents \in Nat
  BY ConstantsAre DEF RequestsKnow
<1>4. QED
  BY <1>1, <1>2, <1>3

LEMMA RecordIs ==
    ASSUME RowsNumbered, RequestsKnow, NEW r \in Reqs, NEW whats, DOMAIN whats \subseteq LogNames,
           NEW loop \in BOOLEAN, NEW rec \in Request, rec.trim = None,
           Record(r, whats, loop, rec)
    PROVE  \E q, into :
              /\ into \subseteq DOMAIN whats
              /\ Wrote(r, whats, into) /\ Trims(q, rec, into)
              /\ reqs' = [reqs EXCEPT ![r] = q]
              /\ incidents' \in 0 .. MaxIncidents
<1> DEFINE inserted(into) ==
              /\ tables' = [t \in Tables |-> IF t \in into
                                THEN tables[t] \cup {NewRow(NextId(t), None, whats[t], r)} ELSE tables[t]]
              /\ written' = [t \in LogNames |-> IF t \in into THEN written[t] + 1 ELSE written[t]]
<1>1. ASSUME NEW into \in SUBSET DOMAIN whats, inserted(into)
      PROVE  Wrote(r, whats, into)
  BY <1>1 DEF Wrote
<1>2. ASSUME NEW into \in SUBSET DOMAIN whats PROVE Trims(rec, rec, into)
  BY DEF Trims
<1>3. incidents \in 0 .. MaxIncidents
  BY DEF RequestsKnow
<1>4. CASE inserted(DOMAIN whats) /\ Becomes(r, rec) /\ UNCHANGED incidents
  <2>1. reqs' = [reqs EXCEPT ![r] = rec]
    BY <1>4 DEF Becomes
  <2>2. QED
    BY <1>1, <1>2, <1>3, <1>4, <2>1
<1>5. ASSUME NEW t \in DOMAIN whats, inserted(DOMAIN whats), Incident,
             Becomes(r, [rec EXCEPT !.trim = [table |-> t, max |-> 0, loop |-> loop]])
      PROVE  \E q, into :
                /\ into \subseteq DOMAIN whats
                /\ Wrote(r, whats, into) /\ Trims(q, rec, into)
                /\ reqs' = [reqs EXCEPT ![r] = q]
                /\ incidents' \in 0 .. MaxIncidents
  <2> DEFINE q == [rec EXCEPT !.trim = [table |-> t, max |-> 0, loop |-> loop]]
  <2>1. Trims(q, rec, DOMAIN whats)
    BY TrimOf
  <2>2. reqs' = [reqs EXCEPT ![r] = q]
    BY <1>5 DEF Becomes
  <2>3. incidents' \in 0 .. MaxIncidents /\ Wrote(r, whats, DOMAIN whats)
    BY <1>1, <1>5, IncidentIsBounded
  <2> HIDE DEF q
  <2>4. QED
    BY <2>1, <2>2, <2>3
<1>6. ASSUME NEW into \in SUBSET DOMAIN whats, inserted(into), Incident, Becomes(r, rec)
      PROVE  \E q, from :
                /\ from \subseteq DOMAIN whats
                /\ Wrote(r, whats, from) /\ Trims(q, rec, from)
                /\ reqs' = [reqs EXCEPT ![r] = q]
                /\ incidents' \in 0 .. MaxIncidents
  <2>1. Trims(rec, rec, into) /\ Wrote(r, whats, into) /\ into \subseteq DOMAIN whats
    BY <1>1, <1>2, <1>6
  <2>2. reqs' = [reqs EXCEPT ![r] = rec]
    BY <1>6 DEF Becomes
  <2>3. incidents' \in 0 .. MaxIncidents
    BY <1>6, IncidentIsBounded
  <2>4. QED
    BY <2>1, <2>2, <2>3
<1>7. QED
  BY <1>4, <1>5, <1>6, Zenon DEF Record

\* The same for the rows that only requests of the API leave.
LEMMA RecordIfApiIs ==
    ASSUME RowsNumbered, RequestsKnow, NEW r \in Reqs, NEW whats, DOMAIN whats \subseteq LogNames,
           NEW rec \in Request, rec.trim = None,
           RecordIfApi(r, whats, rec)
    PROVE  \E q, into :
              /\ into \subseteq DOMAIN whats
              /\ Wrote(r, whats, into) /\ Trims(q, rec, into)
              /\ reqs' = [reqs EXCEPT ![r] = q]
              /\ incidents' \in 0 .. MaxIncidents
<1>1. CASE rec.api
  BY <1>1, RecordIs DEF RecordIfApi
<1>2. CASE ~ rec.api
  <2>1. reqs' = [reqs EXCEPT ![r] = rec] /\ UNCHANGED <<tables, written, incidents>>
    BY <1>2 DEF RecordIfApi, Becomes
  <2>2. Wrote(r, whats, {}) /\ Trims(rec, rec, {})
    BY <2>1, WroteNothing DEF Trims
  <2>3. incidents' \in 0 .. MaxIncidents
    BY <2>1 DEF RequestsKnow
  <2>4. QED
    BY <2>1, <2>2, <2>3
<1>3. QED
  BY <1>1, <1>2

\* A request's record has the type of its fields.
LEMMA FieldsAre ==
    ASSUME NEW q \in Request
    PROVE  /\ q.stage \in Stage /\ q.kind \in {"none", "list", "save", "drop"} /\ q.api \in BOOLEAN
           /\ q.code \in Statuses \cup {None} /\ q.reply \in Statuses \cup {None}
           /\ q.seen \in SUBSET Row
           /\ q.trim \in {None} \cup [table : LogNames, max : Nat, loop : BOOLEAN]
BY DEF Request

\* What a request knows of itself.
Knows(q) ==
    /\ q.stage \in {"handling", "raised"} => q.reply = None /\ q.code = "error"
    /\ q.stage \in {"viewing", "answered"} => q.reply \in {"ok", "refused"}
    /\ q.stage = "unwinding" => <<q.reply, q.code>> \in {<<None, "left">>, <<"error", "error">>}

TrimKnown(q) ==
    q.trim # None => written[q.trim.table] > 0 /\ q.trim.max <= written[q.trim.table]

\* It does not start again, and what it has answered at its end it has answered.
Keeps(p, q) ==
    /\ q.stage = "none" => p.stage = "none"
    /\ q.stage = "handling" => p.stage = "handling" /\ q.kind = p.kind
    /\ p.stage = "done" => q.stage = "done" /\ q.reply = p.reply

Goes(r, q) ==
    /\ reqs' = [reqs EXCEPT ![r] = q] /\ q \in Request /\ incidents' \in 0 .. MaxIncidents
    /\ Keeps(reqs[r], q) /\ Knows(q)

\* No page is read.
NoNewPage(p, q) == q.reply = "ok" => p.reply = "ok" /\ q.seen = p.seen

\* The rows that request `r` leaves, now `q`, are true and the last of their kind.
Leaves(r, q, whats, into) ==
    /\ Wrote(r, whats, into) /\ \A t \in into : whats[t] \in Whats[t]
    /\ q.trim # None => q.trim.table \in into /\ q.trim.max = 0
    /\ reqs[r].stage # "done" /\ q.stage # "none"
    /\ "requests" \in into =>
          q.stage = "done" /\ whats["requests"] = IF q.reply = None THEN "left" ELSE q.reply
    /\ "events" \in into => /\ whats["events"] = "finished" => q.stage = "done"
                            /\ whats["events"] = "received" => reqs[r].stage = "none"

LEMMA RequestIs ==
    ASSUME RequestsKnow, NEW r \in Reqs
    PROVE  reqs[r] \in Request /\ Knows(reqs[r]) /\ TrimKnown(reqs[r])
BY DEF RequestsKnow, Knows, TrimKnown

LEMMA OneLog ==
    ASSUME NEW t \in LogNames, NEW what
    PROVE  /\ t = "events" => DOMAIN [events |-> what] = {t} /\ [events |-> what][t] = what
           /\ DOMAIN [events |-> "finished", requests |-> what] = LogNames
           /\ [events |-> "finished", requests |-> what]["events"] = "finished"
           /\ [events |-> "finished", requests |-> what]["requests"] = what
BY DEF LogNames

\* A request, field by field.
Has(q, stage, kind, code, reply, seen, trim) ==
    /\ q \in Request /\ q.stage = stage /\ q.kind = kind /\ q.code = code /\ q.reply = reply
    /\ q.seen = seen /\ q.trim = trim

LEMMA ArrivedIs ==
    ASSUME NEW kind \in {"list", "save", "drop"}, NEW api \in BOOLEAN, NEW q,
           q = [NoRequest EXCEPT !.kind = kind, !.api = api, !.stage = "handling"]
    PROVE  Has(q, "handling", kind, "error", None, {}, None)
BY DEF Has, NoRequest, Request, InitialCode, Stage, Statuses

LEMMA FinishedIs ==
    ASSUME NEW p \in Request, NEW reply \in Statuses \cup {None}, NEW q,
           q = [NoRequest EXCEPT !.stage = "done", !.api = p.api, !.reply = reply, !.seen = p.seen]
    PROVE  Has(q, "done", "none", "error", reply, p.seen, None)
BY DEF Has, NoRequest, Request, InitialCode, Stage, Statuses

LEMMA StagedIs ==
    ASSUME NEW p \in Request, NEW stage \in Stage, NEW q, q = [p EXCEPT !.stage = stage]
    PROVE  Has(q, stage, p.kind, p.code, p.reply, p.seen, p.trim)
BY DEF Has, Request

LEMMA AnsweredIs ==
    ASSUME NEW p \in Request, NEW stage \in Stage, NEW reply \in Statuses, NEW q,
           q = [p EXCEPT !.stage = stage, !.reply = reply]
    PROVE  Has(q, stage, p.kind, p.code, reply, p.seen, p.trim)
BY DEF Has, Request

LEMMA CancelledIs ==
    ASSUME NEW p \in Request, NEW q,
           q = [p EXCEPT !.stage = "unwinding", !.reply = None, !.seen = {}, !.code = "left"]
    PROVE  Has(q, "unwinding", p.kind, "left", None, {}, p.trim)
BY DEF Has, Request, Stage, Statuses

LEMMA SeenIs ==
    ASSUME NEW p \in Request, NEW page \in SUBSET Row, NEW q, q = [p EXCEPT !.seen = page]
    PROVE  Has(q, p.stage, p.kind, p.code, p.reply, page, p.trim)
BY DEF Has, Request

LEMMA ReadIs ==
    ASSUME NEW p \in Request, NEW page \in SUBSET Row, NEW stage \in Stage, NEW q,
           q = [p EXCEPT !.seen = page, !.reply = "ok", !.stage = stage]
    PROVE  Has(q, stage, p.kind, p.code, "ok", page, p.trim)
BY DEF Has, Request, Statuses

LEMMA TrimmedIs ==
    ASSUME NEW p \in Request, NEW trim \in {None} \cup [table : LogNames, max : Nat, loop : BOOLEAN],
           NEW q, q = [p EXCEPT !.trim = trim]
    PROVE  Has(q, p.stage, p.kind, p.code, p.reply, p.seen, trim)
BY DEF Has, Request

\* A request that arrives.
LEMMA ArrivesIs ==
    ASSUME RowsNumbered, RequestsKnow, NEW r \in Reqs, NEW kind \in {"list", "save", "drop"},
           NEW api \in BOOLEAN, Arrives(r, kind, api)
    PROVE  /\ reqs[r].stage = "none"
           /\ \E q, whats, into :
                 /\ reqs' = [reqs EXCEPT ![r] = q] /\ q \in Request /\ incidents' \in 0 .. MaxIncidents
                 /\ Leaves(r, q, whats, into) /\ "requests" \notin into
                 /\ q.stage = "handling" /\ q.kind = kind /\ q.code = "error" /\ q.reply = None
<1> DEFINE rec == [NoRequest EXCEPT !.kind = kind, !.api = api, !.stage = "handling"]
           whats == [events |-> "received"]
<1>1. reqs[r].stage = "none" /\ RecordIfApi(r, whats, rec)
  BY DEF Arrives, IsNext
<1>2. Has(rec, "handling", kind, "error", None, {}, None)
  BY ArrivedIs, Zenon
<1>3. DOMAIN whats = {"events"} /\ whats["events"] = "received" /\ "events" \in LogNames
  BY OneLog, WhatsAre
<1> HIDE DEF rec, whats
<1>4. PICK q, into : /\ into \subseteq DOMAIN whats
                     /\ Wrote(r, whats, into) /\ Trims(q, rec, into)
                     /\ reqs' = [reqs EXCEPT ![r] = q]
                     /\ incidents' \in 0 .. MaxIncidents
  BY <1>1, <1>2, <1>3, RecordIfApiIs DEF Has
<1>5. /\ q \in Request /\ q.stage = "handling" /\ q.kind = kind /\ q.code = "error" /\ q.reply = None
      /\ q.trim # None => q.trim.table \in into /\ q.trim.max = 0
  BY <1>2, <1>4 DEF Trims, Has
<1>6. Leaves(r, q, whats, into) /\ "requests" \notin into
  BY <1>1, <1>3, <1>4, <1>5, WhatsAre DEF Leaves
<1>7. QED
  BY <1>1, <1>4, <1>5, <1>6

\* What a request that goes on leaves in the logs: after it was read, after an exception,
\* at its end.
LEMMA LogStep ==
    ASSUME RowsNumbered, RequestsKnow, NEW r \in Reqs,
           LogViewed(r) \/ Mask(r) \/ FinishRaised(r) \/ Finish(r)
    PROVE  /\ UNCHANGED pager
           /\ \E q, whats, into :
                 Goes(r, q) /\ Leaves(r, q, whats, into) /\ NoNewPage(reqs[r], q)
<1> DEFINE p == reqs[r]
<1>1. p \in Request /\ Knows(p)
  BY RequestIs
<1>2. /\ p.stage \in Stage /\ p.code \in Statuses \cup {None} /\ p.reply \in Statuses \cup {None}
  BY <1>1, FieldsAre
<1>3. /\ "events" \in LogNames /\ None \notin Statuses
      /\ "unwinding" \in Stage /\ "answered" \in Stage /\ "error" \in Statuses
  BY WhatsAre, ConstantsAre DEF Stage, Statuses
<1> DEFINE Goal == \E q, whats, into :
                      Goes(r, q) /\ Leaves(r, q, whats, into) /\ NoNewPage(reqs[r], q)
<1>4. ASSUME NEW what \in {"viewed", "unhandled"}, NEW rec \in Request, rec.trim = None,
             NEW loop \in BOOLEAN, Record(r, [events |-> what], loop, rec),
             rec.stage \in {"answered", "unwinding"}, p.stage \in {"viewing", "raised"},
             Knows(rec), NoNewPage(p, rec)
      PROVE  Goal
  <2> DEFINE whats == [events |-> what]
  <2>1. DOMAIN whats = {"events"} /\ whats["events"] = what
    BY <1>3, OneLog
  <2> HIDE DEF whats
  <2>2. PICK q, into : /\ into \subseteq DOMAIN whats
                       /\ Wrote(r, whats, into) /\ Trims(q, rec, into)
                       /\ reqs' = [reqs EXCEPT ![r] = q]
                       /\ incidents' \in 0 .. MaxIncidents
    BY <1>3, <1>4, <2>1, RecordIs DEF whats
  <2>3. /\ q \in Request /\ q.stage = rec.stage /\ q.code = rec.code /\ q.reply = rec.reply
        /\ q.seen = rec.seen /\ (q.trim # None => q.trim.table \in into /\ q.trim.max = 0)
    BY <2>2 DEF Trims
  <2>4. Leaves(r, q, whats, into)
    BY <1>4, <2>1, <2>2, <2>3, WhatsAre DEF Leaves
  <2>5. Goes(r, q) /\ NoNewPage(p, q)
    BY <1>4, <2>2, <2>3 DEF Goes, Keeps, Knows, NoNewPage
  <2>6. QED
    BY <2>4, <2>5
<1>5. ASSUME NEW reply \in Statuses \cup {None}, NEW code \in Statuses, Finishes(r, reply, code),
             code = IF reply = None THEN "left" ELSE reply,
             p.stage \in {"answered", "unwinding"}, p.reply = reply
      PROVE  Goal
  <2> DEFINE whats == [events |-> "finished", requests |-> code]
             rec == [NoRequest EXCEPT !.stage = "done", !.api = p.api, !.reply = reply, !.seen = p.seen]
  <2>1. DOMAIN whats = LogNames /\ whats["events"] = "finished" /\ whats["requests"] = code
    BY <1>3, OneLog
  <2>2. Has(rec, "done", "none", "error", reply, p.seen, None)
    BY <1>1, <1>5, FinishedIs, Zenon
  <2>3. RecordIfApi(r, whats, rec)
    BY <1>5 DEF Finishes
  <2> HIDE DEF whats, rec
  <2>4. PICK q, into : /\ into \subseteq DOMAIN whats
                       /\ Wrote(r, whats, into) /\ Trims(q, rec, into)
                       /\ reqs' = [reqs EXCEPT ![r] = q]
                       /\ incidents' \in 0 .. MaxIncidents
    BY <2>1, <2>2, <2>3, RecordIfApiIs DEF Has
  <2>5. /\ q \in Request /\ q.stage = "done" /\ q.reply = reply
        /\ q.seen = p.seen /\ (q.trim # None => q.trim.table \in into /\ q.trim.max = 0)
    BY <2>2, <2>4 DEF Trims, Has
  <2>6. Leaves(r, q, whats, into)
    BY <1>5, <2>1, <2>4, <2>5, WhatsAre DEF Leaves
  <2>7. Goes(r, q) /\ NoNewPage(p, q)
    BY <1>5, <2>4, <2>5 DEF Goes, Keeps, Knows, NoNewPage
  <2>8. QED
    BY <2>6, <2>7
<1>6. CASE LogViewed(r)
  <2> DEFINE rec == [p EXCEPT !.stage = "answered"]
  <2>1. p.stage = "viewing" /\ p.trim = None /\ Record(r, [events |-> "viewed"], FALSE, rec)
    BY <1>6 DEF LogViewed, At
  <2>2. Has(rec, "answered", p.kind, p.code, p.reply, p.seen, None)
    BY <1>1, <1>3, <2>1, StagedIs
  <2> HIDE DEF rec
  <2>3. Knows(rec) /\ NoNewPage(p, rec)
    BY <1>1, <2>1, <2>2 DEF Knows, NoNewPage, Has
  <2>4. QED
    BY <1>4, <1>6, <2>1, <2>2, <2>3 DEF LogViewed, Has
<1>7. CASE Mask(r)
  <2> DEFINE rec == [p EXCEPT !.stage = "unwinding", !.reply = "error"]
  <2>1. p.stage = "raised" /\ p.trim = None /\ Record(r, [events |-> "unhandled"], TRUE, rec)
    BY <1>7 DEF Mask, At
  <2>2. Has(rec, "unwinding", p.kind, p.code, "error", p.seen, None)
    BY <1>1, <1>3, <2>1, AnsweredIs, Zenon
  <2> HIDE DEF rec
  <2>3. Knows(rec) /\ NoNewPage(p, rec)
    BY <1>1, <2>1, <2>2 DEF Knows, NoNewPage, Has
  <2>4. QED
    BY <1>4, <1>7, <2>1, <2>2, <2>3 DEF Mask, Has
<1>8. CASE FinishRaised(r)
  <2>1. p.stage = "unwinding" /\ Finishes(r, p.reply, p.code)
    BY <1>8 DEF FinishRaised, At
  <2>2. p.code = IF p.reply = None THEN "left" ELSE p.reply
    BY <1>1, <1>3, <2>1 DEF Knows, Statuses
  <2>3. p.code \in Statuses
    BY <1>1, <2>1 DEF Knows, Statuses
  <2>4. QED
    BY <1>2, <1>5, <1>8, <2>1, <2>2, <2>3 DEF FinishRaised
<1>9. CASE Finish(r)
  <2>1. p.stage = "answered" /\ Finishes(r, p.reply, p.reply)
    BY <1>9 DEF Finish, At
  <2>2. p.reply \in Statuses /\ p.reply = IF p.reply = None THEN "left" ELSE p.reply
    BY <1>1, <1>3, <2>1 DEF Knows, Statuses
  <2>3. QED
    BY <1>2, <1>5, <1>9, <2>1, <2>2 DEF Finish
<1>10. QED
  BY <1>6, <1>7, <1>8, <1>9

\* The steps that touch no table and read no page.
LEMMA QuietStep ==
    ASSUME RowsNumbered, RequestsKnow, NewestKept, NEW r \in Reqs,
           Refuse(r) \/ Raise(r) \/ Cancel(r) \/ ReadMax(r) \/ TrimFails(r)
    PROVE  /\ UNCHANGED <<tables, written, pager>>
           /\ \E q : Goes(r, q) /\ TrimKnown(q) /\ NoNewPage(reqs[r], q)
<1> DEFINE p == reqs[r]
<1>1. p \in Request /\ Knows(p) /\ TrimKnown(p)
  BY RequestIs
<1>2. /\ p.stage \in Stage /\ p.trim \in {None} \cup [table : LogNames, max : Nat, loop : BOOLEAN]
      /\ None \notin Statuses /\ "answered" \in Stage /\ "raised" \in Stage /\ "refused" \in Statuses
  BY <1>1, FieldsAre, ConstantsAre DEF Stage, Statuses
<1>3. ASSUME NEW q \in Request, reqs' = [reqs EXCEPT ![r] = q], q.trim = None, Knows(q), Keeps(p, q),
             incidents' \in 0 .. MaxIncidents, NoNewPage(p, q)
      PROVE  \E x : Goes(r, x) /\ TrimKnown(x) /\ NoNewPage(reqs[r], x)
  BY <1>3 DEF Goes, TrimKnown
<1>4. CASE Refuse(r)
  <2> DEFINE q == [p EXCEPT !.stage = "answered", !.reply = "refused"]
  <2>1. /\ p.stage = "handling" /\ p.trim = None /\ reqs' = [reqs EXCEPT ![r] = q]
        /\ UNCHANGED <<tables, written, pager>> /\ incidents' \in 0 .. MaxIncidents
    BY <1>4, IncidentIsBounded DEF Refuse, At, Answers, Becomes
  <2>2. Has(q, "answered", p.kind, p.code, "refused", p.seen, None)
    BY <1>1, <1>2, <2>1, AnsweredIs, Zenon
  <2> HIDE DEF q
  <2>3. Knows(q) /\ Keeps(p, q) /\ NoNewPage(p, q)
    BY <2>1, <2>2 DEF Knows, Keeps, NoNewPage, Has
  <2>4. QED
    BY <1>3, <2>1, <2>2, <2>3 DEF Has
<1>5. CASE Raise(r)
  <2> DEFINE q == [p EXCEPT !.stage = "raised"]
  <2>1. /\ p.stage = "handling" /\ p.trim = None /\ reqs' = [reqs EXCEPT ![r] = q]
        /\ UNCHANGED <<tables, written, pager>> /\ incidents' \in 0 .. MaxIncidents
    BY <1>5, IncidentIsBounded DEF Raise, At, Becomes
  <2>2. Has(q, "raised", p.kind, p.code, p.reply, p.seen, None)
    BY <1>1, <1>2, <2>1, StagedIs
  <2> HIDE DEF q
  <2>3. Knows(q) /\ Keeps(p, q) /\ NoNewPage(p, q)
    BY <1>1, <2>1, <2>2 DEF Knows, Keeps, NoNewPage, Has
  <2>4. QED
    BY <1>3, <2>1, <2>2, <2>3 DEF Has
<1>6. CASE Cancel(r)
  <2> DEFINE q == [p EXCEPT !.stage = "unwinding", !.reply = None, !.seen = {}, !.code = "left"]
  <2>1. /\ p.stage \in {"handling", "answered"} /\ p.trim = None /\ reqs' = [reqs EXCEPT ![r] = q]
        /\ UNCHANGED <<tables, written, pager>> /\ incidents' \in 0 .. MaxIncidents
    <3>1. CancelledCode(p.code) = "left"
      BY DEF CancelledCode
    <3>2. QED
      BY <1>6, <3>1, IncidentIsBounded DEF Cancel, At, Becomes, CancelledCode
  <2>2. Has(q, "unwinding", p.kind, "left", None, {}, None)
    BY <1>1, <2>1, CancelledIs, Zenon
  <2> HIDE DEF q
  <2>3. Knows(q) /\ Keeps(p, q) /\ NoNewPage(p, q)
    BY <1>2, <2>1, <2>2 DEF Knows, Keeps, NoNewPage, Statuses, Has
  <2>4. QED
    BY <1>3, <2>1, <2>2, <2>3 DEF Has
<1>7. CASE TrimFails(r)
  <2> DEFINE q == [p EXCEPT !.trim = None]
  <2>1. /\ reqs' = [reqs EXCEPT ![r] = q]
        /\ UNCHANGED <<tables, written, pager>> /\ incidents' \in 0 .. MaxIncidents
    BY <1>7, IncidentIsBounded DEF TrimFails, RequestsKnow
  <2>2. Has(q, p.stage, p.kind, p.code, p.reply, p.seen, None)
    BY <1>1, TrimmedIs
  <2> HIDE DEF q
  <2>3. Knows(q) /\ Keeps(p, q) /\ NoNewPage(p, q)
    BY <1>1, <2>2 DEF Knows, Keeps, NoNewPage, Has
  <2>4. QED
    BY <1>3, <2>1, <2>2, <2>3 DEF Has
<1>8. CASE ReadMax(r)
  <2> DEFINE t == p.trim
             max == Max(IdsOf(t.table))
             n == IF max <= Keep THEN None ELSE [t EXCEPT !.max = max]
             q == [p EXCEPT !.trim = n]
  <2>1. /\ t # None /\ UNCHANGED <<tables, written, pager, incidents>>
        /\ reqs' = [reqs EXCEPT ![r].trim = n]
    BY <1>8 DEF ReadMax
  <2>2. reqs' = [reqs EXCEPT ![r] = q]
    BY <2>1 DEF RequestsKnow
  <2>3. t \in [table : LogNames, max : Nat, loop : BOOLEAN] /\ t.table \in LogNames
    BY <1>2, <2>1
  <2>4. written[t.table] > 0
    BY <1>1, <2>1 DEF TrimKnown
  <2>5. max \in IdsOf(t.table) /\ max \in Nat /\ max <= written[t.table]
    <3>1. t.table \in Tables /\ written[t.table] \in Nat /\ Keep \in Nat /\ Keep > 0
      BY <2>3, WhatsAre, ConstantsAre DEF RowsNumbered
    <3>2. written[t.table] \in IdsOf(t.table)
      BY <2>3, <2>4, <3>1 DEF NewestKept
    <3>3. max \in IdsOf(t.table) /\ IdsOf(t.table) \subseteq Nat \ {0}
      BY <3>1, <3>2, IdsAre
    <3>4. \A i \in IdsOf(t.table) : i <= written[t.table]
      BY <2>3 DEF IdsOf, RowsNumbered
    <3>5. QED
      BY <3>3, <3>4
  <2> HIDE DEF max
  <2>6. [t EXCEPT !.max = max] \in [table : LogNames, max : Nat, loop : BOOLEAN]
        /\ [t EXCEPT !.max = max].table = t.table /\ [t EXCEPT !.max = max].max = max
    BY <2>3, <2>5
  <2>7. /\ n \in {None} \cup [table : LogNames, max : Nat, loop : BOOLEAN]
        /\ n # None => n.table = t.table /\ n.max = max
    BY <2>6
  <2> HIDE DEF n
  <2>8. Has(q, p.stage, p.kind, p.code, p.reply, p.seen, n)
    BY <1>1, <2>7, TrimmedIs
  <2> HIDE DEF q
  <2>9. incidents' \in 0 .. MaxIncidents
    BY <2>1 DEF RequestsKnow
  <2>10. Knows(q) /\ Keeps(p, q) /\ NoNewPage(p, q)
    BY <1>1, <2>8 DEF Knows, Keeps, NoNewPage, Has
  <2>11. TrimKnown(q)
    BY <2>4, <2>5, <2>7, <2>8 DEF TrimKnown, Has
  <2>12. Goes(r, q)
    BY <2>2, <2>8, <2>9, <2>10 DEF Goes, Has
  <2>13. QED
    BY <2>1, <2>10, <2>11, <2>12
<1>9. QED
  BY <1>4, <1>5, <1>6, <1>7, <1>8

-----------------------------------------------------------------------------
(* The shape of every step.                                                *)

\* It does not start again, and what it has answered at its end it has answered.
Forth(p, q) ==
    /\ q.stage = "none" => p.stage = "none"
    /\ q.stage = "handling" => p.stage \in {"none", "handling"}
    /\ p.stage = "done" => q.stage = "done" /\ q.reply = p.reply

\* The record of a chat.
Saves(r, q, x) ==
    /\ x \in Row /\ x.id = NextId("chats") /\ x.thread \in Threads /\ x.what \in Whats["chats"] /\ x.req = r
    /\ tables' = [tables EXCEPT !["chats"] = tables["chats"] \cup {x}] /\ UNCHANGED written
    /\ reqs[r].stage = "handling" /\ q.stage = "answered" /\ q.trim = None

\* A deletion that leaves the newest rows of a log.
Removes(t, kept) ==
    /\ t \in Tables /\ kept \subseteq tables[t] /\ UNCHANGED written
    /\ tables' = [tables EXCEPT ![t] = kept]
    /\ t \in LogNames => \A x \in tables[t] : x.id > written[t] - Keep => x \in kept

Rows(r, q) ==
    \/ \E whats, into : Leaves(r, q, whats, into)
    \/ \E x : Saves(r, q, x)
    \/ TrimKnown(q) /\ \E t, kept : Removes(t, kept)
    \/ TrimKnown(q) /\ UNCHANGED <<tables, written>>

Shape(r, q) ==
    /\ reqs' = [reqs EXCEPT ![r] = q] /\ q \in Request /\ incidents' \in 0 .. MaxIncidents
    /\ Forth(reqs[r], q) /\ Knows(q) /\ Rows(r, q)

\* No page is read for the client: the request is none of a list, or keeps what it read.
NoPage(r, q) == NoNewPage(reqs[r], q) \/ (reqs[r].stage = "handling" /\ reqs[r].kind # "list")

LEMMA AnswersStep ==
    ASSUME RequestsKnow, NEW r \in Reqs, At(r, "handling"), Answers(r, "ok"), UNCHANGED incidents
    PROVE  \E q : Goes(r, q) /\ q.stage = "answered" /\ q.trim = None
<1> DEFINE p == reqs[r]
           q == [p EXCEPT !.stage = "answered", !.reply = "ok"]
<1>1. /\ p \in Request /\ p.stage = "handling" /\ p.trim = None
      /\ reqs' = [reqs EXCEPT ![r] = q] /\ incidents' \in 0 .. MaxIncidents
  BY RequestIs DEF At, Answers, Becomes, RequestsKnow
<1>2. "answered" \in Stage /\ "ok" \in Statuses
  BY DEF Stage, Statuses
<1>3. Has(q, "answered", p.kind, p.code, "ok", p.seen, None)
  BY <1>1, <1>2, AnsweredIs, Zenon
<1> HIDE DEF q
<1>4. Knows(q) /\ Keeps(p, q)
  BY <1>1, <1>3 DEF Knows, Keeps, Has
<1>5. QED
  BY <1>1, <1>3, <1>4 DEF Goes, Has

LEMMA SaveStep ==
    ASSUME RowsNumbered, RequestsKnow, NEW r \in Reqs, SaveLog(r)
    PROVE  /\ UNCHANGED pager
           /\ \E q : Goes(r, q) /\ Rows(r, q) /\ NoPage(r, q)
<1>1. PICK q : Goes(r, q) /\ q.stage = "answered" /\ q.trim = None
  BY AnswersStep DEF SaveLog
<1>2. PICK c \in Saved :
          tables' = [tables EXCEPT !.chats = @ \cup {NewRow(NextId("chats"), c[1], c[2], r)}]
  BY DEF SaveLog
<1> DEFINE x == NewRow(NextId("chats"), c[1], c[2], r)
<1>3. c[1] \in Threads /\ c[2] \in Whats["chats"] /\ "chats" \in Tables
  BY RecordsAssumption, WhatsAre
<1>4. /\ x \in Row /\ x.id = NextId("chats") /\ x.thread \in Threads /\ x.what \in Whats["chats"]
      /\ x.req = r
  BY <1>3, IdsAre, ReqsAre, WhatsAre DEF NewRow, Row
<1>5. tables' = [tables EXCEPT !["chats"] = tables["chats"] \cup {x}]
  BY <1>2, <1>3 DEF RowsNumbered
<1> HIDE DEF x
<1>6. Saves(r, q, x)
  BY <1>1, <1>4, <1>5 DEF Saves, SaveLog, At
<1>7. NoPage(r, q)
  BY DEF NoPage, SaveLog, At
<1>8. QED
  BY <1>1, <1>6, <1>7 DEF Rows, SaveLog

LEMMA DropStep ==
    ASSUME RowsNumbered, RequestsKnow, NEW r \in Reqs, DropThread(r)
    PROVE  /\ UNCHANGED pager
           /\ \E q : Goes(r, q) /\ Rows(r, q) /\ NoPage(r, q)
<1>1. PICK q : Goes(r, q) /\ q.stage = "answered" /\ q.trim = None
  BY AnswersStep DEF DropThread
<1>2. PICK t \in Threads : tables' = [tables EXCEPT !.chats = {x \in @ : x.thread # t}]
  BY DEF DropThread
<1> DEFINE kept == {x \in tables["chats"] : x.thread # t}
<1>3. tables' = [tables EXCEPT !["chats"] = kept]
  BY <1>2, WhatsAre DEF RowsNumbered
<1>4. Removes("chats", kept)
  BY <1>3, WhatsAre DEF Removes, DropThread
<1>5. NoPage(r, q) /\ TrimKnown(q)
  BY <1>1 DEF NoPage, DropThread, At, TrimKnown
<1>6. QED
  BY <1>1, <1>4, <1>5 DEF Rows, DropThread

LEMMA TrimStep ==
    ASSUME RowsNumbered, RequestsKnow, NEW r \in Reqs, Trim(r)
    PROVE  /\ UNCHANGED pager
           /\ \E q : Goes(r, q) /\ Rows(r, q) /\ NoPage(r, q)
<1> DEFINE p == reqs[r]
           t == p.trim
           q == [p EXCEPT !.trim = None]
           kept == {x \in tables[t.table] : x.id > NewestTrimmed(t.max)}
<1>1. p \in Request /\ Knows(p) /\ TrimKnown(p)
  BY RequestIs
<1>2. t # None /\ UNCHANGED <<written, pager, incidents>> /\ reqs' = [reqs EXCEPT ![r] = q]
  BY DEF Trim, RequestsKnow
<1>3. t.table \in LogNames /\ t.table \in Tables /\ t.max \in Nat /\ t.max <= written[t.table]
  BY <1>1, <1>2, FieldsAre, WhatsAre DEF TrimKnown
<1>4. tables' = [tables EXCEPT ![t.table] = kept]
  BY <1>3 DEF Trim, RowsNumbered
<1>5. ASSUME NEW x \in tables[t.table], x.id > written[t.table] - Keep PROVE x \in kept
  <2>1. x.id \in Nat /\ written[t.table] \in Nat /\ Keep \in Nat
    BY <1>3, IdsAre, ConstantsAre DEF RowsNumbered
  <2>2. x.id > t.max - Keep
    BY <1>3, <1>5, <2>1
  <2>3. QED
    BY <2>2 DEF NewestTrimmed
<1>6. Removes(t.table, kept)
  BY <1>2, <1>3, <1>4, <1>5 DEF Removes
<1>7. Has(q, p.stage, p.kind, p.code, p.reply, p.seen, None)
  BY <1>1, TrimmedIs
<1> HIDE DEF q
<1>8. Knows(q) /\ Keeps(p, q) /\ NoNewPage(p, q) /\ TrimKnown(q)
  BY <1>1, <1>7 DEF Knows, Keeps, NoNewPage, TrimKnown, Has
<1>9. Goes(r, q)
  BY <1>2, <1>7, <1>8 DEF Goes, Has, RequestsKnow
<1>10. Rows(r, q) /\ NoPage(r, q)
  BY <1>6, <1>8 DEF Rows, NoPage
<1>11. QED
  BY <1>2, <1>9, <1>10

\* A page that is read.
LEMMA PageStep ==
    ASSUME RowsNumbered, RequestsKnow, PagerKnows, NEW r \in Reqs, ReadPage(r)
    PROVE  /\ UNCHANGED <<tables, written, pager>>
           /\ pager.stage = "waiting" /\ pager.req = r
           /\ \E q : /\ Goes(r, q) /\ TrimKnown(q) /\ q.reply = "ok"
                     /\ q.seen = ListPage(pager.view, pager.before, Clamped(pager.limit))
<1> DEFINE p == reqs[r]
           page == ListPage(pager.view, pager.before, Clamped(pager.limit))
           stage == IF pager.view.audited THEN "viewing" ELSE "answered"
           q == [p EXCEPT !.seen = page, !.reply = "ok", !.stage = stage]
<1>1. /\ p \in Request /\ p.stage = "handling" /\ p.kind = "list" /\ p.trim = None
      /\ reqs' = [reqs EXCEPT ![r] = q] /\ UNCHANGED <<tables, written, pager, incidents>>
  BY RequestIs DEF ReadPage, At, Becomes
<1>2. pager.stage = "waiting" /\ pager.req = r
  BY <1>1 DEF RequestsKnow
<1>3. pager.view \in View /\ pager.view.table \in Tables
  BY <1>2 DEF PagerKnows, Pager, View
<1>4. page \subseteq tables[pager.view.table]
  BY DEF ListPage, Newest, Before, Selected
<1>5. page \in SUBSET Row
  BY <1>3, <1>4, IdsAre
<1>6. stage \in {"viewing", "answered"} /\ stage \in Stage
  BY DEF Stage
<1> HIDE DEF page, stage
<1>7. Has(q, stage, p.kind, p.code, "ok", page, None)
  BY <1>1, <1>5, <1>6, ReadIs, Zenon
<1> HIDE DEF q
<1>8. Knows(q) /\ Keeps(p, q) /\ TrimKnown(q)
  BY <1>1, <1>6, <1>7 DEF Knows, Keeps, TrimKnown, Has
<1>9. Goes(r, q)
  BY <1>1, <1>7, <1>8 DEF Goes, Has, RequestsKnow
<1>10. QED
  BY <1>1, <1>2, <1>7, <1>8, <1>9 DEF Has, page

\* A request that arrives, for the client or for others.
LEMMA ArriveStep ==
    ASSUME RowsNumbered, RequestsKnow, NEW r \in Reqs, NEW kind \in {"list", "save", "drop"},
           NEW api \in BOOLEAN, Arrives(r, kind, api)
    PROVE  /\ reqs[r].stage = "none"
           /\ \E q : Shape(r, q) /\ q.stage = "handling" /\ q.kind = kind /\ q.reply = None
<1>1. PICK q, whats, into :
          /\ reqs' = [reqs EXCEPT ![r] = q] /\ q \in Request /\ incidents' \in 0 .. MaxIncidents
          /\ Leaves(r, q, whats, into)
          /\ q.stage = "handling" /\ q.kind = kind /\ q.code = "error" /\ q.reply = None
  BY ArrivesIs
<1>2. reqs[r].stage = "none"
  BY ArrivesIs
<1>3. Forth(reqs[r], q) /\ Knows(q) /\ Rows(r, q)
  BY <1>1, <1>2 DEF Forth, Knows, Rows
<1>4. QED
  BY <1>1, <1>2, <1>3 DEF Shape

\* A page that is taken.
LEMMA TakeStep ==
    ASSUME RequestsKnow, NEW r \in Reqs, TakePage(r)
    PROVE  \E q : Shape(r, q) /\ q.stage = "done"
<1> DEFINE p == reqs[r]
           q == [p EXCEPT !.seen = {}]
<1>1. /\ p \in Request /\ p.stage = "done" /\ p.trim = None
      /\ reqs' = [reqs EXCEPT ![r] = q] /\ UNCHANGED <<tables, written, incidents>>
  BY RequestIs DEF TakePage, At, RequestsKnow
<1>2. Has(q, p.stage, p.kind, p.code, p.reply, {}, None)
  BY <1>1, SeenIs
<1> HIDE DEF q
<1>3. Knows(q) /\ Forth(p, q) /\ TrimKnown(q)
  BY <1>1, <1>2 DEF Knows, Forth, TrimKnown, Has
<1>4. Rows(r, q)
  BY <1>1, <1>3 DEF Rows
<1>5. incidents' \in 0 .. MaxIncidents
  BY <1>1 DEF RequestsKnow
<1>6. q \in Request /\ q.stage = "done"
  BY <1>1, <1>2 DEF Has
<1>7. Shape(r, q)
  BY <1>1, <1>3, <1>4, <1>5, <1>6 DEF Shape
<1>8. QED
  BY <1>6, <1>7

\* A request goes on: every step but an arrival and the taking of a page.
LEMMA GoesOn ==
    ASSUME RowsNumbered, RequestsKnow, NewestKept, PagerKnows, NEW r \in Reqs, RequestStep(r)
    PROVE  /\ UNCHANGED pager
           /\ \E q : Goes(r, q) /\ Rows(r, q) /\ (NoPage(r, q) \/ ReadPage(r))
<1>1. CASE Refuse(r) \/ Raise(r) \/ Cancel(r) \/ ReadMax(r) \/ TrimFails(r)
  <2>1. UNCHANGED <<tables, written, pager>>
    BY <1>1, QuietStep
  <2>2. PICK q : Goes(r, q) /\ TrimKnown(q) /\ NoNewPage(reqs[r], q)
    BY <1>1, QuietStep
  <2>3. Rows(r, q) /\ NoPage(r, q)
    BY <2>1, <2>2 DEF Rows, NoPage
  <2>4. QED
    BY <2>1, <2>2, <2>3
<1>2. CASE LogViewed(r) \/ Mask(r) \/ FinishRaised(r) \/ Finish(r)
  <2>1. PICK q, whats, into :
            Goes(r, q) /\ Leaves(r, q, whats, into) /\ NoNewPage(reqs[r], q)
    BY <1>2, LogStep
  <2>2. Rows(r, q) /\ NoPage(r, q)
    BY <2>1 DEF Rows, NoPage
  <2>3. QED
    BY <1>2, <2>1, <2>2, LogStep
<1>3. CASE SaveLog(r) \/ DropThread(r) \/ Trim(r)
  BY <1>3, SaveStep, DropStep, TrimStep
<1>4. CASE ReadPage(r)
  BY <1>4, PageStep DEF Rows
<1>5. QED
  BY <1>1, <1>2, <1>3, <1>4 DEF RequestStep

\* What is asked for is a list there is.
LEMMA ViewsAre == Views \subseteq View
<1>1. \A threads \in SUBSET Threads, api \in BOOLEAN, audited \in BOOLEAN :
          ChatLists(threads, api, audited) \subseteq View
  <2> SUFFICES ASSUME NEW threads \in SUBSET Threads, NEW api \in BOOLEAN, NEW audited \in BOOLEAN,
                      NEW t \in Wanted(threads), NEW w \in Wanted(Whats.chats)
               PROVE  [table |-> "chats", threads |-> t, whats |-> w, api |-> api, audited |-> audited]
                        \in View
    BY DEF ChatLists
  <2>1. t \subseteq Threads \cup {None}
    BY DEF Wanted
  <2>2. w \subseteq UNION Range(Whats)
    BY WhatsAre DEF Wanted
  <2>3. QED
    BY <2>1, <2>2, WhatsAre DEF View
<1>2. \A t \in LogNames, api \in BOOLEAN : LogLists(t, api) \subseteq View
  <2> SUFFICES ASSUME NEW t \in LogNames, NEW api \in BOOLEAN, NEW w \in Wanted(Whats[t])
               PROVE  [table |-> t, threads |-> {None}, whats |-> w, api |-> api, audited |-> TRUE] \in View
    BY DEF LogLists
  <2>1. t \in Tables
    BY WhatsAre
  <2>2. w \subseteq UNION Range(Whats)
    BY <2>1, WhatsAre DEF Wanted
  <2>3. QED
    BY <2>1, <2>2 DEF View
<1>3. \A api \in BOOLEAN : WholeTables(api) \subseteq View
  <2> SUFFICES ASSUME NEW api \in BOOLEAN, NEW t \in Tables
               PROVE  [table |-> t, threads |-> ThreadsOf(t), whats |-> Whats[t], api |-> api,
                       audited |-> TRUE] \in View
    BY DEF WholeTables
  <2>1. ThreadsOf(t) \subseteq Threads \cup {None} /\ Whats[t] \subseteq UNION Range(Whats)
    BY WhatsAre DEF ThreadsOf
  <2>2. QED
    BY <2>1 DEF View
<1>4. Mine \subseteq Threads /\ "events" \in LogNames /\ "requests" \in LogNames
  BY RecordsAssumption, WhatsAre
<1>5. /\ MyChats \subseteq View /\ AllChats \subseteq View /\ AdminLogsPage \subseteq View
      /\ ThreadChats \subseteq View
  BY <1>1, <1>4 DEF MyChats, AllChats, AdminLogsPage, ThreadChats
<1>6. /\ AllEvents \subseteq View /\ AllRequests \subseteq View
      /\ AdminEventsPage \subseteq View /\ AdminNetworkPage \subseteq View
  BY <1>2, <1>4 DEF AllEvents, AllRequests, AdminEventsPage, AdminNetworkPage
<1>7. DbTableRows \subseteq View /\ AdminDbPage \subseteq View
  BY <1>3 DEF DbTableRows, AdminDbPage
<1>8. QED
  BY <1>5, <1>6, <1>7 DEF Views

LEMMA AskedAre ==
    ASSUME NEW a \in Asked
    PROVE  /\ a.view \in View /\ a.view.api \in BOOLEAN /\ a.limit \in Nat \ {0}
           /\ a.view.audited \/ a.limit <= MaxPage
<1>1. a.view \in View
  BY AskedAssumption, ViewsAre
<1>2. QED
  BY <1>1, AskedAssumption DEF View

LEMMA GoesAreShapes ==
    ASSUME NEW r \in Reqs, NEW q, Goes(r, q), Rows(r, q)
    PROVE  Shape(r, q)
<1>1. Forth(reqs[r], q)
  BY DEF Goes, Keeps, Forth
<1>2. QED
  BY <1>1 DEF Goes, Shape

\* What the client does with a request that arrives.
LEMMA OpenIs ==
    ASSUME NEW r \in Reqs, Open(r)
    PROVE  /\ pager.stage = "idle"
           /\ \E a \in Asked :
                 /\ Arrives(r, "list", a.view.api)
                 /\ pager' = [pager EXCEPT !.stage = "waiting", !.view = a.view, !.limit = a.limit,
                                          !.req = r, !.first = tables[a.view.table]]
BY DEF Open

LEMMA StepShape ==
    ASSUME RowsNumbered, RequestsKnow, NewestKept, PagerKnows, [RecordsNext]_vars
    PROVE  \/ UNCHANGED vars
           \/ \E r \in Reqs : \E q : Shape(r, q)
<1>1. CASE UNCHANGED vars
  BY <1>1
<1>2. ASSUME NEW r \in Reqs, RequestStep(r) PROVE \E q : Shape(r, q)
  BY <1>2, GoesOn, GoesAreShapes
<1>3. ASSUME NEW r \in Reqs, NEW kind \in {"save", "drop"}, Arrive(r, kind) PROVE \E q : Shape(r, q)
  BY <1>3, ArriveStep DEF Arrive
<1>4. ASSUME NEW r \in Reqs, Open(r) PROVE \E q : Shape(r, q)
  <2>1. PICK a \in Asked : Arrives(r, "list", a.view.api)
    BY <1>4, OpenIs
  <2>2. a.view.api \in BOOLEAN
    BY AskedAre
  <2>3. QED
    BY <2>1, <2>2, ArriveStep
<1>5. ASSUME NEW r \in Reqs, AskNext(r) PROVE \E q : Shape(r, q)
  <2>1. pager.stage = "reading" /\ Arrives(r, "list", pager.view.api)
    BY <1>5 DEF AskNext
  <2>2. pager.view \in View
    BY <2>1 DEF PagerKnows, Pager
  <2>3. pager.view.api \in BOOLEAN
    BY <2>2 DEF View
  <2>4. QED
    BY <2>1, <2>3, ArriveStep
<1>6. ASSUME NEW r \in Reqs, TakePage(r) PROVE \E q : Shape(r, q)
  BY <1>6, TakeStep
<1>7. QED
  BY <1>1, <1>2, <1>3, <1>4, <1>5, <1>6 DEF RecordsNext

-----------------------------------------------------------------------------
(* The tables.                                                             *)

\* What RowsNumbered says of one table.
Numbered(S, t) ==
    /\ S \in SUBSET Row
    /\ \A x \in S : x.id > 0 /\ x.thread \in ThreadsOf(t) /\ x.what \in Whats[t]
    /\ \A x, y \in S : x.id = y.id => x = y
    /\ \E max \in {x.id : x \in S} \cup {0} : \A x \in S : x.id <= max

LEMMA TablesNumbered ==
    ASSUME RowsNumbered
    PROVE  \A t \in Tables : Numbered(tables[t], t)
BY DEF RowsNumbered, Numbered, IdsOf

LEMMA NumberedSubset ==
    ASSUME NEW S, NEW t, Numbered(S, t), NEW X \in SUBSET S
    PROVE  Numbered(X, t)
<1> DEFINE I == {x.id : x \in X}
<1>1. \A x \in S : x.id \in Nat
  BY DEF Numbered, Row
<1>2. PICK max \in {x.id : x \in S} \cup {0} : \A x \in S : x.id <= max
  BY DEF Numbered
<1>3. max \in Nat /\ I \in SUBSET Nat /\ \A i \in I : i <= max
  BY <1>1, <1>2
<1>4. \E m \in I \cup {0} : \A i \in I : i <= m
  <2>1. CASE I = {}
    BY <2>1
  <2>2. CASE I # {}
    <3> HIDE DEF I
    <3>1. Max(I) \in I /\ \A i \in I : i <= Max(I)
      BY <1>3, <2>2, MaxOfBounded
    <3>2. QED
      BY <3>1
  <2>3. QED
    BY <2>1, <2>2
<1>5. QED
  BY <1>4 DEF Numbered

LEMMA NumberedWith ==
    ASSUME NEW S, NEW t, Numbered(S, t), NEW x \in Row, x.id > 0,
           x.thread \in ThreadsOf(t), x.what \in Whats[t], \A y \in S : y.id < x.id
    PROVE  Numbered(S \cup {x}, t)
<1>1. x.id \in Nat /\ \A y \in S : y.id \in Nat
  BY DEF Numbered, Row
<1>2. x.id \in {y.id : y \in S \cup {x}} \cup {0}
  OBVIOUS
<1>3. \A y \in S \cup {x} : y.id <= x.id
  BY <1>1
<1>4. \A y, z \in S \cup {x} : y.id = z.id => y = z
  BY <1>1 DEF Numbered
<1>5. QED
  BY <1>2, <1>3, <1>4 DEF Numbered

\* A row that a request leaves in a log.
LEMMA LeftRow ==
    ASSUME RowsNumbered, NewestKept, NEW r \in Reqs, NEW q, NEW whats, NEW into,
           Leaves(r, q, whats, into), NEW t \in into
    PROVE  LET x == NewRow(NextId(t), None, whats[t], r) IN
           /\ t \in LogNames /\ t \in Tables /\ tables'[t] = tables[t] \cup {x}
           /\ x \in Row /\ x.id = written[t] + 1 /\ x.id > 0 /\ x.req = r /\ x.what = whats[t]
           /\ x.thread \in ThreadsOf(t) /\ x.what \in Whats[t] /\ written[t] \in Nat
           /\ \A y \in tables[t] : y.id < x.id
<1>1. t \in LogNames /\ t \in Tables /\ whats[t] \in Whats[t]
  BY WhatsAre DEF Leaves, Wrote
<1>2. /\ NextId(t) \in Nat \ {0} /\ \A y \in tables[t] : y.id < NextId(t)
      /\ NextId(t) = written[t] + 1 /\ written[t] \in Nat
  BY <1>1, IdsAre, NextIdCounts DEF RowsNumbered
<1>3. tables'[t] = tables[t] \cup {NewRow(NextId(t), None, whats[t], r)}
  BY <1>1 DEF Leaves, Wrote
<1>4. None \in ThreadsOf(t)
  BY <1>1, WhatsAre DEF ThreadsOf
<1>5. r \in 1 .. MaxReqs /\ whats[t] \in UNION Range(Whats)
  BY <1>1, ReqsAre, WhatsAre
<1> HIDE DEF NextId
<1>6. QED
  BY <1>1, <1>2, <1>3, <1>4, <1>5 DEF NewRow, Row

LEMMA LeftElse ==
    ASSUME RowsNumbered, NEW r, NEW q, NEW whats, NEW into, Leaves(r, q, whats, into)
    PROVE  /\ into \subseteq LogNames
           /\ \A t \in Tables \ into : tables'[t] = tables[t]
           /\ \A t \in LogNames : written'[t] = IF t \in into THEN written[t] + 1 ELSE written[t]
           /\ DOMAIN tables' = Tables /\ DOMAIN written' = LogNames
           /\ tables' = [t \in Tables |-> tables'[t]] /\ written' = [t \in LogNames |-> written'[t]]
BY DEF Leaves, Wrote

LEMMA RowsNumberedStep ==
    ASSUME RowsNumbered, NewestKept, NEW r \in Reqs, NEW q, Rows(r, q)
    PROVE  RowsNumbered'
<1> SUFFICES /\ tables' \in [Tables -> SUBSET Row] /\ written' \in [LogNames -> Nat]
             /\ \A t \in Tables : Numbered(tables'[t], t)
             /\ \A t \in LogNames : \A x \in tables'[t] : x.id <= written'[t]
  BY DEF RowsNumbered, Numbered, IdsOf
<1>1. /\ tables \in [Tables -> SUBSET Row] /\ written \in [LogNames -> Nat]
      /\ \A t \in Tables : Numbered(tables[t], t)
      /\ \A t \in LogNames : \A x \in tables[t] : x.id <= written[t]
      /\ LogNames \subseteq Tables /\ "chats" \notin LogNames /\ "chats" \in Tables
  BY TablesNumbered, WhatsAre DEF RowsNumbered
<1>2. ASSUME NEW whats, NEW into, Leaves(r, q, whats, into)
      PROVE  /\ tables' \in [Tables -> SUBSET Row] /\ written' \in [LogNames -> Nat]
             /\ \A t \in Tables : Numbered(tables'[t], t)
             /\ \A t \in LogNames : \A x \in tables'[t] : x.id <= written'[t]
  <2>1. ASSUME NEW t \in Tables PROVE Numbered(tables'[t], t)
    <3>1. CASE t \in into
      BY <1>1, <1>2, <3>1, LeftRow, NumberedWith
    <3>2. CASE t \notin into
      BY <1>1, <1>2, <3>2, LeftElse
    <3>3. QED
      BY <3>1, <3>2
  <2>2. ASSUME NEW t \in LogNames
        PROVE  written'[t] \in Nat /\ \A x \in tables'[t] : x.id <= written'[t]
    <3>1. CASE t \in into
      <4>1. /\ tables'[t] = tables[t] \cup {NewRow(NextId(t), None, whats[t], r)}
            /\ NewRow(NextId(t), None, whats[t], r).id = written[t] + 1 /\ written[t] \in Nat
        BY <1>2, <3>1, LeftRow
      <4>2. written'[t] = written[t] + 1
        BY <1>2, <3>1, LeftElse
      <4>3. \A x \in tables[t] : x.id \in Nat /\ x.id <= written[t]
        BY <1>1, IdsAre
      <4>4. QED
        BY <4>1, <4>2, <4>3
    <3>2. CASE t \notin into
      BY <1>1, <1>2, <3>2, LeftElse
    <3>3. QED
      BY <3>1, <3>2
  <2>3. \A t \in Tables : tables'[t] \in SUBSET Row
    BY <2>1 DEF Numbered
  <2>4. /\ tables' = [t \in Tables |-> tables'[t]] /\ written' = [t \in LogNames |-> written'[t]]
    BY <1>2, LeftElse
  <2>5. tables' \in [Tables -> SUBSET Row] /\ written' \in [LogNames -> Nat]
    BY <2>2, <2>3, <2>4
  <2>6. QED
    BY <2>1, <2>2, <2>5
<1>3. ASSUME NEW x, Saves(r, q, x)
      PROVE  /\ tables' \in [Tables -> SUBSET Row] /\ written' \in [LogNames -> Nat]
             /\ \A t \in Tables : Numbered(tables'[t], t)
             /\ \A t \in LogNames : \A y \in tables'[t] : y.id <= written'[t]
  <2>1. /\ x \in Row /\ x.id > 0 /\ x.thread \in ThreadsOf("chats") /\ x.what \in Whats["chats"]
        /\ \A y \in tables["chats"] : y.id < x.id
    BY <1>1, <1>3, IdsAre DEF Saves, ThreadsOf
  <2>2. Numbered(tables["chats"] \cup {x}, "chats")
    BY <1>1, <2>1, NumberedWith
  <2>3. /\ tables' = [tables EXCEPT !["chats"] = tables["chats"] \cup {x}] /\ written' = written
    BY <1>3 DEF Saves
  <2>4. tables["chats"] \cup {x} \in SUBSET Row
    BY <2>2 DEF Numbered
  <2>5. QED
    BY <1>1, <2>2, <2>3, <2>4
<1>4. ASSUME NEW u, NEW kept, Removes(u, kept)
      PROVE  /\ tables' \in [Tables -> SUBSET Row] /\ written' \in [LogNames -> Nat]
             /\ \A t \in Tables : Numbered(tables'[t], t)
             /\ \A t \in LogNames : \A y \in tables'[t] : y.id <= written'[t]
  <2>1. /\ u \in Tables /\ kept \subseteq tables[u] /\ written' = written
        /\ tables' = [tables EXCEPT ![u] = kept]
    BY <1>4 DEF Removes
  <2>2. Numbered(kept, u)
    BY <1>1, <2>1, NumberedSubset
  <2>3. kept \in SUBSET Row
    BY <2>2 DEF Numbered
  <2>4. QED
    BY <1>1, <2>1, <2>2, <2>3
<1>5. CASE UNCHANGED <<tables, written>>
  BY <1>1, <1>5
<1>6. QED
  BY <1>2, <1>3, <1>4, <1>5 DEF Rows

LEMMA NewestKeptStep ==
    ASSUME RowsNumbered, NewestKept, NEW r \in Reqs, NEW q, Rows(r, q)
    PROVE  NewestKept'
<1> SUFFICES ASSUME NEW t \in LogNames, NEW n \in 1 .. written'[t], n > written'[t] - Keep
             PROVE  \E x \in tables'[t] : x.id = n
  BY DEF NewestKept, IdsOf
<1>1. /\ written[t] \in Nat /\ Keep \in Nat /\ t \in Tables /\ "chats" \notin LogNames
      /\ tables \in [Tables -> SUBSET Row]
  BY WhatsAre, ConstantsAre DEF RowsNumbered
<1>2. \A m \in 1 .. written[t] : m > written[t] - Keep => \E x \in tables[t] : x.id = m
  BY DEF NewestKept, IdsOf
<1>3. ASSUME NEW whats, NEW into, Leaves(r, q, whats, into)
      PROVE  \E x \in tables'[t] : x.id = n
  <2>1. CASE t \in into
    <3>1. /\ tables'[t] = tables[t] \cup {NewRow(NextId(t), None, whats[t], r)}
          /\ NewRow(NextId(t), None, whats[t], r).id = written[t] + 1
      BY <1>3, <2>1, LeftRow
    <3>2. written'[t] = written[t] + 1
      BY <1>3, <2>1, LeftElse
    <3>3. n = written[t] + 1 \/ (n \in 1 .. written[t] /\ n > written[t] - Keep)
      BY <1>1, <3>2
    <3>4. QED
      BY <1>2, <3>1, <3>3
  <2>2. CASE t \notin into
    BY <1>1, <1>2, <1>3, <2>2, LeftElse
  <2>3. QED
    BY <2>1, <2>2
<1>4. ASSUME NEW x, Saves(r, q, x) PROVE \E y \in tables'[t] : y.id = n
  BY <1>1, <1>2, <1>4 DEF Saves
<1>5. ASSUME NEW u, NEW kept, Removes(u, kept) PROVE \E y \in tables'[t] : y.id = n
  <2>1. written' = written /\ tables' = [tables EXCEPT ![u] = kept] /\ u \in Tables
    BY <1>5 DEF Removes
  <2>2. PICK x \in tables[t] : x.id = n
    BY <1>2, <2>1
  <2>3. u = t => x \in kept
    BY <1>5, <2>1, <2>2 DEF Removes
  <2>4. x \in tables'[t]
    BY <1>1, <2>1, <2>3
  <2>5. QED
    BY <2>2, <2>4
<1>6. CASE UNCHANGED <<tables, written>>
  BY <1>2, <1>6
<1>7. QED
  BY <1>3, <1>4, <1>5, <1>6 DEF Rows

\* A row that a step adds.
FreshRow(r, q, t, x) ==
    /\ x \in Row /\ x.req = r /\ \A y \in tables[t] : y.id < x.id
    /\ q.stage # "none" /\ reqs[r].stage # "done"
    /\ t = "chats" => reqs[r].stage = "handling" /\ q.stage = "answered" /\ x.what # "finished"
    /\ t \in LogNames => x.id = written[t] + 1
    /\ t = "requests" => q.stage = "done" /\ x.what = IF q.reply = None THEN "left" ELSE q.reply
    /\ t = "events" => /\ x.what = "finished" => q.stage = "done"
                       /\ x.what = "received" => reqs[r].stage = "none"

LEMMA RowsAre ==
    ASSUME RowsNumbered, NewestKept, NEW r \in Reqs, NEW q, Rows(r, q)
    PROVE  /\ \A t \in Tables : \A x \in tables'[t] : x \in tables[t] \/ FreshRow(r, q, t, x)
           /\ \A t \in LogNames : written[t] \in Nat /\ written'[t] \in Nat /\ written[t] <= written'[t]
<1>1. /\ \A t \in LogNames : written[t] \in Nat
      /\ Tables = {"chats", "events", "requests"} /\ LogNames = {"events", "requests"}
      /\ tables \in [Tables -> SUBSET Row]
  BY WhatsAre DEF RowsNumbered
<1>2. ASSUME NEW whats, NEW into, Leaves(r, q, whats, into)
      PROVE  /\ \A t \in Tables : \A x \in tables'[t] : x \in tables[t] \/ FreshRow(r, q, t, x)
             /\ \A t \in LogNames : written'[t] \in Nat /\ written[t] <= written'[t]
  <2>1. ASSUME NEW t \in into, NEW x, x = NewRow(NextId(t), None, whats[t], r)
        PROVE  FreshRow(r, q, t, x)
    <3>1. /\ t \in LogNames /\ x \in Row /\ x.id = written[t] + 1 /\ x.req = r /\ x.what = whats[t]
          /\ \A y \in tables[t] : y.id < x.id
      BY <1>2, <2>1, LeftRow
    <3>2. /\ reqs[r].stage # "done" /\ q.stage # "none"
          /\ t = "requests" =>
               q.stage = "done" /\ whats["requests"] = IF q.reply = None THEN "left" ELSE q.reply
          /\ t = "events" => /\ whats["events"] = "finished" => q.stage = "done"
                             /\ whats["events"] = "received" => reqs[r].stage = "none"
      BY <1>2, <2>1 DEF Leaves
    <3>3. t # "chats"
      BY <1>1, <3>1
    <3>4. QED
      BY <3>1, <3>2, <3>3 DEF FreshRow
  <2>2. ASSUME NEW t \in Tables, NEW x \in tables'[t] PROVE x \in tables[t] \/ FreshRow(r, q, t, x)
    <3>1. CASE t \in into
      <4>1. tables'[t] = tables[t] \cup {NewRow(NextId(t), None, whats[t], r)}
        BY <1>2, <3>1, LeftRow
      <4>2. QED
        BY <2>1, <3>1, <4>1
    <3>2. CASE t \notin into
      BY <1>2, <3>2, LeftElse
    <3>3. QED
      BY <3>1, <3>2
  <2>3. \A t \in LogNames : written'[t] \in Nat /\ written[t] <= written'[t]
    BY <1>1, <1>2, LeftElse
  <2>4. QED
    BY <2>2, <2>3
<1>3. ASSUME NEW z, Saves(r, q, z)
      PROVE  /\ \A t \in Tables : \A x \in tables'[t] : x \in tables[t] \/ FreshRow(r, q, t, x)
             /\ \A t \in LogNames : written'[t] \in Nat /\ written[t] <= written'[t]
  <2>1. written' = written /\ tables' = [tables EXCEPT !["chats"] = tables["chats"] \cup {z}]
    BY <1>3 DEF Saves
  <2>2. z.what # "finished"
    BY <1>3, WhatsAre DEF Saves
  <2>3. \A y \in tables["chats"] : y.id < z.id
    BY <1>1, <1>3, IdsAre DEF Saves
  <2>4. FreshRow(r, q, "chats", z)
    BY <1>1, <1>3, <2>2, <2>3 DEF FreshRow, Saves
  <2>5. \A t \in Tables : \A x \in tables'[t] : x \in tables[t] \/ (t = "chats" /\ x = z)
    BY <1>1, <2>1
  <2>6. QED
    BY <1>1, <2>1, <2>4, <2>5
<1>4. ASSUME NEW u, NEW kept, Removes(u, kept)
      PROVE  /\ \A t \in Tables : \A x \in tables'[t] : x \in tables[t] \/ FreshRow(r, q, t, x)
             /\ \A t \in LogNames : written'[t] \in Nat /\ written[t] <= written'[t]
  BY <1>1, <1>4 DEF Removes
<1>5. CASE UNCHANGED <<tables, written>>
  BY <1>1, <1>5
<1>6. QED
  BY <1>1, <1>2, <1>3, <1>4, <1>5 DEF Rows

\* Which requests a step changes.
LEMMA OneRequest ==
    ASSUME RequestsKnow, NEW r \in Reqs, NEW q, reqs' = [reqs EXCEPT ![r] = q]
    PROVE  reqs'[r] = q /\ \A s \in Reqs \ {r} : reqs'[s] = reqs[s]
BY DEF RequestsKnow

LEMMA RowsFollowStep ==
    ASSUME RowsNumbered, NewestKept, RequestsKnow, RowsFollowRequests, NEW r \in Reqs, NEW q, Shape(r, q)
    PROVE  RowsFollowRequests'
<1> SUFFICES ASSUME NEW t \in Tables, NEW x \in tables'[t], x.req \in Reqs
             PROVE  /\ reqs'[x.req].stage # "none"
                    /\ t = "chats" => reqs'[x.req].stage # "handling"
                    /\ t = "requests" \/ x.what = "finished" => reqs'[x.req].stage = "done"
  BY DEF RowsFollowRequests
<1>1. Rows(r, q) /\ Forth(reqs[r], q) /\ reqs' = [reqs EXCEPT ![r] = q]
  BY DEF Shape
<1>2. reqs'[r] = q /\ \A s \in Reqs \ {r} : reqs'[s] = reqs[s]
  BY <1>1, OneRequest
<1>3. CASE x \in tables[t]
  <2>1. /\ reqs[x.req].stage # "none"
        /\ t = "chats" => reqs[x.req].stage # "handling"
        /\ t = "requests" \/ x.what = "finished" => reqs[x.req].stage = "done"
    BY <1>3 DEF RowsFollowRequests
  <2>2. CASE x.req = r
    BY <1>1, <1>2, <2>1, <2>2 DEF Forth
  <2>3. CASE x.req # r
    BY <1>2, <2>1, <2>3
  <2>4. QED
    BY <2>2, <2>3
<1>4. CASE FreshRow(r, q, t, x)
  BY <1>2, <1>4, WhatsAre DEF FreshRow
<1>5. QED
  BY <1>1, <1>3, <1>4, RowsAre

LEMMA RecordedStep ==
    ASSUME RowsNumbered, NewestKept, RequestsKnow, RowsFollowRequests, RecordedAsAnswered,
           NEW r \in Reqs, NEW q, Shape(r, q)
    PROVE  RecordedAsAnswered'
<1>1. Rows(r, q) /\ Forth(reqs[r], q) /\ reqs' = [reqs EXCEPT ![r] = q]
  BY DEF Shape
<1>2. reqs'[r] = q /\ \A s \in Reqs \ {r} : reqs'[s] = reqs[s]
  BY <1>1, OneRequest
<1>3. "requests" \in Tables /\ "events" \in Tables /\ "events" \in LogNames
  BY WhatsAre
<1>4. ASSUME NEW x \in tables'["requests"], x.req \in Reqs
      PROVE  x.what = IF reqs'[x.req].reply = None THEN "left" ELSE reqs'[x.req].reply
  <2>1. CASE x \in tables["requests"]
    <3>1. /\ x.what = IF reqs[x.req].reply = None THEN "left" ELSE reqs[x.req].reply
          /\ reqs[x.req].stage = "done"
      BY <1>3, <1>4, <2>1 DEF RecordedAsAnswered, RowsFollowRequests
    <3>2. reqs'[x.req].reply = reqs[x.req].reply
      BY <1>1, <1>2, <1>4, <3>1 DEF Forth
    <3>3. QED
      BY <3>1, <3>2
  <2>2. CASE FreshRow(r, q, "requests", x)
    BY <1>2, <2>2 DEF FreshRow
  <2>3. QED
    BY <1>1, <1>3, <2>1, <2>2, RowsAre
<1>5. ASSUME NEW x \in tables'["events"], NEW y \in tables'["events"], x.req = y.req, x.id < y.id
      PROVE  x.what # "finished" /\ y.what # "received"
  <2>1. /\ x \in tables["events"] \/ FreshRow(r, q, "events", x)
        /\ y \in tables["events"] \/ FreshRow(r, q, "events", y)
    BY <1>1, <1>3, RowsAre
  <2>2. \A z \in tables["events"] : z.id \in Nat
    BY <1>3, IdsAre
  <2>3. CASE x \in tables["events"] /\ y \in tables["events"]
    BY <1>5, <2>3 DEF RecordedAsAnswered
  <2>4. CASE x \in tables["events"] /\ FreshRow(r, q, "events", y)
    <3>1. y.req = r /\ reqs[r].stage # "done" /\ (y.what = "received" => reqs[r].stage = "none")
      BY <2>4 DEF FreshRow
    <3>2. reqs[r].stage # "none" /\ (x.what = "finished" => reqs[r].stage = "done")
      BY <1>3, <1>5, <2>4, <3>1 DEF RowsFollowRequests
    <3>3. QED
      BY <3>1, <3>2
  <2>5. CASE FreshRow(r, q, "events", x)
    <3>1. /\ x.id = written["events"] + 1 /\ written["events"] \in Nat
          /\ \A z \in tables["events"] : z.id < x.id
      BY <1>3, <2>5 DEF FreshRow, RowsNumbered
    <3>2. y.id <= x.id /\ y.id \in Nat
      BY <1>3, <2>1, <2>2, <3>1 DEF FreshRow
    <3>3. QED
      BY <1>5, <3>1, <3>2
  <2>6. QED
    BY <2>1, <2>3, <2>4, <2>5
<1>6. QED
  BY <1>4, <1>5 DEF RecordedAsAnswered

-----------------------------------------------------------------------------
(* The client.                                                             *)

\* The view and the rows at the start change only when the first page is asked for.
LEMMA FirstIsPastStep ==
    ASSUME RowsNumbered, NewestKept, RequestsKnow, PagerKnows, FirstIsPast,
           NEW r \in Reqs, NEW q, Shape(r, q), pager.view # None,
           pager'.view = pager.view, pager'.first = pager.first
    PROVE  FirstIsPast'
<1> SUFFICES ASSUME NEW x \in pager.first
             PROVE  /\ pager.view.table \in LogNames => x.id <= written'[pager.view.table]
                    /\ pager.view.table = "chats" /\ x.req \in Reqs =>
                          reqs'[x.req].stage \notin {"none", "handling"}
  BY DEF FirstIsPast
<1>1. Rows(r, q) /\ Forth(reqs[r], q) /\ reqs' = [reqs EXCEPT ![r] = q]
  BY DEF Shape
<1>2. reqs'[r] = q /\ \A s \in Reqs \ {r} : reqs'[s] = reqs[s]
  BY <1>1, OneRequest
<1>3. /\ pager.view.table \in LogNames => x.id <= written[pager.view.table]
      /\ pager.view.table = "chats" /\ x.req \in Reqs => reqs[x.req].stage \notin {"none", "handling"}
  BY DEF FirstIsPast
<1>4. x.id \in Nat
  BY DEF PagerKnows, Pager, Row
<1>5. ASSUME pager.view.table \in LogNames PROVE x.id <= written'[pager.view.table]
  BY <1>1, <1>3, <1>4, <1>5, RowsAre
<1>6. ASSUME pager.view.table = "chats", x.req \in Reqs
      PROVE  reqs'[x.req].stage \notin {"none", "handling"}
  <2>1. reqs[x.req].stage \notin {"none", "handling"}
    BY <1>3, <1>6
  <2>2. CASE x.req = r
    BY <1>1, <1>2, <2>1, <2>2 DEF Forth
  <2>3. CASE x.req # r
    BY <1>2, <1>6, <2>1, <2>3
  <2>4. QED
    BY <2>2, <2>3
<1>7. QED
  BY <1>5, <1>6

\* None of the rows at the start comes back once it has gone.
LEMMA FirstOnlyGoes ==
    ASSUME RowsNumbered, NewestKept, FirstIsPast, PagerKnows,
           NEW r \in Reqs, NEW q, Rows(r, q), pager.view # None
    PROVE  pager.first \cap tables'[pager.view.table] \subseteq tables[pager.view.table]
<1> DEFINE t == pager.view.table
<1>1. t \in Tables
  BY DEF PagerKnows, Pager, View
<1>2. SUFFICES ASSUME NEW x \in pager.first, FreshRow(r, q, t, x) PROVE FALSE
  BY <1>1, RowsAre
<1>3. CASE t = "chats"
  BY <1>2, <1>3 DEF FirstIsPast, FreshRow
<1>4. CASE t \in LogNames
  <2>1. x.id = written[t] + 1 /\ x.id <= written[t]
    BY <1>2, <1>4 DEF FirstIsPast, FreshRow
  <2>2. written[t] \in Nat
    BY <1>4 DEF RowsNumbered
  <2>3. QED
    BY <2>1, <2>2
<1>5. QED
  BY <1>1, <1>3, <1>4, WhatsAre

\* The client, field by field.
PagerIs(p, stage, view, limit, before, rows, left, req, first, full) ==
    /\ p \in Pager /\ p.stage = stage /\ p.view = view /\ p.limit = limit /\ p.before = before
    /\ p.rows = rows /\ p.left = left /\ p.req = req /\ p.first = first /\ p.full = full

LEMMA OpenedIs ==
    ASSUME NEW p \in Pager, NEW view \in View, NEW limit \in Nat \ {0}, NEW r \in Reqs,
           NEW first \in SUBSET Row, NEW q,
           q = [p EXCEPT !.stage = "waiting", !.view = view, !.limit = limit, !.req = r, !.first = first]
    PROVE  PagerIs(q, "waiting", view, limit, p.before, p.rows, p.left, r, first, p.full)
BY DEF Pager, PagerIs

LEMMA AskedIs ==
    ASSUME NEW p \in Pager, NEW r \in Reqs, NEW q, q = [p EXCEPT !.stage = "waiting", !.req = r]
    PROVE  PagerIs(q, "waiting", p.view, p.limit, p.before, p.rows, p.left, r, p.first, p.full)
BY DEF Pager, PagerIs

LEMMA FailedIs ==
    ASSUME NEW p \in Pager, NEW q, q = [p EXCEPT !.stage = "failed"]
    PROVE  PagerIs(q, "failed", p.view, p.limit, p.before, p.rows, p.left, p.req, p.first, p.full)
BY DEF Pager, PagerIs

LEMMA TakenIs ==
    ASSUME NEW p \in Pager, NEW rows \in Seq(Row), NEW cursor \in Nat \cup {None}, NEW left \in 0 .. MaxPages,
           NEW full \in BOOLEAN, NEW stage \in {"ended", "reading"}, NEW q,
           q = [p EXCEPT !.rows = rows, !.before = cursor, !.left = left, !.full = full, !.stage = stage]
    PROVE  PagerIs(q, stage, p.view, p.limit, cursor, rows, left, p.req, p.first, full)
BY DEF Pager, PagerIs

\* The size of a page.
LEMMA ClampedIs ==
    ASSUME NEW limit \in Nat \ {0}
    PROVE  Clamped(limit) \in Nat \ {0} /\ (limit <= MaxPage => Clamped(limit) = limit)
<1>1. MaxPage \in Nat /\ MaxPage > 0
  BY ConstantsAre
<1> DEFINE m == Min({limit, MaxPage})
<1>2. {limit, MaxPage} \in SUBSET Nat /\ {limit, MaxPage} # {}
  BY <1>1
<1>3. m \in {limit, MaxPage} /\ \A y \in {limit, MaxPage} : m <= y
  BY <1>2, MinOf
<1> HIDE DEF m
<1>4. m \in Nat \ {0} /\ (limit <= MaxPage => m = limit)
  BY <1>1, <1>3
<1>5. Max({1, m}) = m
  BY <1>4, MaxOfTwo
<1>6. Clamped(limit) = m
  BY <1>5 DEF Clamped, m
<1>7. QED
  BY <1>4, <1>6

LEMMA PagerIsTyped ==
    ASSUME PagerKnows
    PROVE  /\ pager \in Pager
           /\ pager.stage # "idle" => pager.view \in View /\ pager.view.table \in Tables
           /\ pager.limit \in Nat \ {0} /\ pager.rows \in Seq(Row) /\ pager.left \in 0 .. MaxPages
           /\ pager.first \in SUBSET Row /\ pager.full \in BOOLEAN /\ pager.before \in Nat \cup {None}
           /\ pager.stage = "waiting" => pager.req \in Reqs
BY DEF PagerKnows, Pager, View

LEMMA OpenStep ==
    ASSUME RowsNumbered, RequestsKnow, PagerKnows, NEW r \in Reqs, Open(r)
    PROVE  /\ pager = NoPager
           /\ \E a \in Asked :
                 PagerIs(pager', "waiting", a.view, a.limit, None, <<>>, MaxPages, r,
                         tables[a.view.table], FALSE)
           /\ reqs[r].stage = "none"
           /\ \E q : Shape(r, q) /\ q.stage = "handling" /\ q.kind = "list" /\ q.reply = None
<1>1. PICK a \in Asked :
          /\ Arrives(r, "list", a.view.api)
          /\ pager' = [pager EXCEPT !.stage = "waiting", !.view = a.view, !.limit = a.limit,
                                   !.req = r, !.first = tables[a.view.table]]
  BY OpenIs
<1>2. a.view \in View /\ a.view.api \in BOOLEAN /\ a.limit \in Nat \ {0} /\ a.view.table \in Tables
  BY AskedAre DEF View
<1>3. pager = NoPager /\ pager \in Pager
  BY OpenIs DEF PagerKnows
<1>4. tables[a.view.table] \in SUBSET Row
  BY <1>2, IdsAre
<1>5. PagerIs(pager', "waiting", a.view, a.limit, pager.before, pager.rows, pager.left, r,
              tables[a.view.table], pager.full)
  BY <1>1, <1>2, <1>3, <1>4, OpenedIs, Zenon
<1>6. pager.before = None /\ pager.rows = <<>> /\ pager.left = MaxPages /\ pager.full = FALSE
  BY <1>3 DEF NoPager
<1>7. PagerIs(pager', "waiting", a.view, a.limit, None, <<>>, MaxPages, r,
              tables[a.view.table], FALSE)
  BY <1>5, <1>6, Zenon
<1>8. QED
  BY <1>1, <1>2, <1>3, <1>7, ArriveStep

LEMMA AskNextStep ==
    ASSUME RowsNumbered, RequestsKnow, PagerKnows, NEW r \in Reqs, AskNext(r)
    PROVE  /\ pager.stage = "reading"
           /\ PagerIs(pager', "waiting", pager.view, pager.limit, pager.before, pager.rows, pager.left,
                      r, pager.first, pager.full)
           /\ reqs[r].stage = "none"
           /\ \E q : Shape(r, q) /\ q.stage = "handling" /\ q.kind = "list" /\ q.reply = None
<1>1. /\ pager.stage = "reading" /\ Arrives(r, "list", pager.view.api)
      /\ pager' = [pager EXCEPT !.stage = "waiting", !.req = r]
  BY DEF AskNext
<1>2. pager \in Pager /\ pager.view.api \in BOOLEAN
  BY <1>1, PagerIsTyped DEF View
<1>3. PagerIs(pager', "waiting", pager.view, pager.limit, pager.before, pager.rows, pager.left,
              r, pager.first, pager.full)
  BY <1>1, <1>2, AskedIs, Zenon
<1>4. QED
  BY <1>1, <1>2, <1>3, ArriveStep

\* A full page.
LEMMA NextBeforeIs ==
    ASSUME NEW items \in SUBSET Row, NEW n
    PROVE  /\ NextBefore(items, n) \in Nat \cup {None}
           /\ NextBefore(items, n) = None => items = {} \/ Cardinality(items) # n
           /\ NextBefore(items, n) # None =>
                 /\ \E x \in items : x.id = NextBefore(items, n)
                 /\ \A x \in items : NextBefore(items, n) <= x.id
<1> DEFINE I == {x.id : x \in items}
<1>1. I \in SUBSET Nat
  BY DEF Row
<1>2. ASSUME items # {} PROVE Min(I) \in I /\ \A i \in I : Min(I) <= i
  <2>1. I # {}
    BY <1>2
  <2> HIDE DEF I
  <2>2. QED
    BY <1>1, <2>1, MinOf
<1>3. None \notin Nat
  BY ConstantsAre
<1> DEFINE m == Min(I)
<1>4. items # {} => m \in I /\ m \in Nat /\ \A i \in I : m <= i
  BY <1>1, <1>2
<1>5. NextBefore(items, n) = IF items # {} /\ Cardinality(items) = n THEN m ELSE None
  BY DEF NextBefore
<1> HIDE DEF m
<1>6. QED
  BY <1>3, <1>4, <1>5

\* A page that is taken: the client has its rows after those it had.
LEMMA TakenStep ==
    ASSUME RequestsKnow, PagerKnows, PageIsExact, NEW r \in Reqs, TakePage(r)
    PROVE  /\ pager.stage = "waiting" /\ pager.req = r /\ UNCHANGED <<tables, written>>
           /\ \/ PagerIs(pager', "failed", pager.view, pager.limit, pager.before, pager.rows, pager.left,
                         r, pager.first, pager.full)
              \/ \E cursor, left, stage :
                    /\ PagerIs(pager', stage, pager.view, pager.limit, cursor,
                               pager.rows \o NewestFirst(reqs[r].seen), left, r, pager.first,
                               cursor = None)
                    /\ Page(reqs[r].seen, Clamped(pager.limit))
                    /\ cursor = NextBefore(reqs[r].seen, Clamped(pager.limit))
                    /\ stage = "ended" \/ (stage = "reading" /\ cursor # None /\ left > 0)
<1> DEFINE items == reqs[r].seen
           n == IF pager.view.audited THEN Clamped(pager.limit) ELSE pager.limit
           cursor == NextBefore(items, n)
<1>1. /\ pager.stage = "waiting" /\ pager.req = r /\ UNCHANGED <<tables, written>>
  BY DEF TakePage
<1>2. pager \in Pager /\ pager.limit \in Nat \ {0} /\ reqs[r] \in Request
  BY RequestIs, PagerIsTyped
<1>3. CASE reqs[r].reply # "ok"
  <2>1. pager' = [pager EXCEPT !.stage = "failed"]
    BY <1>3 DEF TakePage
  <2>2. PagerIs(pager', "failed", pager.view, pager.limit, pager.before, pager.rows, pager.left,
                pager.req, pager.first, pager.full)
    BY <1>2, <2>1, FailedIs
  <2>3. QED
    BY <1>1, <2>2
<1>4. CASE reqs[r].reply = "ok"
  <2> DEFINE rows == pager.rows \o NewestFirst(items)
             left == pager.left - 1
             full == (cursor = None)
             stage == IF cursor = None \/ pager.left = 1 THEN "ended" ELSE "reading"
  <2>1. pager' = [pager EXCEPT !.rows = rows, !.before = cursor, !.left = left, !.full = full,
                               !.stage = stage]
    BY <1>4 DEF TakePage
  <2>2. Page(items, Clamped(pager.limit))
    BY <1>1, <1>4 DEF PageIsExact
  <2>3. items \in SUBSET Row
    BY <1>2, FieldsAre
  <2>4. n = Clamped(pager.limit)
    BY <1>1, <1>2, ClampedIs DEF PagerKnows
  <2>5. cursor \in Nat \cup {None}
    BY <2>3, NextBeforeIs
  <2>6. left \in 0 .. MaxPages /\ (stage = "reading" => left > 0)
    <3>1. pager.left \in 0 .. MaxPages /\ pager.left > 0 /\ MaxPages \in Nat
      BY <1>1, PagerIsTyped, ConstantsAre DEF PagerKnows
    <3>2. QED
      BY <3>1
  <2>7. rows \in Seq(Row)
    <3>1. /\ IsFiniteSet(items) /\ \A x, y \in items : x.id = y.id => x = y
      BY <2>2 DEF Page
    <3>2. \A x \in items : x.id \in Nat
      BY <2>3 DEF Row
    <3>3. NewestFirst(items) \in [1 .. Cardinality(items) -> items] /\ Cardinality(items) \in Nat
      BY <3>1, <3>2, NewestFirstIs
    <3>4. NewestFirst(items) \in Seq(Row)
      <4> HIDE DEF items
      <4>1. NewestFirst(items) \in [1 .. Cardinality(items) -> Row]
        BY <2>3, <3>3
      <4>2. QED
        BY <3>3, <4>1
    <3>5. pager.rows \in Seq(Row)
      BY PagerIsTyped
    <3>6. QED
      BY <3>4, <3>5
  <2>8. stage \in {"ended", "reading"} /\ full \in BOOLEAN /\ (stage = "reading" => cursor # None)
    OBVIOUS
  <2> HIDE DEF rows, left, full, stage, cursor
  <2>9. PagerIs(pager', stage, pager.view, pager.limit, cursor, rows, left, pager.req, pager.first, full)
    BY <1>2, <2>1, <2>5, <2>6, <2>7, <2>8, TakenIs, Zenon
  <2>10. /\ PagerIs(pager', stage, pager.view, pager.limit, cursor,
                    pager.rows \o NewestFirst(reqs[r].seen), left, r, pager.first, cursor = None)
         /\ cursor = NextBefore(reqs[r].seen, Clamped(pager.limit))
    BY <1>1, <2>4, <2>9, Zenon DEF rows, full, cursor
  <2>11. stage = "ended" \/ (stage = "reading" /\ cursor # None /\ left > 0)
    BY <2>6, <2>8
  <2>12. QED
    BY <1>1, <2>2, <2>10, <2>11
<1>5. QED
  BY <1>3, <1>4

-----------------------------------------------------------------------------
(* The requests.                                                           *)

\* What a request knows of the client.
ForClient(q, s, p) ==
    /\ q.stage = "handling" => (q.kind = "list" <=> p.stage = "waiting" /\ p.req = s)
    /\ q.stage = "none" => ~ (p.stage = "waiting" /\ p.req = s)

LEMMA TrimStaysKnown ==
    ASSUME RowsNumbered, NewestKept, RequestsKnow, NEW r \in Reqs, NEW q, Shape(r, q), NEW s \in Reqs
    PROVE  reqs'[s].trim # None => /\ written'[reqs'[s].trim.table] > 0
                                   /\ reqs'[s].trim.max <= written'[reqs'[s].trim.table]
<1>1. Rows(r, q) /\ reqs' = [reqs EXCEPT ![r] = q] /\ q \in Request
  BY DEF Shape
<1>2. reqs'[r] = q /\ \A v \in Reqs \ {r} : reqs'[v] = reqs[v]
  BY <1>1, OneRequest
<1>3. \A t \in LogNames : written[t] \in Nat /\ written'[t] \in Nat /\ written[t] <= written'[t]
  BY <1>1, RowsAre
<1>4. ASSUME NEW p \in Request, TrimKnown(p), p.trim # None
      PROVE  written'[p.trim.table] > 0 /\ p.trim.max <= written'[p.trim.table]
  <2>1. p.trim \in [table : LogNames, max : Nat, loop : BOOLEAN]
    BY <1>4, FieldsAre
  <2>2. p.trim.table \in LogNames /\ p.trim.max \in Nat
    BY <2>1
  <2>3. written[p.trim.table] > 0 /\ p.trim.max <= written[p.trim.table]
    BY <1>4 DEF TrimKnown
  <2>4. QED
    BY <1>3, <2>2, <2>3
<1>5. CASE s # r
  BY <1>2, <1>4, <1>5, RequestIs
<1>6. CASE s = r
  <2>1. CASE TrimKnown(q)
    BY <1>1, <1>2, <1>4, <1>6, <2>1
  <2>2. ASSUME NEW whats, NEW into, Leaves(r, q, whats, into), q.trim # None
        PROVE  written'[q.trim.table] > 0 /\ q.trim.max <= written'[q.trim.table]
    <3>1. q.trim.table \in into /\ q.trim.max = 0
      BY <2>2 DEF Leaves
    <3>2. q.trim.table \in LogNames /\ written'[q.trim.table] = written[q.trim.table] + 1
      BY <2>2, <3>1, LeftElse
    <3>3. QED
      BY <1>3, <3>1, <3>2
  <2>3. ASSUME NEW x, Saves(r, q, x) PROVE TrimKnown(q)
    BY <2>3 DEF Saves, TrimKnown
  <2>4. QED
    BY <1>1, <1>2, <1>6, <2>1, <2>2, <2>3 DEF Rows
<1>7. QED
  BY <1>5, <1>6

LEMMA RequestsStayKnown ==
    ASSUME RowsNumbered, NewestKept, RequestsKnow, NEW r \in Reqs, NEW q, Shape(r, q),
           ForClient(q, r, pager'),
           \A s \in Reqs \ {r} : ForClient(reqs[s], s, pager')
    PROVE  RequestsKnow'
<1>1. /\ reqs' = [reqs EXCEPT ![r] = q] /\ q \in Request /\ Knows(q) /\ incidents' \in 0 .. MaxIncidents
  BY DEF Shape
<1>2. reqs'[r] = q /\ \A s \in Reqs \ {r} : reqs'[s] = reqs[s]
  BY <1>1, OneRequest
<1>3. reqs' \in [Reqs -> Request]
  BY <1>1 DEF RequestsKnow
<1>4. ASSUME NEW s \in Reqs PROVE Knows(reqs'[s]) /\ ForClient(reqs'[s], s, pager')
  BY <1>1, <1>2, RequestIs
<1>5. \A s \in Reqs :
          reqs'[s].trim # None => /\ written'[reqs'[s].trim.table] > 0
                                  /\ reqs'[s].trim.max <= written'[reqs'[s].trim.table]
  BY TrimStaysKnown
<1>6. QED
  BY <1>1, <1>3, <1>4, <1>5 DEF RequestsKnow, Knows, ForClient

LEMMA RequestsKnowStep ==
    ASSUME RowsNumbered, NewestKept, RequestsKnow, PagerKnows, PageIsExact, [RecordsNext]_vars
    PROVE  RequestsKnow'
<1>1. \A s \in Reqs : ForClient(reqs[s], s, pager)
  BY DEF RequestsKnow, ForClient
<1>2. CASE UNCHANGED vars
  BY <1>2 DEF vars, RequestsKnow
<1>3. ASSUME NEW r \in Reqs, RequestStep(r) PROVE RequestsKnow'
  <2>1. pager' = pager
    BY <1>3, GoesOn
  <2>2. PICK q : Goes(r, q) /\ Rows(r, q)
    BY <1>3, GoesOn
  <2>3. ForClient(q, r, pager)
    BY <1>1, <2>2 DEF ForClient, Goes, Keeps
  <2>4. QED
    BY <1>1, <2>1, <2>2, <2>3, GoesAreShapes, RequestsStayKnown
<1>4. ASSUME NEW r \in Reqs, NEW kind \in {"save", "drop"}, Arrive(r, kind) PROVE RequestsKnow'
  <2>1. pager' = pager /\ Arrives(r, kind, TRUE) /\ kind \in {"list", "save", "drop"}
    BY <1>4 DEF Arrive
  <2>2. reqs[r].stage = "none"
    BY <2>1, ArriveStep
  <2>3. PICK q : Shape(r, q) /\ q.stage = "handling" /\ q.kind = kind
    <3> HIDE <1>4
    <3>1. QED
      BY <2>1, ArriveStep
  <2>4. ForClient(q, r, pager)
    BY <1>1, <2>2, <2>3 DEF ForClient
  <2>5. QED
    BY <1>1, <2>1, <2>3, <2>4, RequestsStayKnown
<1>5. ASSUME NEW r \in Reqs, pager.stage \in {"idle", "reading"}, pager'.stage = "waiting", pager'.req = r,
             NEW q, Shape(r, q), q.stage = "handling", q.kind = "list"
      PROVE  RequestsKnow'
  <2>1. ForClient(q, r, pager')
    BY <1>5 DEF ForClient
  <2>2. \A s \in Reqs \ {r} : ForClient(reqs[s], s, pager')
    BY <1>1, <1>5 DEF ForClient
  <2>3. QED
    BY <1>5, <2>1, <2>2, RequestsStayKnown
<1>6. ASSUME NEW r \in Reqs, Open(r) PROVE RequestsKnow'
  <2>1. pager.stage = "idle" /\ pager'.stage = "waiting" /\ pager'.req = r
    BY <1>6, OpenIs, OpenStep DEF PagerIs
  <2>2. QED
    BY <1>5, <1>6, <2>1, OpenStep
<1>7. ASSUME NEW r \in Reqs, AskNext(r) PROVE RequestsKnow'
  <2>1. pager.stage = "reading" /\ pager'.stage = "waiting" /\ pager'.req = r
    BY <1>7, AskNextStep DEF PagerIs
  <2>2. QED
    BY <1>5, <1>7, <2>1, AskNextStep
<1>8. ASSUME NEW r \in Reqs, TakePage(r) PROVE RequestsKnow'
  <2>1. pager.stage = "waiting" /\ pager.req = r /\ pager'.stage \in {"failed", "ended", "reading"}
    BY <1>8, TakenStep DEF PagerIs
  <2>2. PICK q : Shape(r, q) /\ q.stage = "done"
    BY <1>8, TakeStep
  <2>3. ForClient(q, r, pager') /\ \A s \in Reqs \ {r} : ForClient(reqs[s], s, pager')
    BY <1>1, <2>1, <2>2 DEF ForClient
  <2>4. QED
    BY <2>2, <2>3, RequestsStayKnown
<1>9. QED
  BY <1>2, <1>3, <1>4, <1>6, <1>7, <1>8 DEF RecordsNext

-----------------------------------------------------------------------------
(* The pages.                                                              *)

\* The rows of a client that is going to read on from `cursor`, or has read to the end.
Exact(rows, cursor) ==
    /\ rows \in Seq(Row)
    /\ \A i, j \in 1 .. Len(rows) : i < j => rows[i].id > rows[j].id
    /\ cursor # None => rows # <<>> /\ cursor = rows[Len(rows)].id
    /\ \A x \in Selected(pager.first \cap tables[pager.view.table], pager.view) :
          cursor = None \/ x.id >= cursor => \E i \in 1 .. Len(rows) : rows[i] = x

\* The rows a client has after it took a page.
LEMMA RowsAfter ==
    ASSUME PagerKnows, PagingExact, pager.stage = "waiting",
           NEW items \in SUBSET Row, NEW n \in Nat \ {0}, Page(items, n)
    PROVE  Exact(pager.rows \o NewestFirst(items), NextBefore(items, n))
<1> DEFINE cursor == NextBefore(items, n)
           k == Cardinality(items)
           s == NewestFirst(items)
           old == pager.rows
           l == Len(old)
           rows == old \o s
<1>1. /\ IsFiniteSet(items) /\ k <= n /\ \A x, y \in items : x.id = y.id => x = y
      /\ \A x \in items : x.id \in Nat /\ x.id > 0
      /\ \A x \in items : pager.before # None => x.id < pager.before
  BY DEF Page, Row
<1>2. /\ k \in Nat /\ s \in [1 .. k -> items]
      /\ \A i, j \in 1 .. k : i < j => s[i].id > s[j].id
      /\ \A x \in items : \E i \in 1 .. k : s[i] = x
  BY <1>1, NewestFirstIs
<1> HIDE DEF cursor, k, s
<1>3. s \in Seq(Row) /\ Len(s) = k
  <2>1. s \in [1 .. k -> Row]
    BY <1>2
  <2>2. QED
    BY <1>2, <2>1
<1>4. /\ old \in Seq(Row) /\ l \in Nat /\ \A i \in 1 .. l : old[i] \in Row /\ old[i].id \in Nat
      /\ (l > 0) <=> (old # <<>>)
  <2>1. old \in Seq(Row)
    BY PagerIsTyped
  <2> HIDE DEF old
  <2>2. /\ l \in Nat /\ \A i \in 1 .. l : old[i] \in Row
        /\ (l > 0) <=> (old # <<>>)
    BY <2>1
  <2>3. \A x \in Row : x.id \in Nat
    BY DEF Row
  <2>4. QED
    BY <2>1, <2>2, <2>3
<1>5. /\ \A i, j \in 1 .. l : i < j => old[i].id > old[j].id
      /\ pager.before # None => l > 0 /\ pager.before = old[l].id
      /\ l > 0 => pager.before # None
  <2>1. DOMAIN old = 1 .. l
    BY <1>4
  <2>2. \A i, j \in 1 .. l : i < j => old[i].id > old[j].id
    BY <2>1 DEF PagingExact
  <2>3. /\ pager.before # None => old # <<>> /\ pager.before = old[l].id
        /\ pager.before = None => old = <<>>
    BY DEF PagerKnows
  <2>4. QED
    BY <1>4, <2>2, <2>3
<1> HIDE DEF old, l
<1>6. /\ rows \in Seq(Row) /\ Len(rows) = l + k
      /\ \A i \in 1 .. l + k : rows[i] = IF i <= l THEN old[i] ELSE s[i - l]
  <2>1. ASSUME NEW a \in Seq(Row), NEW b \in Seq(Row)
        PROVE  /\ a \o b \in Seq(Row) /\ Len(a \o b) = Len(a) + Len(b)
               /\ \A i \in 1 .. Len(a) + Len(b) : (a \o b)[i] = IF i <= Len(a) THEN a[i] ELSE b[i - Len(a)]
    BY <2>1
  <2>2. old \in Seq(Row) /\ s \in Seq(Row) /\ Len(old) = l /\ Len(s) = k
    BY <1>3, <1>4 DEF l
  <2>3. QED
    BY <2>1, <2>2
<1> HIDE DEF rows
<1>7. /\ \A i \in 1 .. l : i \in 1 .. l + k /\ rows[i] = old[i]
      /\ \A i \in 1 .. k : i + l \in 1 .. l + k /\ rows[i + l] = s[i]
  BY <1>2, <1>4, <1>6
<1>8. ASSUME NEW i \in 1 .. l + k, NEW j \in 1 .. l + k, i < j PROVE rows[i].id > rows[j].id
  <2>1. CASE j <= l
    <3>1. i \in 1 .. l /\ j \in 1 .. l
      BY <1>2, <1>4, <1>8, <2>1
    <3>2. rows[i] = old[i] /\ rows[j] = old[j]
      BY <1>7, <3>1
    <3>3. QED
      BY <1>5, <1>8, <3>1, <3>2
  <2>2. CASE i > l
    <3>1. i - l \in 1 .. k /\ j - l \in 1 .. k /\ i - l < j - l
      BY <1>2, <1>4, <1>8, <2>2
    <3>2. rows[i] = s[i - l] /\ rows[j] = s[j - l]
      BY <1>2, <1>4, <1>6, <1>8, <2>2
    <3>3. QED
      BY <1>2, <3>1, <3>2
  <2>3. CASE i <= l /\ j > l
    <3>1. i \in 1 .. l /\ l > 0 /\ j - l \in 1 .. k
      BY <1>2, <1>4, <1>8, <2>3
    <3>2. rows[i] = old[i] /\ rows[j] = s[j - l]
      <4>1. rows[i] = old[i]
        BY <1>7, <3>1
      <4>2. ~ (j <= l)
        BY <1>2, <1>4, <2>3
      <4>3. QED
        BY <1>6, <1>8, <4>1, <4>2
    <3>3. old[i].id >= old[l].id /\ old[i].id \in Nat /\ old[l].id \in Nat
      <4>1. l \in 1 .. l
        BY <1>4, <3>1
      <4>2. i = l \/ i < l
        BY <1>4, <3>1
      <4>3. QED
        BY <1>4, <1>5, <3>1, <4>1, <4>2
    <3>4. s[j - l] \in items /\ s[j - l].id < old[l].id /\ s[j - l].id \in Nat
      BY <1>1, <1>2, <1>5, <3>1
    <3>5. QED
      BY <3>2, <3>3, <3>4
  <2>4. QED
    BY <1>2, <1>4, <1>8, <2>1, <2>2, <2>3
<1>9. ASSUME cursor # None
      PROVE  /\ k > 0 /\ s[k] \in items /\ cursor = s[k].id /\ cursor \in Nat
             /\ l + k \in 1 .. l + k /\ rows[l + k] = s[k]
  <2>1. /\ \E x \in items : x.id = cursor
        /\ \A x \in items : cursor <= x.id
    BY <1>9, NextBeforeIs DEF cursor
  <2>2. PICK i \in 1 .. k : s[i].id = cursor
    BY <1>2, <2>1
  <2>3. k > 0 /\ k \in 1 .. k
    BY <1>2, <2>2
  <2>4. s[k] \in items /\ s[i] \in items
    BY <1>2, <2>3
  <2>5. s[k].id >= cursor /\ (i < k => s[i].id > s[k].id)
    BY <1>2, <2>1, <2>3, <2>4
  <2>6. i = k
    BY <1>1, <1>2, <2>2, <2>4, <2>5
  <2>7. k + l \in 1 .. l + k /\ rows[k + l] = s[k] /\ k + l = l + k
    BY <1>2, <1>4, <1>7, <2>3
  <2>8. QED
    BY <1>1, <2>2, <2>3, <2>4, <2>6, <2>7
<1>10. cursor # None => rows # <<>> /\ cursor = rows[Len(rows)].id
  <2> SUFFICES ASSUME cursor # None PROVE rows # <<>> /\ cursor = rows[Len(rows)].id
    OBVIOUS
  <2>1. Len(rows) > 0
    BY <1>2, <1>4, <1>6, <1>9
  <2>2. rows # <<>>
    BY <2>1
  <2>3. QED
    BY <1>6, <1>9, <2>2
<1>11. ASSUME NEW x \in Selected(pager.first \cap tables[pager.view.table], pager.view),
              cursor = None \/ x.id >= cursor
       PROVE  \E i \in 1 .. l + k : rows[i] = x
  <2>1. \/ x \in items
        \/ pager.before # None /\ x.id >= pager.before
        \/ k = n /\ \A y \in items : y.id > x.id
    BY DEF Page, k
  <2>2. CASE x \in items
    BY <1>2, <1>6, <1>7, <2>2
  <2>3. CASE pager.before # None /\ x.id >= pager.before
    <3>1. old # <<>> /\ x.id >= old[l].id
      BY <1>4, <1>5, <2>3
    <3>2. x \in Range(old)
      BY <3>1 DEF PagingExact, old, l, PagerKnows
    <3>3. DOMAIN old = 1 .. l
      BY <1>4 DEF l
    <3>4. PICK i \in 1 .. l : old[i] = x
      BY <3>2, <3>3 DEF Range
    <3>5. QED
      BY <1>6, <1>7, <3>4
  <2>4. CASE k = n /\ \A y \in items : y.id > x.id
    <3>1. x.id \in Nat
      BY PagerIsTyped DEF Selected, Row
    <3>2. cursor # None
      <4>1. items # {}
        <5>1. 1 \in 1 .. k
          BY <1>2, <2>4
        <5>2. QED
          BY <1>2, <5>1
      <4>2. QED
        BY <2>4, <4>1, NextBeforeIs DEF cursor, k
    <3>3. s[k] \in items /\ cursor = s[k].id /\ cursor \in Nat
      BY <1>9, <3>2
    <3>4. QED
      BY <1>11, <2>4, <3>1, <3>2, <3>3
  <2>5. QED
    BY <2>1, <2>2, <2>3, <2>4
<1>12. /\ rows \in Seq(Row)
       /\ \A i, j \in 1 .. Len(rows) : i < j => rows[i].id > rows[j].id
       /\ cursor # None => rows # <<>> /\ cursor = rows[Len(rows)].id
       /\ \A x \in Selected(pager.first \cap tables[pager.view.table], pager.view) :
             cursor = None \/ x.id >= cursor => \E i \in 1 .. Len(rows) : rows[i] = x
  BY <1>6, <1>8, <1>10, <1>11
<1>13. QED
  BY <1>12 DEF Exact, rows, s, old, cursor

\* A page that is read.
LEMMA PageRead ==
    ASSUME RowsNumbered, RequestsKnow, PagerKnows, pager.stage = "waiting"
    PROVE  Page(ListPage(pager.view, pager.before, Clamped(pager.limit)), Clamped(pager.limit))
<1> DEFINE t == pager.view.table
           cursor == pager.before
           n == Clamped(pager.limit)
           S == Before(Selected(tables[t], pager.view), cursor)
           page == {x \in S : Cardinality({y \in S : y.id > x.id}) < n}
<1>1. t \in Tables /\ n \in Nat \ {0} /\ cursor \in Nat \cup {None}
  BY PagerIsTyped, ClampedIs
<1>2. PICK b \in Nat : \A x \in tables[t] : x.id <= b
  BY <1>1, IdsAre
<1>3. \A x \in tables[t] : x.id \in Nat /\ x.id > 0 /\ x.id <= b
  BY <1>1, <1>2, IdsAre
<1>4. \A x, y \in tables[t] : x.id = y.id => x = y
  BY <1>1 DEF RowsNumbered
<1>5. S \subseteq tables[t] /\ \A x \in S : cursor # None => x.id < cursor
  BY DEF Before, Selected
<1>6. ASSUME NEW x \in Selected(pager.first \cap tables[t], pager.view)
      PROVE  x \in S \/ (cursor # None /\ x.id >= cursor)
  <2>1. x \in Selected(tables[t], pager.view) /\ x \in tables[t]
    BY DEF Selected
  <2>2. x.id \in Nat
    BY <1>3, <2>1
  <2>3. QED
    BY <1>1, <2>1, <2>2 DEF Before
<1> HIDE DEF S, t, n, cursor
<1>7. /\ IsFiniteSet(S) /\ page \subseteq S
      /\ Cardinality(page) <= n
      /\ \A x \in S : x \notin page => Cardinality(page) = n /\ \A y \in page : y.id > x.id
  <2>1. /\ \A x \in S : x.id \in Nat /\ x.id <= b
        /\ \A x, y \in S : x.id = y.id => x = y
    BY <1>3, <1>4, <1>5
  <2>2. n \in Nat
    BY <1>1
  <2> HIDE DEF page
  <2>3. QED
    BY <1>2, <2>1, <2>2, NewestOf DEF page
<1> HIDE DEF page
<1>8. IsFiniteSet(page)
  BY <1>7, FS_Subset
<1>9. /\ \A x \in page : x.id > 0 /\ (cursor # None => x.id < cursor)
      /\ \A x, y \in page : x.id = y.id => x = y
  BY <1>3, <1>4, <1>5, <1>7
<1>10. \A x \in Selected(pager.first \cap tables[t], pager.view) :
          \/ x \in page
          \/ cursor # None /\ x.id >= cursor
          \/ Cardinality(page) = n /\ \A y \in page : y.id > x.id
  BY <1>6, <1>7
<1>11. Page(page, n)
  BY <1>7, <1>8, <1>9, <1>10 DEF Page, cursor, t
<1>12. page = ListPage(pager.view, pager.before, Clamped(pager.limit))
  BY DEF ListPage, Newest, page, S, n, t, cursor
<1>13. QED
  BY <1>11, <1>12 DEF n

\* A page stays as exact while its client waits for it.
LEMMA PageStays ==
    ASSUME pager' = pager, Page(reqs'[pager.req].seen, Clamped(pager.limit)),
           pager.first \cap tables'[pager.view.table] \subseteq tables[pager.view.table]
    PROVE  PageIsExact'
<1> DEFINE items == reqs'[pager.req].seen
           n == Clamped(pager.limit)
<1>1. /\ \A x \in items : x.id > 0 /\ (pager.before # None => x.id < pager.before)
      /\ \A x, y \in items : x.id = y.id => x = y
      /\ IsFiniteSet(items) /\ Cardinality(items) <= n
      /\ \A x \in Selected(pager.first \cap tables[pager.view.table], pager.view) :
            \/ x \in items
            \/ pager.before # None /\ x.id >= pager.before
            \/ Cardinality(items) = n /\ \A y \in items : y.id > x.id
  BY DEF Page
<1>2. Selected(pager.first \cap tables'[pager.view.table], pager.view)
        \subseteq Selected(pager.first \cap tables[pager.view.table], pager.view)
  BY DEF Selected
<1>3. \A x \in Selected(pager.first \cap tables'[pager.view.table], pager.view) :
            \/ x \in items
            \/ pager.before # None /\ x.id >= pager.before
            \/ Cardinality(items) = n /\ \A y \in items : y.id > x.id
  BY <1>1, <1>2
<1>4. QED
  BY <1>1, <1>3 DEF PageIsExact, Page, Clamped

\* How a step takes the client along, with the request `r` that is now `q`.
Stays(r, q) == pager' = pager /\ (NoPage(r, q) \/ ReadPage(r))

Asks(r, q) == q.stage = "handling" /\ q.reply = None /\ (Open(r) \/ AskNext(r))

LEMMA PagerStep ==
    ASSUME RowsNumbered, RequestsKnow, NewestKept, PagerKnows, PageIsExact, [RecordsNext]_vars
    PROVE  \/ UNCHANGED vars
           \/ \E r \in Reqs : \E q : Shape(r, q) /\ (Stays(r, q) \/ Asks(r, q))
           \/ \E r \in Reqs : TakePage(r)
<1>1. ASSUME NEW r \in Reqs, RequestStep(r) PROVE \E q : Shape(r, q) /\ Stays(r, q)
  BY <1>1, GoesOn, GoesAreShapes DEF Stays
<1>2. ASSUME NEW r \in Reqs, NEW kind \in {"save", "drop"}, Arrive(r, kind)
      PROVE  \E q : Shape(r, q) /\ Stays(r, q)
  <2>1. pager' = pager /\ Arrives(r, kind, TRUE)
    BY <1>2 DEF Arrive
  <2>2. PICK q : Shape(r, q) /\ q.reply = None
    BY <2>1, ArriveStep
  <2>3. NoPage(r, q)
    BY <2>2, ConstantsAre DEF NoPage, NoNewPage, Statuses
  <2>4. QED
    BY <2>1, <2>2, <2>3 DEF Stays
<1>3. ASSUME NEW r \in Reqs, Open(r) \/ AskNext(r) PROVE \E q : Shape(r, q) /\ Asks(r, q)
  BY <1>3, OpenStep, AskNextStep DEF Asks
<1>4. QED
  BY <1>1, <1>2, <1>3 DEF RecordsNext

\* A page that is taken, with what the client has then.
LEMMA PageTaken ==
    ASSUME RequestsKnow, PagerKnows, PageIsExact, PagingExact, NEW r \in Reqs, TakePage(r)
    PROVE  /\ pager.stage = "waiting" /\ pager.req = r /\ UNCHANGED <<tables, written>>
           /\ \/ PagerIs(pager', "failed", pager.view, pager.limit, pager.before, pager.rows, pager.left,
                         r, pager.first, pager.full)
              \/ \E cursor, rows, left, stage :
                    /\ PagerIs(pager', stage, pager.view, pager.limit, cursor, rows, left, r, pager.first,
                               cursor = None)
                    /\ Exact(rows, cursor)
                    /\ stage = "ended" \/ (stage = "reading" /\ cursor # None /\ left > 0)
<1>1. reqs[r].seen \in SUBSET Row /\ Clamped(pager.limit) \in Nat \ {0}
  BY RequestIs, FieldsAre, PagerIsTyped, ClampedIs
<1>2. ASSUME pager.stage = "waiting", Page(reqs[r].seen, Clamped(pager.limit))
      PROVE  Exact(pager.rows \o NewestFirst(reqs[r].seen), NextBefore(reqs[r].seen, Clamped(pager.limit)))
  BY <1>1, <1>2, RowsAfter
<1>3. /\ pager.stage = "waiting" /\ pager.req = r /\ UNCHANGED <<tables, written>>
      /\ \/ PagerIs(pager', "failed", pager.view, pager.limit, pager.before, pager.rows, pager.left,
                    r, pager.first, pager.full)
         \/ \E cursor, left, stage :
               /\ PagerIs(pager', stage, pager.view, pager.limit, cursor,
                          pager.rows \o NewestFirst(reqs[r].seen), left, r, pager.first, cursor = None)
               /\ Page(reqs[r].seen, Clamped(pager.limit))
               /\ cursor = NextBefore(reqs[r].seen, Clamped(pager.limit))
               /\ stage = "ended" \/ (stage = "reading" /\ cursor # None /\ left > 0)
  BY TakenStep, Zenon
<1>4. ASSUME NEW cursor, NEW left, NEW stage,
             PagerIs(pager', stage, pager.view, pager.limit, cursor,
                     pager.rows \o NewestFirst(reqs[r].seen), left, r, pager.first, cursor = None),
             Page(reqs[r].seen, Clamped(pager.limit)),
             cursor = NextBefore(reqs[r].seen, Clamped(pager.limit)),
             stage = "ended" \/ (stage = "reading" /\ cursor # None /\ left > 0)
      PROVE  \E c, rows, n, s :
                /\ PagerIs(pager', s, pager.view, pager.limit, c, rows, n, r, pager.first, c = None)
                /\ Exact(rows, c)
                /\ s = "ended" \/ (s = "reading" /\ c # None /\ n > 0)
  <2>1. Exact(pager.rows \o NewestFirst(reqs[r].seen), cursor)
    BY <1>2, <1>3, <1>4, Zenon
  <2>2. QED
    BY <1>4, <2>1, Zenon
<1>5. QED
  BY <1>3, <1>4, Zenon

LEMMA PagerKnowsStep ==
    ASSUME RowsNumbered, RequestsKnow, NewestKept, PagerKnows, PageIsExact, PagingExact,
           [RecordsNext]_vars
    PROVE  PagerKnows'
<1>1. None \notin View /\ None \notin Nat /\ MaxPages > 0 /\ None \notin Reqs
  BY ConstantsAre, ReqsAre
<1>2. CASE pager' = pager
  BY <1>2 DEF PagerKnows
<1>3. ASSUME NEW r \in Reqs, Open(r) PROVE PagerKnows'
  <2>1. PICK a \in Asked :
            PagerIs(pager', "waiting", a.view, a.limit, None, <<>>, MaxPages, r,
                    tables[a.view.table], FALSE)
    BY <1>3, OpenStep
  <2>2. a.view # None /\ (a.view.audited \/ a.limit <= MaxPage)
    BY <1>1, AskedAre
  <2>3. QED
    BY <1>1, <2>1, <2>2 DEF PagerIs, PagerKnows
<1>4. ASSUME NEW r \in Reqs, AskNext(r) PROVE PagerKnows'
  <2>1. /\ pager.stage = "reading"
        /\ PagerIs(pager', "waiting", pager.view, pager.limit, pager.before, pager.rows, pager.left,
                   r, pager.first, pager.full)
    BY <1>4, AskNextStep
  <2>2. QED
    BY <1>1, <2>1 DEF PagerIs, PagerKnows
<1>5. ASSUME NEW r \in Reqs, TakePage(r) PROVE PagerKnows'
  <2>1. pager.stage = "waiting" /\ pager.req = r
    BY <1>5, PageTaken
  <2>2. CASE PagerIs(pager', "failed", pager.view, pager.limit, pager.before, pager.rows, pager.left,
                     r, pager.first, pager.full)
    BY <2>1, <2>2 DEF PagerIs, PagerKnows
  <2>3. ASSUME NEW cursor, NEW rows, NEW left, NEW stage,
               PagerIs(pager', stage, pager.view, pager.limit, cursor, rows, left, r, pager.first,
                       cursor = None),
               Exact(rows, cursor), stage = "ended" \/ (stage = "reading" /\ cursor # None /\ left > 0)
        PROVE  PagerKnows'
    BY <2>1, <2>3 DEF PagerIs, PagerKnows, Exact
  <2>4. QED
    BY <1>5, <2>2, <2>3, PageTaken
<1>6. QED
  BY <1>2, <1>3, <1>4, <1>5, PagerStep DEF vars, Stays, Asks

LEMMA FirstIsPastKept ==
    ASSUME RowsNumbered, RequestsKnow, NewestKept, RowsFollowRequests, PagerKnows, FirstIsPast, PageIsExact,
           PagingExact, [RecordsNext]_vars
    PROVE  FirstIsPast'
<1>1. CASE UNCHANGED vars
  BY <1>1 DEF vars, FirstIsPast
<1>2. ASSUME NEW r \in Reqs, NEW q, Shape(r, q), pager'.view = pager.view, pager'.first = pager.first
      PROVE  FirstIsPast'
  <2>1. CASE pager.view = None
    BY <1>2, <2>1 DEF FirstIsPast
  <2>2. CASE pager.view # None
    BY <1>2, <2>2, FirstIsPastStep
  <2>3. QED
    BY <2>1, <2>2
<1>3. ASSUME NEW r \in Reqs, NEW q, Shape(r, q), Open(r) PROVE FirstIsPast'
  <2>1. PICK a \in Asked :
            PagerIs(pager', "waiting", a.view, a.limit, None, <<>>, MaxPages, r,
                    tables[a.view.table], FALSE)
    BY <1>3, OpenStep
  <2>2. reqs[r].stage = "none"
    BY <1>3, OpenStep
  <2> DEFINE t == a.view.table
  <2>3. pager'.view = a.view /\ pager'.first = tables[t] /\ t \in Tables
    BY <2>1, AskedAre DEF PagerIs, View
  <2>4. Rows(r, q) /\ reqs' = [reqs EXCEPT ![r] = q]
    BY <1>3 DEF Shape
  <2>5. \A s \in Reqs \ {r} : reqs'[s] = reqs[s]
    BY <2>4, OneRequest
  <2>6. ASSUME NEW x \in tables[t], t \in LogNames PROVE x.id <= written'[t]
    <3>1. x.id \in Nat /\ x.id <= written[t]
      BY <2>3, <2>6, IdsAre DEF RowsNumbered
    <3>2. written[t] \in Nat /\ written'[t] \in Nat /\ written[t] <= written'[t]
      BY <2>4, <2>6, RowsAre
    <3>3. QED
      BY <3>1, <3>2
  <2>7. ASSUME NEW x \in tables[t], t = "chats", x.req \in Reqs
        PROVE  reqs'[x.req].stage \notin {"none", "handling"}
    <3>1. reqs[x.req].stage \notin {"none", "handling"}
      BY <2>3, <2>7 DEF RowsFollowRequests
    <3>2. QED
      BY <2>2, <2>5, <2>7, <3>1
  <2>8. QED
    BY <2>3, <2>6, <2>7 DEF FirstIsPast
<1>4. ASSUME NEW r \in Reqs, NEW q, Shape(r, q), Stays(r, q) PROVE FirstIsPast'
  BY <1>2, <1>4 DEF Stays
<1>5. ASSUME NEW r \in Reqs, NEW q, Shape(r, q), AskNext(r) PROVE FirstIsPast'
  BY <1>2, <1>5, AskNextStep DEF PagerIs
<1>6. ASSUME NEW r \in Reqs, TakePage(r) PROVE FirstIsPast'
  <2>1. PICK q : Shape(r, q)
    BY <1>6, TakeStep
  <2>2. pager'.view = pager.view /\ pager'.first = pager.first
    BY <1>6, PageTaken DEF PagerIs
  <2>3. QED
    BY <1>2, <2>1, <2>2
<1>7. QED
  BY <1>1, <1>3, <1>4, <1>5, <1>6, PagerStep DEF Asks

LEMMA PageIsExactStep ==
    ASSUME RowsNumbered, RequestsKnow, NewestKept, PagerKnows, FirstIsPast, PageIsExact, PagingExact,
           [RecordsNext]_vars
    PROVE  PageIsExact'
<1>1. CASE UNCHANGED vars
  BY <1>1 DEF vars, PageIsExact, Page
<1>2. ASSUME NEW r \in Reqs, NEW q, Shape(r, q), Stays(r, q), pager.stage = "waiting",
             reqs'[pager.req].reply = "ok"
      PROVE  PageIsExact'
  <2>1. pager.req \in Reqs /\ pager.view # None /\ pager' = pager
    BY <1>2 DEF PagerKnows, Pager, Stays
  <2>2. Rows(r, q) /\ reqs' = [reqs EXCEPT ![r] = q]
    BY <1>2 DEF Shape
  <2>3. reqs'[r] = q /\ \A s \in Reqs \ {r} : reqs'[s] = reqs[s]
    BY <2>2, OneRequest
  <2>4. pager.first \cap tables'[pager.view.table] \subseteq tables[pager.view.table]
    BY <2>1, <2>2, FirstOnlyGoes
  <2>5. Page(reqs'[pager.req].seen, Clamped(pager.limit))
    <3>1. CASE r # pager.req \/ NoPage(r, q)
      <4>1. ~ (r = pager.req /\ reqs[r].stage = "handling" /\ reqs[r].kind # "list")
        BY <1>2 DEF RequestsKnow
      <4>2. r = pager.req => NoNewPage(reqs[r], q)
        BY <3>1, <4>1 DEF NoPage
      <4>3. reqs[pager.req].reply = "ok" /\ reqs'[pager.req].seen = reqs[pager.req].seen
        BY <1>2, <2>1, <2>3, <4>2 DEF NoNewPage
      <4>4. QED
        BY <1>2, <4>3 DEF PageIsExact
    <3>2. CASE r = pager.req /\ ReadPage(r)
      <4>1. PICK p : /\ reqs' = [reqs EXCEPT ![r] = p]
                     /\ p.seen = ListPage(pager.view, pager.before, Clamped(pager.limit))
        BY <3>2, PageStep DEF Goes
      <4>2. reqs'[r] = p
        BY <4>1, OneRequest
      <4>3. QED
        BY <1>2, <3>2, <4>1, <4>2, PageRead
    <3>3. QED
      BY <1>2, <3>1, <3>2 DEF Stays
  <2>6. QED
    BY <2>1, <2>4, <2>5, PageStays
<1>3. ASSUME NEW r \in Reqs, NEW q, Shape(r, q), Stays(r, q) PROVE PageIsExact'
  <2>1. pager' = pager
    BY <1>3 DEF Stays
  <2>2. CASE pager.stage = "waiting" /\ reqs'[pager.req].reply = "ok"
    BY <1>2, <1>3, <2>2
  <2>3. CASE ~ (pager.stage = "waiting" /\ reqs'[pager.req].reply = "ok")
    BY <2>1, <2>3 DEF PageIsExact
  <2>4. QED
    BY <2>2, <2>3
<1>4. ASSUME NEW r \in Reqs, NEW q, Shape(r, q), Asks(r, q) PROVE PageIsExact'
  <2>1. pager'.req = r
    BY <1>4, OpenStep, AskNextStep DEF Asks, PagerIs
  <2>2. reqs'[r] = q /\ q.reply = None
    BY <1>4, OneRequest DEF Shape, Asks
  <2>3. QED
    BY <2>1, <2>2, ConstantsAre DEF PageIsExact, Statuses
<1>5. ASSUME NEW r \in Reqs, TakePage(r) PROVE PageIsExact'
  <2>1. pager'.stage # "waiting"
    BY <1>5, PageTaken DEF PagerIs
  <2>2. QED
    BY <2>1 DEF PageIsExact
<1>6. QED
  BY <1>1, <1>3, <1>4, <1>5, PagerStep

\* The rows at the start that are still there are fewer, and the client has the rows it had.
LEMMA PagingStays ==
    ASSUME PagingExact, pager'.rows = pager.rows, pager'.view = pager.view, pager'.first = pager.first,
           pager'.full = pager.full,
           pager.view # None =>
               pager.first \cap tables'[pager.view.table] \subseteq tables[pager.view.table]
    PROVE  PagingExact'
<1>1. ASSUME pager.view # None
      PROVE  Selected(pager.first \cap tables'[pager.view.table], pager.view)
               \subseteq Selected(pager.first \cap tables[pager.view.table], pager.view)
  BY <1>1 DEF Selected
<1>2. QED
  BY <1>1 DEF PagingExact

LEMMA PagingExactStep ==
    ASSUME RowsNumbered, RequestsKnow, NewestKept, PagerKnows, FirstIsPast, PageIsExact, PagingExact,
           [RecordsNext]_vars
    PROVE  PagingExact'
<1>1. CASE UNCHANGED vars
  BY <1>1 DEF vars, PagingExact
<1>2. ASSUME NEW r \in Reqs, NEW q, Shape(r, q), Stays(r, q) \/ AskNext(r) PROVE PagingExact'
  <2>1. /\ pager'.rows = pager.rows /\ pager'.view = pager.view /\ pager'.first = pager.first
        /\ pager'.full = pager.full
    BY <1>2, AskNextStep DEF Stays, PagerIs
  <2>2. pager.view # None =>
            pager.first \cap tables'[pager.view.table] \subseteq tables[pager.view.table]
    BY <1>2, FirstOnlyGoes DEF Shape
  <2>3. QED
    BY <2>1, <2>2, PagingStays
<1>3. ASSUME NEW r \in Reqs, Open(r) PROVE PagingExact'
  <2>1. pager'.rows = <<>> /\ pager'.full = FALSE
    BY <1>3, OpenStep DEF PagerIs
  <2>2. DOMAIN pager'.rows = {}
    BY <2>1
  <2>3. QED
    BY <2>1, <2>2 DEF PagingExact
<1>4. ASSUME NEW r \in Reqs, TakePage(r) PROVE PagingExact'
  <2>1. UNCHANGED tables
    BY <1>4, PageTaken
  <2>2. CASE PagerIs(pager', "failed", pager.view, pager.limit, pager.before, pager.rows, pager.left,
                     r, pager.first, pager.full)
    BY <2>1, <2>2, PagingStays DEF PagerIs
  <2>3. ASSUME NEW cursor, NEW rows, NEW left, NEW stage,
               PagerIs(pager', stage, pager.view, pager.limit, cursor, rows, left, r, pager.first,
                       cursor = None),
               Exact(rows, cursor)
        PROVE  PagingExact'
    <3>1. /\ pager'.rows = rows /\ pager'.view = pager.view /\ pager'.first = pager.first
          /\ pager'.full = (cursor = None)
      BY <2>3 DEF PagerIs
    <3>2. rows \in Seq(Row) /\ DOMAIN rows = 1 .. Len(rows)
      BY <2>3 DEF Exact
    <3>3. \A i, j \in DOMAIN rows : i < j => rows[i].id > rows[j].id
      BY <2>3, <3>2 DEF Exact
    <3>4. ASSUME NEW x \in Selected(pager.first \cap tables[pager.view.table], pager.view),
                 cursor = None \/ (rows # <<>> /\ x.id >= rows[Len(rows)].id)
          PROVE  x \in Range(rows)
      <4>1. PICK i \in 1 .. Len(rows) : rows[i] = x
        BY <2>3, <3>4 DEF Exact
      <4>2. QED
        BY <3>2, <4>1 DEF Range
    <3>5. QED
      BY <2>1, <3>1, <3>3, <3>4 DEF PagingExact
  <2>4. QED
    BY <1>4, <2>2, <2>3, PageTaken
<1>5. QED
  BY <1>1, <1>2, <1>3, <1>4, PagerStep DEF Asks

-----------------------------------------------------------------------------
(* The start.                                                              *)

\* Ids that have a bound have a highest.
LEMMA HighestIs ==
    ASSUME NEW S \in SUBSET Row, NEW b \in Nat, \A x \in S : x.id <= b
    PROVE  \E max \in {x.id : x \in S} \cup {0} : \A x \in S : x.id <= max
<1> DEFINE I == {x.id : x \in S}
<1>1. I \in SUBSET Nat /\ \A i \in I : i <= b
  BY DEF Row
<1>2. CASE I = {}
  BY <1>2
<1>3. CASE I # {}
  <2> HIDE DEF I
  <2>1. Max(I) \in I /\ \A i \in I : i <= Max(I)
    BY <1>1, <1>3, MaxOfBounded
  <2> USE DEF I
  <2>2. QED
    BY <2>1
<1>4. QED
  BY <1>2, <1>3

\* The rows there are already, by table.
LEMMA InitRows ==
    ASSUME RecordsInit
    PROVE  /\ \A x \in tables["chats"] : \E n \in 1 .. OldReqs :
                  x = NewRow(n, OldChats[n][1], OldChats[n][2], n)
           /\ \A x \in tables["events"] : \E n \in 1 .. OldReqs :
                  \/ x = NewRow(2 * n - 1, None, "received", n)
                  \/ x = NewRow(2 * n, None, "finished", n)
           /\ \A x \in tables["requests"] : \E n \in 1 .. OldReqs : x = NewRow(n, None, "ok", n)
           /\ \A n \in 1 .. OldReqs :
                 /\ 2 * n - 1 > 2 * OldReqs - Keep => 2 * n - 1 \in IdsOf("events")
                 /\ 2 * n > 2 * OldReqs - Keep => 2 * n \in IdsOf("events")
                 /\ n > OldReqs - Keep => n \in IdsOf("requests")
           /\ DOMAIN tables = Tables
           /\ written = [events |-> 2 * OldReqs, requests |-> OldReqs]
<1> DEFINE received(n) == NewRow(2 * n - 1, None, "received", n)
           finished(n) == NewRow(2 * n, None, "finished", n)
           request(n) == NewRow(n, None, "ok", n)
           events == {received(n) : n \in 1 .. OldReqs} \cup {finished(n) : n \in 1 .. OldReqs}
           requests == {request(n) : n \in 1 .. OldReqs}
<1>1. /\ tables["chats"] = {NewRow(n, OldChats[n][1], OldChats[n][2], n) : n \in 1 .. OldReqs}
      /\ tables["events"] = {x \in events : x.id > 2 * OldReqs - Keep}
      /\ tables["requests"] = {x \in requests : x.id > OldReqs - Keep}
      /\ DOMAIN tables = Tables /\ written = [events |-> 2 * OldReqs, requests |-> OldReqs]
  BY DEF RecordsInit, Kept, Tables
<1>2. \A n \in 1 .. OldReqs : /\ received(n).id = 2 * n - 1 /\ received(n) \in events
                              /\ finished(n).id = 2 * n /\ finished(n) \in events
                              /\ request(n).id = n /\ request(n) \in requests
  BY DEF NewRow
<1>3. /\ \A x \in events : \E n \in 1 .. OldReqs : x = received(n) \/ x = finished(n)
      /\ \A x \in requests : \E n \in 1 .. OldReqs : x = request(n)
  OBVIOUS
<1> HIDE DEF events, requests, received, finished, request
<1>4. ASSUME NEW n \in 1 .. OldReqs
      PROVE  /\ 2 * n - 1 > 2 * OldReqs - Keep => 2 * n - 1 \in IdsOf("events")
             /\ 2 * n > 2 * OldReqs - Keep => 2 * n \in IdsOf("events")
             /\ n > OldReqs - Keep => n \in IdsOf("requests")
  <2>1. /\ 2 * n - 1 > 2 * OldReqs - Keep => received(n) \in tables["events"]
        /\ 2 * n > 2 * OldReqs - Keep => finished(n) \in tables["events"]
        /\ n > OldReqs - Keep => request(n) \in tables["requests"]
    BY <1>1, <1>2
  <2>2. received(n).id = 2 * n - 1 /\ finished(n).id = 2 * n /\ request(n).id = n
    BY <1>2
  <2>3. QED
    BY <2>1, <2>2 DEF IdsOf
<1>5. \A x \in tables["chats"] : \E n \in 1 .. OldReqs :
          x = NewRow(n, OldChats[n][1], OldChats[n][2], n)
  BY <1>1
<1>6. QED
  BY <1>1, <1>3, <1>4, <1>5 DEF received, finished, request

\* The same with the fields the properties are about.
LEMMA InitRowsAre ==
    ASSUME RecordsInit, NEW t \in Tables, NEW x \in tables[t]
    PROVE  /\ x \in Row /\ x.id > 0 /\ x.req \in 1 .. OldReqs
           /\ x.thread \in ThreadsOf(t) /\ x.what \in Whats[t]
           /\ t = "events" => \/ x.id = 2 * x.req - 1 /\ x.what = "received"
                              \/ x.id = 2 * x.req /\ x.what = "finished"
           /\ t # "events" => x.id = x.req
           /\ t \in LogNames => x.id <= written[t] /\ x.thread = None
           /\ t = "chats" => x.thread = OldChats[x.req][1] /\ x.what = OldChats[x.req][2]
<1>1. /\ OldReqs \in Nat /\ 1 .. OldReqs \subseteq 1 .. MaxReqs /\ OldReqs = Len(OldChats)
      /\ None \in Threads \cup {None}
  BY ConstantsAre, ReqsAre DEF OldReqs
<1>2. \A n \in 1 .. OldReqs : OldChats[n][1] \in Threads /\ OldChats[n][2] \in {"success", "ai_error"}
  BY <1>1, RecordsAssumption
<1>3. CASE t = "chats"
  <2>1. PICK n \in 1 .. OldReqs : x = NewRow(n, OldChats[n][1], OldChats[n][2], n)
    BY <1>3, InitRows
  <2>2. x.id = n /\ x.req = n /\ x.thread = OldChats[n][1] /\ x.what = OldChats[n][2]
    BY <2>1 DEF NewRow
  <2>3. x.thread \in ThreadsOf(t) /\ x.what \in Whats[t] /\ t \notin LogNames
    BY <1>2, <1>3, <2>2, WhatsAre DEF ThreadsOf
  <2>4. x \in Row
    BY <1>1, <1>2, <2>1, <2>2, <2>3, WhatsAre DEF NewRow, Row
  <2>5. QED
    BY <1>3, <2>2, <2>3, <2>4
<1>4. CASE t = "events"
  <2>1. PICK n \in 1 .. OldReqs : \/ x = NewRow(2 * n - 1, None, "received", n)
                                  \/ x = NewRow(2 * n, None, "finished", n)
    BY <1>4, InitRows
  <2>2. /\ x.req = n /\ x.thread = None
        /\ (x.id = 2 * n - 1 /\ x.what = "received") \/ (x.id = 2 * n /\ x.what = "finished")
    BY <2>1 DEF NewRow
  <2>3. x.thread \in ThreadsOf(t) /\ x.what \in Whats[t]
    BY <1>4, <2>2, WhatsAre DEF ThreadsOf
  <2>4. x.id \in Nat /\ x.id > 0 /\ x.id <= 2 * OldReqs
    BY <1>1, <2>2
  <2>5. x \in Row
    BY <1>1, <1>4, <2>1, <2>2, <2>3, <2>4, WhatsAre DEF NewRow, Row
  <2>6. written[t] = 2 * OldReqs
    BY <1>4, InitRows
  <2>7. QED
    BY <1>4, <2>2, <2>3, <2>4, <2>5, <2>6
<1>5. CASE t = "requests"
  <2>1. PICK n \in 1 .. OldReqs : x = NewRow(n, None, "ok", n)
    BY <1>5, InitRows
  <2>2. x.id = n /\ x.req = n /\ x.thread = None /\ x.what = "ok"
    BY <2>1 DEF NewRow
  <2>3. x.thread \in ThreadsOf(t) /\ x.what \in Whats[t]
    BY <1>5, <2>2, WhatsAre DEF ThreadsOf, Statuses
  <2>4. x \in Row
    BY <1>1, <1>5, <2>1, <2>2, <2>3, WhatsAre DEF NewRow, Row
  <2>5. written[t] = OldReqs
    BY <1>5, InitRows
  <2>6. QED
    BY <1>1, <1>5, <2>2, <2>3, <2>4, <2>5
<1>6. QED
  BY <1>3, <1>4, <1>5, WhatsAre

LEMMA InitNumbered ==
    ASSUME RecordsInit
    PROVE  RowsNumbered /\ NewestKept
<1>1. OldReqs \in Nat /\ Keep \in Nat /\ Keep > 0
  BY ConstantsAre
<1>2. written = [events |-> 2 * OldReqs, requests |-> OldReqs] /\ LogNames = {"events", "requests"}
  BY InitRows, WhatsAre
<1>3. written \in [LogNames -> Nat]
  BY <1>1, <1>2
<1>4. \A t \in Tables : tables[t] \subseteq Row
  BY InitRowsAre
<1>5. tables \in [Tables -> SUBSET Row]
  <2>1. tables = [t \in Tables |-> tables[t]]
    BY DEF RecordsInit, Tables
  <2>2. QED
    BY <1>4, <2>1
<1>6. ASSUME NEW t \in Tables
      PROVE  /\ \A x \in tables[t] : x.id > 0 /\ x.thread \in ThreadsOf(t) /\ x.what \in Whats[t]
             /\ \A x, y \in tables[t] : x.id = y.id => x = y
             /\ \E max \in IdsOf(t) \cup {0} : \A x \in tables[t] : x.id <= max
  <2>1. \A x \in tables[t] : x.id > 0 /\ x.thread \in ThreadsOf(t) /\ x.what \in Whats[t]
    BY InitRowsAre
  <2>2. ASSUME NEW x \in tables[t], NEW y \in tables[t], x.id = y.id PROVE x = y
    <3>1. x \in Row /\ y \in Row /\ x.req \in 1 .. OldReqs /\ y.req \in 1 .. OldReqs
      BY InitRowsAre
    <3>2. /\ t = "events" => /\ \/ x.id = 2 * x.req - 1 /\ x.what = "received"
                                \/ x.id = 2 * x.req /\ x.what = "finished"
                             /\ \/ y.id = 2 * y.req - 1 /\ y.what = "received"
                                \/ y.id = 2 * y.req /\ y.what = "finished"
          /\ t # "events" => x.id = x.req /\ y.id = y.req
      BY InitRowsAre
    <3>3. x.req = y.req
      BY <1>1, <2>2, <3>1, <3>2
    <3>4. x.what = y.what /\ x.thread = y.thread
      <4>1. CASE t = "events"
        <5>1. x.what = y.what
          BY <1>1, <2>2, <3>1, <3>2, <4>1
        <5>2. x.thread = None /\ y.thread = None
          BY <4>1, InitRowsAre, WhatsAre
        <5>3. QED
          BY <5>1, <5>2
      <4>2. CASE t = "chats"
        BY <3>3, <4>2, InitRowsAre
      <4>3. CASE t = "requests"
        BY <3>3, <4>3, InitRows DEF NewRow
      <4>4. QED
        BY <4>1, <4>2, <4>3, WhatsAre
    <3>5. QED
      BY <2>2, <3>1, <3>3, <3>4 DEF Row
  <2>3. \A x \in tables[t] : x.id <= 2 * OldReqs
    BY <1>1, InitRowsAre
  <2>4. \E max \in {x.id : x \in tables[t]} \cup {0} : \A x \in tables[t] : x.id <= max
    <3>1. 2 * OldReqs \in Nat
      BY <1>1
    <3>2. QED
      BY <1>4, <2>3, <3>1, HighestIs
  <2>5. QED
    BY <2>1, <2>2, <2>4 DEF IdsOf
<1>7. \A t \in LogNames : t \in Tables /\ \A x \in tables[t] : x.id <= written[t]
  BY InitRowsAre, WhatsAre
<1>8. NewestKept
  <2>1. ASSUME NEW n \in 1 .. 2 * OldReqs, n > 2 * OldReqs - Keep PROVE n \in IdsOf("events")
    <3>1. PICK m \in 1 .. OldReqs : n = 2 * m \/ n = 2 * m - 1
      <4> DEFINE h == n \div 2
      <4>1. h \in Nat /\ (n = 2 * h \/ n = 2 * h + 1)
        BY <1>1
      <4> HIDE DEF h
      <4>2. CASE n = 2 * h
        <5>1. h \in 1 .. OldReqs
          BY <1>1, <4>1, <4>2
        <5>2. QED
          BY <4>2, <5>1
      <4>3. CASE n = 2 * h + 1
        <5>1. h + 1 \in 1 .. OldReqs /\ n = 2 * (h + 1) - 1
          BY <1>1, <4>1, <4>3
        <5>2. QED
          BY <5>1
      <4>4. QED
        BY <4>1, <4>2, <4>3
    <3>2. QED
      BY <2>1, <3>1, InitRows
  <2>2. ASSUME NEW n \in 1 .. OldReqs, n > OldReqs - Keep PROVE n \in IdsOf("requests")
    BY <2>2, InitRows
  <2>3. QED
    BY <1>2, <2>1, <2>2 DEF NewestKept
<1>9. RowsNumbered
  BY <1>3, <1>5, <1>6, <1>7 DEF RowsNumbered
<1>10. QED
  BY <1>8, <1>9

LEMMA InitRequests ==
    ASSUME RecordsInit
    PROVE  RequestsKnow /\ PagerKnows
<1>1. NoRequest \in Request
  BY DEF NoRequest, Request, InitialCode, Stage, Statuses
<1>2. /\ reqs = [r \in Reqs |-> NoRequest] /\ pager = NoPager /\ incidents = 0
      /\ NoRequest.stage = "none" /\ NoRequest.trim = None
      /\ NoPager.stage = "idle" /\ NoPager.before = None /\ ~ NoPager.full /\ NoPager.left = MaxPages
  BY DEF RecordsInit, NoRequest, NoPager
<1>3. MaxIncidents \in Nat /\ MaxPages \in Nat /\ MaxPages > 0
  BY ConstantsAre
<1>4. RequestsKnow
  BY <1>1, <1>2, <1>3 DEF RequestsKnow
<1>5. NoPager \in Pager
  <2>1. <<>> \in Seq(Row) /\ MaxPages \in 0 .. MaxPages /\ 1 \in Nat \ {0} /\ {} \in SUBSET Row
    BY <1>3
  <2>2. QED
    BY <2>1 DEF NoPager, Pager
<1>6. PagerKnows
  BY <1>2, <1>3, <1>5 DEF PagerKnows
<1>7. QED
  BY <1>4, <1>6

LEMMA InitIsInv ==
    ASSUME RecordsInit
    PROVE  RecordsInv
<1>1. \A t \in Tables : \A x \in tables[t] : x.req \notin Reqs
  BY InitRowsAre, ReqsAre
<1>2. "events" \in Tables /\ "requests" \in Tables /\ OldReqs \in Nat
  BY ConstantsAre, WhatsAre
<1>3. RowsFollowRequests
  BY <1>1 DEF RowsFollowRequests
<1>4. pager.view = None /\ pager.stage = "idle" /\ DOMAIN pager.rows = {}
  BY DEF RecordsInit, NoPager
<1>5. FirstIsPast /\ PageIsExact /\ PagingExact
  BY <1>4 DEF FirstIsPast, PageIsExact, PagingExact
<1>6. RecordedAsAnswered
  <2>1. ASSUME NEW x \in tables["events"], NEW y \in tables["events"], x.req = y.req, x.id < y.id
        PROVE  x.what # "finished" /\ y.what # "received"
    <3>1. x.req \in 1 .. OldReqs
      BY <1>2, InitRowsAre
    <3>2. /\ (x.id = 2 * x.req - 1 /\ x.what = "received") \/ (x.id = 2 * x.req /\ x.what = "finished")
          /\ (y.id = 2 * y.req - 1 /\ y.what = "received") \/ (y.id = 2 * y.req /\ y.what = "finished")
      BY <1>2, InitRowsAre
    <3>3. x.id = 2 * x.req - 1 /\ y.id = 2 * x.req
      BY <1>2, <2>1, <3>1, <3>2
    <3>4. QED
      BY <1>2, <2>1, <3>1, <3>2, <3>3
  <2>2. QED
    BY <1>1, <1>2, <2>1 DEF RecordedAsAnswered
<1>7. QED
  BY <1>3, <1>5, <1>6, InitNumbered, InitRequests DEF RecordsInv

-----------------------------------------------------------------------------
(* The theorems.                                                           *)

\* Every step keeps the inductive invariant.
LEMMA StepKeepsInv ==
    ASSUME RecordsInv, [RecordsNext]_vars
    PROVE  RecordsInv'
<1>1. /\ RowsNumbered /\ RequestsKnow /\ RowsFollowRequests /\ PagerKnows /\ FirstIsPast
      /\ PageIsExact /\ NewestKept /\ PagingExact /\ RecordedAsAnswered
  BY DEF RecordsInv
<1>2. RowsNumbered' /\ NewestKept' /\ RowsFollowRequests' /\ RecordedAsAnswered'
  <2>1. CASE UNCHANGED vars
    BY <1>1, <2>1 DEF vars, RowsNumbered, NewestKept, RowsFollowRequests, RecordedAsAnswered, IdsOf
  <2>2. ASSUME NEW r \in Reqs, NEW q, Shape(r, q)
        PROVE  RowsNumbered' /\ NewestKept' /\ RowsFollowRequests' /\ RecordedAsAnswered'
    <3>1. Rows(r, q)
      BY <2>2 DEF Shape
    <3>2. QED
      BY <1>1, <2>2, <3>1, RowsNumberedStep, NewestKeptStep, RowsFollowStep, RecordedStep
  <2>3. QED
    BY <1>1, <2>1, <2>2, StepShape
<1>3. RequestsKnow'
  BY <1>1, RequestsKnowStep
<1>4. PagerKnows' /\ FirstIsPast'
  BY <1>1, PagerKnowsStep, FirstIsPastKept
<1>5. PageIsExact' /\ PagingExact'
  BY <1>1, PageIsExactStep, PagingExactStep
<1>6. QED
  BY <1>2, <1>3, <1>4, <1>5 DEF RecordsInv

\* The inductive invariant holds in every reachable state.
THEOREM RecordsInvariant == RecordsSpec => []RecordsInv
BY InitIsInv, StepKeepsInv, PTL DEF RecordsSpec

\* Rows with an id of their own are as many as their ids.
LEMMA IdsAreAsMany ==
    ASSUME RowsNumbered, NEW t \in Tables
    PROVE  Cardinality(IdsOf(t)) = Cardinality(tables[t])
<1> DEFINE S == tables[t]
           f == [x \in S |-> x.id]
<1>1. PICK b \in Nat : \A x \in S : x.id <= b
  BY IdsAre
<1>2. /\ \A x \in S : x.id \in Nat /\ x.id <= b
      /\ \A x, y \in S : x.id = y.id => x = y
  BY <1>1, IdsAre DEF RowsNumbered
<1>3. IdsOf(t) = {x.id : x \in S}
  BY DEF IdsOf
<1> HIDE DEF S
<1>4. IsFiniteSet(S)
  BY <1>2, NewestOf
<1>5. f \in Bijection(S, IdsOf(t))
  <2>1. f \in [S -> IdsOf(t)] /\ \A i \in IdsOf(t) : \E x \in S : f[x] = i
    BY <1>3
  <2>2. \A x, y \in S : f[x] = f[y] => x = y
    BY <1>2
  <2> HIDE DEF f
  <2>3. QED
    BY <2>1, <2>2 DEF Bijection, Injection, Surjection, IsInjective
<1> HIDE DEF f
<1>6. Cardinality(S) = Cardinality(IdsOf(t))
  BY <1>4, <1>5, FS_Bijection DEF ExistsBijection
<1>7. QED
  BY <1>6 DEF S

\* The tables, the requests and the client have their types, no two rows of a table share
\* an id (the ids that max(id) + 1 gives are unique while rows come and go), and a client
\* never reads more pages than it may.
THEOREM RecordsTypeCorrect == RecordsSpec => []RecordsTypeOK
<1>1. RecordsInv => RecordsTypeOK
  <2> SUFFICES ASSUME RecordsInv PROVE RecordsTypeOK
    OBVIOUS
  <2>1. RowsNumbered /\ RequestsKnow /\ PagerKnows
    BY DEF RecordsInv
  <2>2. \A t \in Tables : /\ tables[t] \subseteq Row
                          /\ \A x \in tables[t] : x.thread \in ThreadsOf(t) /\ x.what \in Whats[t]
                          /\ Cardinality(IdsOf(t)) = Cardinality(tables[t])
    BY <2>1, IdsAreAsMany DEF RowsNumbered
  <2>3. reqs \in [Reqs -> Request] /\ incidents \in 0 .. MaxIncidents
    BY <2>1 DEF RequestsKnow
  <2>4. pager.view \in View \cup {None} /\ pager.left \in 0 .. MaxPages
    BY <2>1 DEF PagerKnows, Pager
  <2>5. QED
    BY <2>2, <2>3, <2>4 DEF RecordsTypeOK
<1>2. QED
  BY <1>1, RecordsInvariant, PTL

\* However the insertions, the readings of max(id) and the deletions of requests overlap,
\* the newest `Keep` events and requests ever written are there (event_recorder.py).
THEOREM NewestAreKept == RecordsSpec => []NewestKept
<1>1. RecordsInv => NewestKept
  BY DEF RecordsInv
<1>2. QED
  BY <1>1, RecordsInvariant, PTL

\* Whoever reads page after page, of any list of the service and with any page size, while
\* rows come and go: no row twice, and none left out that was there all the time
\* (chat_logs.py, logs_client.py).
THEOREM PagesAreExact == RecordsSpec => []PagingExact
<1>1. RecordsInv => PagingExact
  BY DEF RecordsInv
<1>2. QED
  BY <1>1, RecordsInvariant, PTL

\* A request's row in request_logs says what its client got, 499 where it got nothing, and
\* its events are in the order of what happened (request_logging.py).
THEOREM RequestsAreRecorded == RecordsSpec => []RecordedAsAnswered
<1>1. RecordsInv => RecordedAsAnswered
  BY DEF RecordsInv
<1>2. QED
  BY <1>1, RecordsInvariant, PTL

=============================================================================
