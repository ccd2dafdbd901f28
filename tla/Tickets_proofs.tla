---------------------------- MODULE Tickets_proofs ----------------------------
(***************************************************************************)
(* Theorems about Tickets for any requests, people and statuses.           *)
(***************************************************************************)
EXTENDS Tickets, TLAPS

-----------------------------------------------------------------------------
(* Types, and what a request is and holds at each step *)

Stages == Steps \cup {"idle", "ok", "refused", "error"}

\* The operation a step belongs to, and what the request holds at it.
Fits(r) ==
  /\ pc[r] = "idle" <=> kind[r] = "none"
  /\ pc[r] = "insert" => kind[r] = "create" /\ given[r] \in Rows /\ ~known
  /\ pc[r] = "find" => kind[r] \in Sought
  /\ pc[r] \in {"save", "announce"} => kind[r] = "update" /\ read[r] \in Rows
  /\ pc[r] = "delete" => kind[r] = "remove"
  /\ pc[r] = "insert comment" => kind[r] = "comment"
  /\ pc[r] = "write" => kind[r] = "bulk" /\ given[r].status \in Statuses
  /\ r \in comments \cup detached => kind[r] = "comment" /\ pc[r] \in {"reply", "ok", "error"}

\* What can have happened before the ticket was stored for the first time.
KnownFits ==
  /\ ~known => row = None /\ outgoing = {} /\ \A r \in Requests : kind[r] \in {"none", "create"}
  /\ \A r, q \in Requests : kind[r] = "create" /\ kind[q] = "create" => r = q

OverlapsNoted ==
  \A r, q \in Requests :
    r # q /\ InProgress(r) /\ InProgress(q) /\ {kind[r], kind[q]} \in Clashes => {kind[r], kind[q]} \in overlaps

CourseInv == TypeOK /\ (\A r \in Requests : Fits(r)) /\ KnownFits /\ OverlapsNoted

RequestsType ==
  /\ pc \in [Requests -> Stages]
  /\ kind \in [Requests -> Kinds \cup {"none"}]
  /\ given \in [Requests -> Columns]
  /\ read \in [Requests -> Rows \cup {None}]
  /\ loaded \in [Requests -> SUBSET Requests]

StoredType ==
  /\ row \in Rows \cup {None} /\ known \in BOOLEAN
  /\ comments \subseteq Requests /\ detached \subseteq Requests \ comments
  /\ row = None => comments = {}
  /\ outgoing \subseteq [by : Requests, to : People] /\ told \in People \cup {Nobody}
  /\ muddled \in BOOLEAN

Same(q) ==
  pc'[q] = pc[q] /\ kind'[q] = kind[q] /\ given'[q] = given[q] /\ read'[q] = read[q] /\ loaded'[q] = loaded[q]

Others(r) == \A q \in Requests \ {r} : Same(q)

LEMMA Typed == TypeOK => RequestsType /\ StoredType /\ overlaps \subseteq Clashes
  BY DEF TypeOK, RequestsType, StoredType, Stages

LEMMA Retyped == RequestsType' /\ StoredType' /\ overlaps' \subseteq Clashes => TypeOK'
  BY DEF TypeOK, RequestsType, StoredType, Stages

LEMMA EndEffect ==
  ASSUME RequestsType, NEW r \in Requests, NEW outcome \in {"reply", "refused", "error"}, End(r, outcome), kind' = kind
  PROVE  RequestsType' /\ Others(r) /\ pc'[r] = outcome
<1>1. Nothing \in Columns
  BY DEF Nothing, Columns
<1>2. /\ pc' = [pc EXCEPT ![r] = outcome] /\ given' = [given EXCEPT ![r] = Nothing]
      /\ read' = [read EXCEPT ![r] = None] /\ loaded' = [loaded EXCEPT ![r] = {}] /\ outcome \in Stages
  BY DEF End, Goto, Stages, Steps
<1> QED
  BY <1>1, <1>2 DEF RequestsType, Others, Same

LEMMA GotoEffect ==
  ASSUME RequestsType, NEW r \in Requests, NEW step \in Stages, Goto(r, step), UNCHANGED <<kind, locals>>
  PROVE  /\ RequestsType' /\ Others(r) /\ pc'[r] = step
         /\ given'[r] = given[r] /\ read'[r] = read[r] /\ loaded'[r] = loaded[r]
<1>1. pc' = [pc EXCEPT ![r] = step] /\ UNCHANGED <<given, read, loaded>>
  BY DEF Goto, locals
<1> QED
  BY <1>1 DEF RequestsType, Others, Same

LEMMA MergedType ==
  ASSUME RequestsType, NEW r \in Requests, read[r] \in Rows
  PROVE  /\ Merged(r) \in Rows
         /\ given[r].assignee = None => Merged(r).assignee = read[r].assignee
         /\ given[r].assignee # None => Merged(r).assignee = given[r].assignee
         /\ given[r].status = None => Merged(r).status = read[r].status
         /\ given[r].status # None => Merged(r).status = given[r].status
<1>1. given[r] \in Columns
  BY DEF RequestsType
<1> QED
  BY <1>1 DEF Merged, Rows, Columns

LEMMA FoundStep ==
  ASSUME NEW k \in Sought
  PROVE  \/ k = "update" /\ Found[k] = "save"
         \/ k = "remove" /\ Found[k] = "delete"
         \/ k = "comment" /\ Found[k] = "insert comment"
<1>1. Found["update"] = "save" /\ Found["remove"] = "delete" /\ Found["comment"] = "insert comment"
  BY DEF Found
<1> QED
  BY <1>1 DEF Sought

\* How a request goes on.
Passes(r) ==
  \/ pc[r] = "insert" /\ pc'[r] = "reply"
  \/ pc[r] = "find" /\ kind[r] = "update" /\ pc'[r] = "save"
  \/ pc[r] = "find" /\ kind[r] = "remove" /\ pc'[r] = "delete"
  \/ pc[r] = "find" /\ kind[r] = "comment" /\ pc'[r] = "insert comment"
  \/ pc[r] = "find" /\ pc'[r] = "refused"
  \/ pc[r] = "save" /\ pc'[r] = "announce"
  \/ pc[r] \in {"announce", "delete", "insert comment", "write"} /\ pc'[r] = "reply"
  \/ pc[r] = "reply" /\ pc'[r] = "ok"
  \/ pc[r] \in Steps /\ pc'[r] = "error"

\* What a step of a request does to its variables.
LEMMA StepEffect ==
  ASSUME CourseInv, NEW r \in Requests, Proceed(r) \/ Abort(r)
  PROVE  /\ RequestsType' /\ Others(r) /\ kind' = kind /\ overlaps' = overlaps /\ Passes(r) /\ InProgress(r)
         /\ pc[r] = "find" /\ pc'[r] # "refused" /\ pc'[r] # "error" => row # None /\ read'[r] = row /\ loaded'[r] = comments
         /\ pc'[r] = "announce" => read'[r] = read[r] /\ given'[r] = given[r]
<1>0. RequestsType /\ Fits(r)
  BY Typed DEF CourseInv
<1>1. CASE InsertRow(r)
  BY <1>0, <1>1, EndEffect DEF InsertRow, At, Passes, InProgress, Steps
<1>2. CASE FindOne(r)
  <2>1. kind[r] \in Sought /\ pc[r] = "find" /\ row # None /\ row \in Rows \cup {None} /\ comments \subseteq Requests
    BY <1>0, <1>2 DEF FindOne, Fits, CourseInv, TypeOK
  <2>2. PICK step \in {"save", "delete", "insert comment"} :
          /\ step = Found[kind[r]]
          /\ \/ kind[r] = "update" /\ step = "save"
             \/ kind[r] = "remove" /\ step = "delete"
             \/ kind[r] = "comment" /\ step = "insert comment"
    BY <2>1, FoundStep
  <2>3. /\ read' = [read EXCEPT ![r] = row] /\ loaded' = [loaded EXCEPT ![r] = comments] /\ pc' = [pc EXCEPT ![r] = step]
        /\ UNCHANGED <<stored, kind, given, sent, overlaps>>
    BY <1>2, <2>2 DEF FindOne, Goto
  <2>4. RequestsType' /\ Others(r) /\ pc'[r] = step /\ read'[r] = row /\ loaded'[r] = comments
    BY <1>0, <2>1, <2>2, <2>3 DEF RequestsType, Others, Same, Stages, Steps
  <2> QED
    BY <2>1, <2>2, <2>3, <2>4 DEF Passes, InProgress, Steps
<1>3. CASE FindNone(r)
  BY <1>0, <1>3, EndEffect DEF FindNone, Passes, InProgress, Steps
<1>4. CASE Save(r)
  BY <1>0, <1>4, GotoEffect DEF Save, At, Passes, InProgress, Steps, Stages
<1>5. CASE Announce(r)
  BY <1>0, <1>5, EndEffect DEF Announce, At, Passes, InProgress, Steps
<1>6. CASE DeleteRow(r)
  BY <1>0, <1>6, EndEffect DEF DeleteRow, At, Passes, InProgress, Steps
<1>7. CASE InsertComment(r)
  BY <1>0, <1>7, EndEffect DEF InsertComment, At, Passes, InProgress, Steps
<1>8. CASE WriteStatus(r)
  BY <1>0, <1>8, EndEffect DEF WriteStatus, At, Passes, InProgress, Steps
<1>9. CASE Reply(r)
  BY <1>0, <1>9, GotoEffect DEF Reply, Passes, InProgress, Steps, Stages
<1>10. CASE Abort(r)
  BY <1>0, <1>10, EndEffect DEF Abort, Passes, InProgress, Steps
<1> QED
  BY <1>1, <1>2, <1>3, <1>4, <1>5, <1>6, <1>7, <1>8, <1>9, <1>10 DEF Proceed

\* A request begins.
Opens(r) ==
  \/ \E c \in Columns : CreateRequest(r, c) \/ \E k \in Sought : Request(r, k, c)
  \/ \E s \in Statuses : BulkRequest(r, s)

Starts(r, k) ==
  /\ RequestsType' /\ Others(r) /\ UNCHANGED <<stored, sent>>
  /\ pc[r] = "idle" /\ kind'[r] = k
  /\ \/ k = "create" /\ pc'[r] = "insert" /\ ~known /\ given'[r] \in Rows /\ \A q \in Requests : kind[q] # "create"
     \/ k \in Sought /\ pc'[r] = "find" /\ known
     \/ k = "bulk" /\ pc'[r] = "write" /\ known /\ given'[r].status \in Statuses
  /\ overlaps \subseteq overlaps' /\ overlaps' \subseteq Clashes
  /\ \A q \in Requests \ {r} : InProgress(q) /\ {k, kind[q]} \in Clashes => {k, kind[q]} \in overlaps'

LEMMA BeginEffect ==
  ASSUME RequestsType, overlaps \subseteq Clashes, NEW r \in Requests, NEW k \in Kinds, NEW columns \in Columns,
         NEW step \in {"insert", "find", "write"}, Begin(r, k, columns, step), UNCHANGED <<read, loaded>>
  PROVE  /\ RequestsType' /\ Others(r)
         /\ pc[r] = "idle" /\ kind'[r] = k /\ pc'[r] = step /\ given'[r] = columns
         /\ overlaps \subseteq overlaps' /\ overlaps' \subseteq Clashes
         /\ \A q \in Requests \ {r} : InProgress(q) /\ {k, kind[q]} \in Clashes => {k, kind[q]} \in overlaps'
<1>1. /\ pc' = [pc EXCEPT ![r] = step] /\ kind' = [kind EXCEPT ![r] = k] /\ given' = [given EXCEPT ![r] = columns]
      /\ pc[r] = "idle" /\ step \in Stages
  BY DEF Begin, Goto, Stages, Steps
<1>2. overlaps' = overlaps \cup ({{k, kind[q]} : q \in {p \in Requests : InProgress(p)}} \cap Clashes)
  BY DEF Begin
<1>3. \A q \in Requests : InProgress(q) /\ {k, kind[q]} \in Clashes => {k, kind[q]} \in overlaps'
  BY <1>2
<1>4. RequestsType' /\ Others(r) /\ kind'[r] = k /\ pc'[r] = step /\ given'[r] = columns
  BY <1>1 DEF RequestsType, Others, Same
<1> QED
  BY <1>1, <1>2, <1>3, <1>4

LEMMA StartEffect ==
  ASSUME CourseInv, NEW r \in Requests, Opens(r)
  PROVE  \E k \in Kinds : Starts(r, k)
<1>0. RequestsType /\ overlaps \subseteq Clashes
  BY Typed DEF CourseInv
<1>1. ASSUME NEW c \in Columns, CreateRequest(r, c) PROVE \E k \in Kinds : Starts(r, k)
  <2>1. Begin(r, "create", c, "insert") /\ UNCHANGED <<stored, read, loaded, sent>> /\ ~known /\ c \in Rows
        /\ \A q \in Requests : kind[q] # "create"
    BY <1>1 DEF CreateRequest
  <2>2. "create" \in Kinds
    BY DEF Kinds
  <2>3. Starts(r, "create")
    BY <1>0, <2>1, <2>2, BeginEffect DEF Starts
  <2> QED
    BY <2>2, <2>3
<1>2. ASSUME NEW c \in Columns, NEW k \in Sought, Request(r, k, c) PROVE \E l \in Kinds : Starts(r, l)
  <2>1. Begin(r, k, c, "find") /\ UNCHANGED <<stored, read, loaded, sent>> /\ known
    BY <1>2 DEF Request
  <2>2. k \in Kinds
    BY DEF Kinds, Sought
  <2>3. Starts(r, k)
    BY <1>0, <2>1, <2>2, BeginEffect DEF Starts
  <2> QED
    BY <2>2, <2>3
<1>3. ASSUME NEW s \in Statuses, BulkRequest(r, s) PROVE \E k \in Kinds : Starts(r, k)
  <2>1. Begin(r, "bulk", [assignee |-> None, status |-> s], "write") /\ UNCHANGED <<stored, read, loaded, sent>> /\ known
    BY <1>3 DEF BulkRequest
  <2>2. "bulk" \in Kinds /\ [assignee |-> None, status |-> s] \in Columns /\ [assignee |-> None, status |-> s].status = s
    BY DEF Kinds, Columns
  <2>3. Starts(r, "bulk")
    BY <1>0, <2>1, <2>2, BeginEffect DEF Starts
  <2> QED
    BY <2>2, <2>3
<1> QED
  BY <1>1, <1>2, <1>3 DEF Opens

LEMMA Moves ==
  ASSUME [Next]_vars
  PROVE  \/ \E r \in Requests : Opens(r) \/ Proceed(r) \/ Abort(r)
         \/ \E a \in outgoing : Produced(a) \/ ProduceFails(a)
         \/ UNCHANGED vars
  BY DEF Next, Opens

\* How a request has come to where it is.
LEMMA Arrivals ==
  ASSUME CourseInv, [Next]_vars, NEW r \in Requests
  PROVE  \/ Same(r)
         \/ (Proceed(r) \/ Abort(r)) /\ kind'[r] = kind[r] /\ Passes(r)
         \/ \E k \in Kinds : Starts(r, k)
<1>1. ASSUME NEW q \in Requests, Proceed(q) \/ Abort(q)
      PROVE  Same(r) \/ ((Proceed(r) \/ Abort(r)) /\ kind'[r] = kind[r] /\ Passes(r))
  BY <1>1, StepEffect DEF Others
<1>2. ASSUME NEW q \in Requests, Opens(q) PROVE Same(r) \/ \E k \in Kinds : Starts(r, k)
  BY <1>2, StartEffect DEF Starts, Others
<1>3. ASSUME (\E a \in outgoing : Produced(a) \/ ProduceFails(a)) \/ UNCHANGED vars PROVE Same(r)
  BY <1>3 DEF Produced, ProduceFails, vars, locals, Same
<1> QED
  BY <1>1, <1>2, <1>3, Moves

\* Which step changes the ticket or its comments, and how.
StoredBy(r) ==
  \/ InsertRow(r) /\ row' = given[r] /\ known' /\ told' = given[r].assignee /\ UNCHANGED <<comments, detached, outgoing, muddled>>
  \/ Save(r) /\ row' = Merged(r) /\ UNCHANGED <<known, sent>>
  \/ DeleteRow(r) /\ row' = None /\ comments' = {} /\ UNCHANGED <<known, detached, sent>>
  \/ InsertComment(r) /\ comments' = comments \cup {r} /\ row # None /\ UNCHANGED <<row, known, detached, sent>>
  \/ WriteStatus(r) /\ UNCHANGED <<known, comments, detached, sent>>

LEMMA StoredEffect ==
  ASSUME CourseInv, [Next]_vars
  PROVE  \/ UNCHANGED stored
         \/ \E r \in Requests : StoredBy(r)
<1>1. ASSUME NEW r \in Requests, Opens(r) PROVE UNCHANGED stored
  BY <1>1, StartEffect DEF Starts
<1>2. ASSUME NEW r \in Requests, FindOne(r) \/ FindNone(r) \/ Announce(r) \/ Reply(r) \/ Abort(r) PROVE UNCHANGED stored
  BY <1>2 DEF FindOne, FindNone, Announce, Reply, Abort
<1>3. ASSUME NEW r \in Requests, InsertRow(r) \/ Save(r) \/ DeleteRow(r) \/ InsertComment(r) \/ WriteStatus(r) PROVE StoredBy(r)
  <2>1. CASE InsertRow(r)
    BY <2>1 DEF StoredBy, InsertRow
  <2>2. CASE Save(r)
    BY <2>2 DEF StoredBy, Save
  <2>3. CASE DeleteRow(r)
    BY <2>3 DEF StoredBy, DeleteRow
  <2>4. CASE InsertComment(r)
    BY <2>4 DEF StoredBy, InsertComment
  <2>5. CASE WriteStatus(r)
    BY <2>5 DEF StoredBy, WriteStatus
  <2> QED
    BY <1>3, <2>1, <2>2, <2>3, <2>4, <2>5
<1>4. ASSUME NEW a \in outgoing, Produced(a) \/ ProduceFails(a) PROVE UNCHANGED stored
  BY <1>4 DEF Produced, ProduceFails
<1>5. CASE UNCHANGED vars
  BY <1>5 DEF vars
<1> QED
  BY <1>1, <1>2, <1>3, <1>4, <1>5, Moves DEF Proceed

LEMMA StatusWritten ==
  ASSUME CourseInv, NEW r \in Requests, WriteStatus(r), row # None
  PROVE  /\ row' \in Rows /\ row'.assignee = row.assignee /\ row'.status = given[r].status
         /\ given[r].status \in Statuses
<1>1. row \in Rows /\ given[r].status \in Statuses /\ row' = [row EXCEPT !.status = given[r].status]
  BY DEF CourseInv, TypeOK, Fits, WriteStatus, At
<1> QED
  BY <1>1 DEF Rows

LEMMA TypeNext ==
  ASSUME CourseInv, [Next]_vars
  PROVE  TypeOK'
<1>0. RequestsType /\ StoredType /\ overlaps \subseteq Clashes
  BY Typed DEF CourseInv
<1>1. ASSUME NEW r \in Requests, Opens(r) PROVE TypeOK'
  <2>1. PICK k \in Kinds : Starts(r, k)
    BY <1>1, StartEffect
  <2>2. StoredType' /\ RequestsType' /\ overlaps' \subseteq Clashes
    BY <1>0, <2>1 DEF Starts, stored, sent, StoredType
  <2> QED
    BY <2>2, Retyped
<1>2. ASSUME NEW r \in Requests, Proceed(r) \/ Abort(r) PROVE TypeOK'
  <2>1. RequestsType' /\ overlaps' \subseteq Clashes /\ Fits(r)
    BY <1>0, <1>2, StepEffect DEF CourseInv
  <2> SUFFICES StoredType'
    BY <2>1, Retyped
  <2>2. CASE InsertRow(r)
    <3>1. given[r] \in Rows /\ given[r] # None /\ given[r].assignee \in People \cup {Nobody}
      BY <2>1, <2>2, TicketAssumption DEF InsertRow, At, Fits, Rows
    <3> QED
      BY <1>0, <2>2, <3>1 DEF InsertRow, StoredType
  <2>3. CASE FindOne(r) \/ FindNone(r) \/ Reply(r)
    BY <1>0, <2>3 DEF FindOne, FindNone, Reply, stored, sent, StoredType
  <2>4. CASE Save(r)
    <3>1. Merged(r) \in Rows /\ Merged(r) # None
      BY <1>0, <2>1, <2>4, MergedType, TicketAssumption DEF Save, At, Fits
    <3> QED
      BY <1>0, <2>4, <3>1 DEF Save, sent, StoredType
  <2>5. CASE Announce(r)
    <3>1. given[r].assignee \in People \cup {Nobody, None}
      BY <1>0 DEF RequestsType, Columns
    <3>2. News(r) => [by |-> r, to |-> given[r].assignee] \in [by : Requests, to : People]
      BY <3>1 DEF News
    <3>3. outgoing' \subseteq [by : Requests, to : People]
      BY <1>0, <2>5, <3>2 DEF Announce, StoredType
    <3>4. muddled' \in BOOLEAN
      BY <1>0, <2>5 DEF Announce, StoredType
    <3> QED
      BY <1>0, <2>5, <3>3, <3>4 DEF Announce, stored, StoredType
  <2>6. CASE DeleteRow(r)
    BY <1>0, <2>6 DEF DeleteRow, sent, StoredType
  <2>7. CASE InsertComment(r)
    <3>1. r \notin detached
      BY <2>1, <2>7 DEF InsertComment, At, Fits
    <3> QED
      BY <1>0, <2>7, <3>1 DEF InsertComment, sent, StoredType
  <2>8. CASE WriteStatus(r)
    <3>1. row' \in Rows \cup {None} /\ (row' = None => row = None)
      BY <1>0, <2>8, StatusWritten, TicketAssumption DEF WriteStatus
    <3> QED
      BY <1>0, <2>8, <3>1 DEF WriteStatus, sent, StoredType
  <2>9. CASE Abort(r)
    BY <1>0, <2>9 DEF Abort, stored, StoredType
  <2> QED
    BY <1>2, <2>2, <2>3, <2>4, <2>5, <2>6, <2>7, <2>8, <2>9 DEF Proceed
<1>3. ASSUME NEW a \in outgoing, Produced(a) \/ ProduceFails(a) PROVE TypeOK'
  <2>1. RequestsType' /\ overlaps' \subseteq Clashes
    BY <1>0, <1>3 DEF Produced, ProduceFails, locals, RequestsType
  <2>2. StoredType'
    BY <1>0, <1>3 DEF Produced, ProduceFails, stored, StoredType
  <2> QED
    BY <2>1, <2>2, Retyped
<1>4. CASE UNCHANGED vars
  BY <1>4 DEF vars, stored, locals, sent, CourseInv, TypeOK
<1> QED
  BY <1>1, <1>2, <1>3, <1>4, Moves

LEMMA KnownStays ==
  ASSUME CourseInv, [Next]_vars
  PROVE  /\ known => known'
         /\ known' => known \/ \E r \in Requests : InsertRow(r)
<1>1. known' = known \/ \E r \in Requests : InsertRow(r) /\ known'
  BY StoredEffect DEF StoredBy, stored
<1> QED
  BY <1>1 DEF CourseInv, TypeOK

LEMMA CommentsKnown ==
  ASSUME CourseInv, [Next]_vars
  PROVE  \/ comments' \cup detached' \subseteq comments \cup detached
         \/ \E q \in Requests : InsertComment(q) /\ comments' \cup detached' = comments \cup detached \cup {q}
<1>1. ASSUME NEW q \in Requests, StoredBy(q), ~InsertComment(q) PROVE comments' \cup detached' \subseteq comments \cup detached
  BY <1>1 DEF StoredBy, Save
<1>2. ASSUME NEW q \in Requests, StoredBy(q), InsertComment(q) PROVE comments' \cup detached' = comments \cup detached \cup {q}
  BY <1>2 DEF InsertComment
<1> QED
  BY <1>1, <1>2, StoredEffect DEF stored

LEMMA FitsNext ==
  ASSUME CourseInv, [Next]_vars, NEW r \in Requests
  PROVE  Fits(r)'
<1>0. Fits(r) /\ KnownFits /\ RequestsType /\ row \in Rows \cup {None}
  BY Typed DEF CourseInv, StoredType
<1>1. ASSUME pc'[r] = "insert", pc[r] = "insert" PROVE ~known'
  <2>1. ~InsertRow(r)
    BY <1>0, <1>1, EndEffect DEF InsertRow, At
  <2>2. \A q \in Requests : InsertRow(q) => q = r
    BY <1>0, <1>1 DEF InsertRow, At, KnownFits, Fits
  <2> QED
    BY <1>0, <1>1, <2>1, <2>2, KnownStays DEF Fits
<1>2. /\ r \in comments' \cup detached'
      => \/ r \in comments \cup detached
         \/ InsertComment(r)
  BY CommentsKnown
<1>3. InsertComment(r) => kind'[r] = "comment" /\ pc'[r] = "reply"
  BY <1>0, EndEffect DEF InsertComment, At
<1>4. CASE Same(r)
  BY <1>0, <1>1, <1>2, <1>3, <1>4 DEF Same, Fits
<1>5. CASE (Proceed(r) \/ Abort(r)) /\ kind'[r] = kind[r] /\ Passes(r)
  <2>1. /\ pc[r] = "find" /\ pc'[r] = "save" => read'[r] = row /\ row # None
        /\ pc'[r] = "announce" => read'[r] = read[r]
    BY <1>5, StepEffect
  <2>2. pc'[r] \in {"save", "announce"} => kind[r] = "update" /\ read'[r] \in Rows
    BY <1>0, <1>5, <2>1 DEF Passes, Fits
  <2>3. r \in comments' \cup detached' => kind'[r] = "comment" /\ pc'[r] \in {"reply", "ok", "error"}
    BY <1>0, <1>2, <1>3, <1>5 DEF Passes, Fits
  <2> QED
    BY <1>0, <1>5, <2>2, <2>3 DEF Passes, Fits, Steps
<1>6. CASE \E k \in Kinds : Starts(r, k)
  <2>1. PICK k \in Kinds : Starts(r, k)
    BY <1>6
  <2>2. r \notin comments' \cup detached'
    BY <1>0, <2>1 DEF Starts, Fits, stored
  <2>3. known' = known
    BY <2>1 DEF Starts, stored
  <2> QED
    BY <2>1, <2>2, <2>3 DEF Starts, Fits, Kinds, Sought
<1> QED
  BY <1>4, <1>5, <1>6, Arrivals

\* A request keeps its operation from when it starts.
LEMMA KindKept ==
  ASSUME CourseInv, [Next]_vars, NEW r \in Requests
  PROVE  \/ kind'[r] = kind[r] /\ (InProgress(r)' => InProgress(r))
         \/ \E k \in Kinds : Starts(r, k)
  BY Arrivals DEF Same, Passes, InProgress, Steps

LEMMA KnownNext ==
  ASSUME CourseInv, [Next]_vars
  PROVE  KnownFits'
<1>0. KnownFits /\ (known \in BOOLEAN)
  BY DEF CourseInv, TypeOK
<1>1. ASSUME NEW r \in Requests, NEW q \in Requests, kind'[r] = "create", kind'[q] = "create" PROVE r = q
  <2>1. ASSUME NEW p \in Requests, NEW o \in Requests, kind'[o] = "create", NEW k \in Kinds, Starts(p, k), kind'[p] = "create" PROVE p = o
    <3>1. \A n \in Requests : kind[n] # "create"
      BY <2>1 DEF Starts, Sought
    <3> QED
      BY <2>1, <3>1 DEF Starts, Others, Same
  <2> QED
    BY <1>0, <1>1, <2>1, KindKept DEF KnownFits
<1>2. ASSUME ~known' PROVE row' = None /\ outgoing' = {} /\ \A r \in Requests : kind'[r] \in {"none", "create"}
  <2>1. ~known
    BY <1>2, KnownStays
  <2>2. \A r \in Requests : kind[r] \in {"none", "create"}
    BY <1>0, <2>1 DEF KnownFits
  <2>3. ASSUME NEW r \in Requests PROVE kind'[r] \in {"none", "create"}
    BY <2>1, <2>2, KindKept DEF Starts
  <2>4. row' = None
    <3>1. ASSUME NEW r \in Requests, StoredBy(r) PROVE FALSE
      BY <1>2, <2>2, <3>1 DEF StoredBy, Save, DeleteRow, InsertComment, WriteStatus, At
    <3> QED
      BY <1>0, <2>1, <3>1, StoredEffect DEF KnownFits, stored
  <2>5. outgoing' = {}
    <3>1. ASSUME NEW r \in Requests, Opens(r) PROVE outgoing' = outgoing
      BY <3>1, StartEffect DEF Starts, sent
    <3>2. ASSUME NEW r \in Requests, Proceed(r) \/ Abort(r) PROVE outgoing' = outgoing
      BY <2>2, <3>2 DEF Proceed, Abort, InsertRow, FindOne, FindNone, Save, Announce, DeleteRow, InsertComment, WriteStatus, Reply, At, sent
    <3> QED
      BY <1>0, <2>1, <3>1, <3>2, Moves DEF KnownFits, vars, sent
  <2> QED
    BY <2>3, <2>4, <2>5
<1> QED
  BY <1>1, <1>2 DEF KnownFits

LEMMA OverlapsStay ==
  ASSUME CourseInv, [Next]_vars
  PROVE  overlaps \subseteq overlaps'
<1>1. ASSUME NEW p \in Requests, Proceed(p) \/ Abort(p) PROVE overlaps' = overlaps
  BY <1>1, StepEffect
<1>2. ASSUME NEW p \in Requests, Opens(p) PROVE overlaps \subseteq overlaps'
  BY <1>2, StartEffect DEF Starts
<1> QED
  BY <1>1, <1>2, Moves DEF Produced, ProduceFails, vars

LEMMA OverlapsNext ==
  ASSUME CourseInv, [Next]_vars
  PROVE  OverlapsNoted'
<1> SUFFICES ASSUME NEW r \in Requests, NEW q \in Requests, r # q, InProgress(r)', InProgress(q)',
                    {kind'[r], kind'[q]} \in Clashes
             PROVE  {kind'[r], kind'[q]} \in overlaps'
  BY DEF OverlapsNoted
<1>1. ASSUME NEW p \in Requests, NEW o \in Requests, o # p, NEW k \in Kinds, Starts(p, k),
             {kind'[p], kind'[o]} \in Clashes, InProgress(o)'
      PROVE  {kind'[p], kind'[o]} \in overlaps'
  <2>1. kind'[p] = k /\ kind'[o] = kind[o] /\ InProgress(o)
    BY <1>1 DEF Starts, Others, Same, InProgress
  <2> QED
    BY <1>1, <2>1 DEF Starts
<1>2. CASE kind'[r] = kind[r] /\ kind'[q] = kind[q] /\ InProgress(r) /\ InProgress(q)
  BY <1>2, OverlapsStay DEF CourseInv, OverlapsNoted
<1>3. {kind'[r], kind'[q]} = {kind'[q], kind'[r]}
  OBVIOUS
<1> QED
  BY <1>1, <1>2, <1>3, KindKept

LEMMA CourseInit == Init => CourseInv
<1> SUFFICES ASSUME Init PROVE CourseInv
  OBVIOUS
<1>1. TypeOK
  <2>1. told \in People \cup {Nobody} /\ Nothing \in Columns
    BY DEF Init, Rows, Nothing, Columns
  <2> QED
    BY <2>1 DEF Init, TypeOK
<1>2. \A r \in Requests : Fits(r)
  BY DEF Init, Fits
<1>3. KnownFits
  BY DEF Init, KnownFits
<1>4. OverlapsNoted
  BY DEF Init, OverlapsNoted, InProgress, Steps
<1> QED
  BY <1>1, <1>2, <1>3, <1>4 DEF CourseInv

LEMMA OnCourse == Spec => []CourseInv
<1>1. CourseInv /\ [Next]_vars => CourseInv'
  BY TypeNext, FitsNext, KnownNext, OverlapsNext DEF CourseInv
<1> QED
  BY <1>1, CourseInit, PTL DEF Spec

\* The row, the comments and the requests' local variables have their types; a comment
\* belongs to a ticket that is there, or to none.
THEOREM Typing == Spec => []TypeOK
  BY OnCourse, PTL DEF CourseInv

-----------------------------------------------------------------------------
(* Two requests at a time *)

LEMMA Clash ==
  ASSUME CourseInv, NEW r \in Requests, NEW q \in Requests, r # q, InProgress(r), InProgress(q),
         kind[r] = "update", kind[q] \in {"update", "remove", "comment", "bulk"}
  PROVE  ~Apart("update", kind[q])
<1>1. {kind[r], kind[q]} \in Clashes
  BY DEF Clashes
<1> QED
  BY <1>1 DEF CourseInv, OverlapsNoted, Apart

\* Where a request is before it saves or deletes what it has found.
LEMMA Finding ==
  ASSUME CourseInv, [Next]_vars, NEW r \in Requests, pc'[r] = "save"
  PROVE  /\ kind'[r] = "update" /\ kind[r] = "update" /\ InProgress(r)
         /\ \/ Same(r)
            \/ pc[r] = "find" /\ FindOne(r) /\ row # None /\ read'[r] = row /\ loaded'[r] = comments /\ UNCHANGED <<stored, sent>>
<1>1. CASE Same(r)
  BY <1>1 DEF Same, CourseInv, Fits, InProgress, Steps
<1>2. CASE (Proceed(r) \/ Abort(r)) /\ Passes(r)
  <2>1. pc[r] = "find" /\ kind[r] = "update" /\ kind' = kind /\ row # None /\ read'[r] = row /\ loaded'[r] = comments
    BY <1>2, StepEffect DEF Passes
  <2>2. FindOne(r)
    BY <1>2, <2>1, StepEffect DEF Proceed, Abort, InsertRow, FindNone, End, Save, Announce, DeleteRow, InsertComment, WriteStatus, Reply,
      At, Goto, CourseInv, TypeOK
  <2> QED
    BY <2>1, <2>2 DEF FindOne, InProgress, Steps
<1> QED
  BY <1>1, <1>2, Arrivals DEF Starts

LEMMA ApartBefore ==
  ASSUME CourseInv, [Next]_vars, NEW k, NEW l, Apart(k, l)'
  PROVE  Apart(k, l)
  BY OverlapsStay DEF Apart

LEMMA RemovalStays ==
  ASSUME CourseInv, [Next]_vars, NEW q \in Requests, kind[q] = "remove", pc[q] \in {"reply", "ok", "error"}
  PROVE  kind'[q] = "remove" /\ pc'[q] \in {"reply", "ok", "error"}
  BY Arrivals DEF Same, Passes, Starts

-----------------------------------------------------------------------------
(* What was acknowledged stays *)

\* An update that is going to save has read every comment there is.
KeptInv ==
  Apart("update", "comment") =>
    /\ detached = {}
    /\ \A r \in Requests : pc[r] = "save" => comments \subseteq loaded[r]
    /\ \A r \in Requests : kind[r] = "comment" /\ pc[r] \in {"reply", "ok"} =>
         r \in comments \/ \E q \in Requests : kind[q] = "remove" /\ pc[q] \in {"reply", "ok", "error"}

\* No update that has read the ticket is left when its removal is answered.
GoneInv ==
  Apart("update", "remove") =>
    \A r \in Requests : kind[r] = "remove" /\ pc[r] \in {"reply", "ok"} =>
      row = None /\ \A q \in Requests : pc[q] # "save"
\* How a comment or a removal is acknowledged.
LEMMA Answered ==
  ASSUME CourseInv, [Next]_vars, NEW r \in Requests, NEW k \in {"comment", "remove"}, kind'[r] = k, pc'[r] \in {"reply", "ok"}
  PROVE  /\ kind[r] = k
         /\ \/ pc[r] \in {"reply", "ok"}
            \/ k = "comment" /\ InsertComment(r)
            \/ k = "remove" /\ DeleteRow(r)
<1>1. CASE Same(r)
  BY <1>1 DEF Same
<1>2. CASE (Proceed(r) \/ Abort(r)) /\ kind'[r] = kind[r] /\ Passes(r)
  <2>1. Fits(r) /\ pc \in [Requests -> Stages]
    BY Typed DEF CourseInv, RequestsType
  <2> QED
    BY <1>2, <2>1 DEF Passes, Proceed, Abort, InsertRow, FindOne, FindNone, Save, Announce, InsertComment, DeleteRow, WriteStatus, Reply, At, End, Goto, Fits
<1>3. CASE \E k2 \in Kinds : Starts(r, k2)
  BY <1>3 DEF Starts
<1> QED
  BY <1>1, <1>2, <1>3, Arrivals

LEMMA KeptNext == CourseInv /\ KeptInv /\ [Next]_vars => KeptInv'
<1> SUFFICES ASSUME CourseInv, KeptInv, [Next]_vars, Apart("update", "comment")'
             PROVE  /\ detached' = {}
                    /\ \A r \in Requests : pc'[r] = "save" => comments' \subseteq loaded'[r]
                    /\ \A r \in Requests : kind'[r] = "comment" /\ pc'[r] \in {"reply", "ok"} =>
                         r \in comments' \/ \E q \in Requests : kind'[q] = "remove" /\ pc'[q] \in {"reply", "ok", "error"}
  BY DEF KeptInv
<1>0. /\ detached = {} /\ Apart("update", "comment")
      /\ \A r \in Requests : pc[r] = "save" => comments \subseteq loaded[r]
      /\ \A r \in Requests : kind[r] = "comment" /\ pc[r] \in {"reply", "ok"} =>
           r \in comments \/ \E q \in Requests : kind[q] = "remove" /\ pc[q] \in {"reply", "ok", "error"}
  BY ApartBefore DEF KeptInv
\* With no comment detached and all of them loaded, saving leaves the comments alone.
<1>1. \/ UNCHANGED <<comments, detached>>
      \/ detached' = detached /\ \E r \in Requests : DeleteRow(r) /\ comments' = {}
      \/ detached' = detached /\ \E r \in Requests : InsertComment(r) /\ comments' = comments \cup {r}
  <2>1. ASSUME NEW r \in Requests, Save(r) PROVE UNCHANGED <<comments, detached>>
    <3>1. comments \subseteq loaded[r]
      BY <1>0, <2>1 DEF Save, At
    <3> QED
      BY <1>0, <2>1, <3>1 DEF Save
  <2> QED
    BY <2>1, StoredEffect DEF StoredBy, stored
<1>2. ASSUME NEW r \in Requests, pc'[r] = "save" PROVE comments' \subseteq loaded'[r]
  <2>1. kind[r] = "update" /\ InProgress(r)
    BY <1>2, Finding
  <2>2. ~ \E q \in Requests : InsertComment(q)
    <3> SUFFICES ASSUME NEW q \in Requests, InsertComment(q) PROVE FALSE
      OBVIOUS
    <3>1. kind[q] = "comment" /\ InProgress(q)
      BY DEF InsertComment, At, InProgress, Steps
    <3> QED
      BY <1>0, <2>1, <3>1, Clash
  <2>3. comments' \subseteq comments
    BY <1>1, <2>2
  <2>4. CASE Same(r)
    BY <1>0, <1>2, <2>3, <2>4 DEF Same
  <2>5. CASE loaded'[r] = comments
    BY <2>3, <2>5
  <2> QED
    BY <1>2, <2>4, <2>5, Finding
<1>3. ASSUME NEW r \in Requests, kind'[r] = "comment", pc'[r] \in {"reply", "ok"}
      PROVE  r \in comments' \/ \E q \in Requests : kind'[q] = "remove" /\ pc'[q] \in {"reply", "ok", "error"}
  <2>1. CASE InsertComment(r)
    BY <2>1 DEF InsertComment
  <2>2. CASE \E q \in Requests : kind[q] = "remove" /\ pc[q] \in {"reply", "ok", "error"}
    BY <2>2, RemovalStays
  <2>3. CASE \E q \in Requests : DeleteRow(q)
    <3>1. PICK q \in Requests : DeleteRow(q)
      BY <2>3
    <3>2. kind'[q] = "remove" /\ pc'[q] = "reply"
      BY <3>1, EndEffect, Typed DEF CourseInv, DeleteRow, At
    <3> QED
      BY <3>2
  <2>4. CASE r \in comments /\ comments \subseteq comments'
    BY <2>4
  <2>5. kind[r] = "comment" /\ (pc[r] \in {"reply", "ok"} \/ InsertComment(r))
    BY <1>3, Answered
  <2> QED
    BY <1>0, <1>1, <2>1, <2>2, <2>3, <2>4, <2>5
<1> QED
  BY <1>0, <1>1, <1>2, <1>3

LEMMA GoneNext == CourseInv /\ GoneInv /\ [Next]_vars => GoneInv'
<1> SUFFICES ASSUME CourseInv, GoneInv, [Next]_vars, Apart("update", "remove")',
                    NEW r \in Requests, kind'[r] = "remove", pc'[r] \in {"reply", "ok"}
             PROVE  row' = None /\ \A q \in Requests : pc'[q] # "save"
  BY DEF GoneInv
<1>0. Apart("update", "remove") /\ kind[r] = "remove"
  BY ApartBefore, Answered
<1>1. CASE DeleteRow(r)
  <2>1. InProgress(r) /\ row' = None /\ (\A q \in Requests \ {r} : Same(q)) /\ pc'[r] = "reply"
    BY <1>1, EndEffect, Typed DEF CourseInv, DeleteRow, At, InProgress, Steps, Others
  <2>2. ASSUME NEW q \in Requests, pc'[q] = "save" PROVE FALSE
    <3>1. q # r /\ pc[q] = "save"
      BY <2>1, <2>2 DEF Same
    <3>2. kind[q] = "update" /\ InProgress(q)
      BY <3>1 DEF CourseInv, Fits, InProgress, Steps
    <3> QED
      BY <1>0, <2>1, <3>1, <3>2, Clash
  <2> QED
    BY <2>1, <2>2
<1>2. CASE pc[r] \in {"reply", "ok"}
  <2>1. row = None /\ \A q \in Requests : pc[q] # "save"
    BY <1>0, <1>2 DEF GoneInv
  <2>2. known
    BY <1>0 DEF CourseInv, KnownFits, TypeOK
  <2>3. ASSUME NEW q \in Requests, StoredBy(q) PROVE row' = None
    <3>1. ~InsertRow(q) /\ ~Save(q)
      BY <2>1, <2>2 DEF InsertRow, Save, At, CourseInv, Fits
    <3> QED
      BY <2>1, <2>3, <3>1 DEF StoredBy, WriteStatus
  <2>4. row' = None
    BY <2>1, <2>3, StoredEffect DEF stored
  <2>5. ASSUME NEW q \in Requests, pc'[q] = "save" PROVE FALSE
    BY <2>1, <2>5, Finding DEF Same
  <2> QED
    BY <2>4, <2>5
<1> QED
  BY <1>1, <1>2, Answered

\* A comment that was acknowledged stays with the ticket until that is removed, and a
\* ticket that was removed stays gone, unless an update had read the ticket before.
THEOREM AnswersStand == Spec => []AcknowledgedStays
<1>1. Init => KeptInv /\ GoneInv
  BY DEF Init, KeptInv, GoneInv
<1>2. CourseInv /\ KeptInv /\ GoneInv => AcknowledgedStays
  BY DEF CourseInv, KeptInv, GoneInv, AcknowledgedStays, Succeeded
<1> QED
  BY <1>1, <1>2, KeptNext, GoneNext, OnCourse, PTL DEF Spec

-----------------------------------------------------------------------------
(* Who was told *)

\* Whoever the topic names last, once the announcement on its way has arrived.
Expects(p) ==
  \/ outgoing = {} /\ p = told
  \/ \E a \in outgoing : a.to = p

ToldInv ==
  ~muddled =>
    /\ \A a, b \in outgoing : a = b
    /\ Apart("update", "update") =>
         /\ \A r \in Requests : pc[r] \in {"save", "announce"} => read[r].assignee = Nobody \/ Expects(read[r].assignee)
         /\ \A r \in Requests : pc[r] = "announce" => row = None \/ row.assignee = Merged(r).assignee
         /\ \/ row = None
            \/ \E r \in Requests : pc[r] = "announce"
            \/ row.assignee = Nobody
            \/ Expects(row.assignee)

LEMMA ToldParts ==
  ASSUME ToldInv, ~muddled, Apart("update", "update")
  PROVE  /\ \A r \in Requests : pc[r] \in {"save", "announce"} => read[r].assignee = Nobody \/ Expects(read[r].assignee)
         /\ \A r \in Requests : pc[r] = "announce" => row = None \/ row.assignee = Merged(r).assignee
         /\ \/ row = None
            \/ \E r \in Requests : pc[r] = "announce"
            \/ row.assignee = Nobody
            \/ Expects(row.assignee)
  BY DEF ToldInv

\* What happens to the announcements as long as none fails or overtakes another.
LEMMA SentEffect ==
  ASSUME CourseInv, [Next]_vars, ~muddled'
  PROVE  /\ ~muddled
         /\ \/ UNCHANGED sent
            \/ \E r \in Requests : InsertRow(r) /\ outgoing' = {} /\ ~known
            \/ \E r \in Requests : /\ Announce(r) /\ News(r)
                                   /\ outgoing = {} /\ outgoing' = {[by |-> r, to |-> given[r].assignee]}
            \/ \E a \in outgoing : Produced(a)
         /\ \A r \in Requests : Abort(r) => pc[r] # "announce"
<1>0. muddled \in BOOLEAN
  BY DEF CourseInv, TypeOK
<1>1. ASSUME NEW r \in Requests, Opens(r) PROVE UNCHANGED sent
  BY <1>1, StartEffect DEF Starts
<1>2. ASSUME NEW r \in Requests, InsertRow(r) PROVE outgoing' = {} /\ ~known /\ muddled' = muddled
  BY <1>2 DEF InsertRow, At, CourseInv, Fits, KnownFits
<1>3. ASSUME NEW r \in Requests, Announce(r)
      PROVE  \/ UNCHANGED sent
             \/ News(r) /\ outgoing = {} /\ outgoing' = {[by |-> r, to |-> given[r].assignee]} /\ ~muddled
  BY <1>0, <1>3 DEF Announce, sent
<1>4. ASSUME NEW r \in Requests, Abort(r) PROVE UNCHANGED sent /\ pc[r] # "announce"
  BY <1>0, <1>4 DEF Abort, sent
<1>5. ASSUME NEW r \in Requests, Proceed(r), ~InsertRow(r), ~Announce(r) PROVE UNCHANGED sent
  BY <1>5 DEF Proceed, FindOne, FindNone, Save, DeleteRow, InsertComment, WriteStatus, Reply
<1>6. ASSUME NEW a \in outgoing, Produced(a) \/ ProduceFails(a) PROVE Produced(a) /\ muddled' = muddled
  BY <1>6 DEF Produced, ProduceFails
<1>7. UNCHANGED vars => UNCHANGED sent
  BY DEF vars
<1>8. UNCHANGED sent => muddled' = muddled
  BY DEF sent
<1> QED
  BY <1>1, <1>2, <1>3, <1>4, <1>5, <1>6, <1>7, <1>8, Moves

\* Apart from a new announcement and the creation, no step changes who will have been told last.
LEMMA ExpectsKept ==
  ASSUME CourseInv, ToldInv, [Next]_vars, ~muddled',
         \A r \in Requests : ~InsertRow(r) /\ ~(Announce(r) /\ News(r)),
         NEW p, Expects(p)
  PROVE  Expects(p)'
<1>1. CASE UNCHANGED sent
  BY <1>1 DEF sent, Expects
<1>2. ASSUME NEW a \in outgoing, Produced(a) PROVE Expects(p)'
  <2>1. outgoing = {a} /\ outgoing' = {} /\ told' = a.to
    BY <1>2, SentEffect DEF ToldInv, Produced
  <2> QED
    BY <2>1 DEF Expects
<1> QED
  BY <1>1, <1>2, SentEffect

LEMMA OneOnItsWay ==
  ASSUME CourseInv, ToldInv, [Next]_vars, ~muddled'
  PROVE  \A a, b \in outgoing' : a = b
<1>1. ~muddled /\ \A a, b \in outgoing : a = b
  BY SentEffect DEF ToldInv
<1>2. ASSUME NEW a \in outgoing, Produced(a) PROVE outgoing' \subseteq outgoing
  BY <1>2 DEF Produced
<1>3. UNCHANGED sent => outgoing' = outgoing
  BY DEF sent
<1> QED
  BY <1>1, <1>2, <1>3, SentEffect

\* The step at which an update announces whom it has assigned the ticket to.
LEMMA NewsSent ==
  ASSUME CourseInv, ToldInv, [Next]_vars, ~muddled', Apart("update", "update"),
         NEW r \in Requests, Announce(r), News(r)
  PROVE  /\ \A q \in Requests : pc'[q] \notin {"save", "announce"}
         /\ \/ row' = None
            \/ Expects(row.assignee)' /\ row' = row
<1>1. /\ kind[r] = "update" /\ pc[r] = "announce" /\ InProgress(r) /\ pc'[r] = "reply"
      /\ (\A q \in Requests \ {r} : Same(q)) /\ row' = row /\ read[r] \in Rows
  BY EndEffect, Typed DEF Announce, At, InProgress, Steps, CourseInv, Others, stored, Fits
<1>2. ASSUME NEW q \in Requests, pc'[q] \in {"save", "announce"} PROVE FALSE
  <2>1. q # r /\ kind[q] = "update" /\ InProgress(q)
    BY <1>1, <1>2 DEF Same, CourseInv, Fits, InProgress, Steps
  <2> QED
    BY <1>1, <2>1, Clash
<1>3. row = None \/ row.assignee = given[r].assignee
  <2>1. row = None \/ row.assignee = Merged(r).assignee
    BY <1>1, SentEffect, ToldParts
  <2> QED
    BY <1>1, <2>1, MergedType, Typed DEF News, CourseInv
<1>4. \E a \in outgoing' : a.to = given[r].assignee
  <2>1. [by |-> r, to |-> given[r].assignee] \in outgoing'
    BY DEF Announce
  <2> QED
    BY <2>1
<1> QED
  BY <1>1, <1>2, <1>3, <1>4 DEF Expects

\* While an update is in progress and apart from others, only it changes the assignee.
LEMMA AssigneeStays ==
  ASSUME CourseInv, [Next]_vars, \A r \in Requests : ~InsertRow(r) /\ ~Save(r)
  PROVE  row' = None \/ (row # None /\ row'.assignee = row.assignee)
<1>1. ASSUME NEW r \in Requests, StoredBy(r) PROVE row' = None \/ (row # None /\ row'.assignee = row.assignee)
  <2>1. CASE WriteStatus(r)
    BY <2>1, StatusWritten DEF WriteStatus
  <2> QED
    BY <1>1, <2>1 DEF StoredBy
<1> QED
  BY <1>1, StoredEffect DEF stored

LEMMA ReadIsExpected ==
  ASSUME CourseInv, ToldInv, [Next]_vars, ~muddled', Apart("update", "update"),
         \A r \in Requests : ~InsertRow(r) /\ ~(Announce(r) /\ News(r)),
         NEW r \in Requests, pc'[r] \in {"save", "announce"}
  PROVE  read'[r].assignee = Nobody \/ Expects(read[r].assignee)'
<1>0. ~muddled
  BY SentEffect
<1>1. CASE read'[r] = read[r] /\ pc[r] \in {"save", "announce"}
  <2>1. read[r].assignee = Nobody \/ Expects(read[r].assignee)
    BY <1>0, <1>1, ToldParts
  <2>2. Expects(read[r].assignee) => (Expects(read[r].assignee))'
    BY <1>1, ExpectsKept DEF Expects
  <2> QED
    BY <1>1, <2>1, <2>2
<1>2. CASE pc[r] = "find" /\ FindOne(r) /\ row # None /\ read'[r] = row /\ kind[r] = "update" /\ InProgress(r)
  <2>1. ASSUME NEW q \in Requests, pc[q] = "announce" PROVE FALSE
    <3>1. q # r /\ kind[q] = "update" /\ InProgress(q)
      BY <1>2, <2>1 DEF CourseInv, Fits, InProgress, Steps
    <3> QED
      BY <1>2, <3>1, Clash
  <2>2. row.assignee = Nobody \/ Expects(row.assignee)
    BY <1>0, <1>2, <2>1, ToldParts
  <2>3. Expects(row.assignee) => (Expects(read[r].assignee))'
    BY <1>2, ExpectsKept DEF Expects
  <2> QED
    BY <1>2, <2>2, <2>3
<1>3. pc'[r] = "announce" => Same(r) \/ (pc[r] = "save" /\ read'[r] = read[r])
  BY Arrivals, StepEffect DEF Passes, Starts
<1>4. pc'[r] = "save" /\ ~Same(r) => /\ pc[r] = "find" /\ FindOne(r) /\ row # None /\ read'[r] = row
                                     /\ kind[r] = "update" /\ InProgress(r)
  BY Finding
<1>5. Same(r) => pc'[r] = pc[r] /\ read'[r] = read[r]
  BY DEF Same
<1> QED
  BY <1>1, <1>2, <1>3, <1>4, <1>5

LEMMA SavedIsMerged ==
  ASSUME CourseInv, ToldInv, [Next]_vars, ~muddled', Apart("update", "update"), NEW r \in Requests, pc'[r] = "announce"
  PROVE  row' = None \/ row'.assignee = Merged(r)'.assignee
<1>0. ~muddled
  BY SentEffect
<1>1. /\ given'[r] = given[r] /\ read'[r] = read[r] /\ kind[r] = "update" /\ InProgress(r)
      /\ \/ pc[r] = "announce" /\ Same(r)
         \/ pc[r] = "save" /\ Proceed(r)
  <2>1. CASE Same(r)
    BY <2>1 DEF Same, CourseInv, Fits, InProgress, Steps
  <2>2. CASE (Proceed(r) \/ Abort(r)) /\ Passes(r)
    <3>1. pc[r] = "save" /\ given'[r] = given[r] /\ read'[r] = read[r]
      BY <2>2, StepEffect DEF Passes
    <3>2. ~Abort(r)
      BY EndEffect, Typed DEF CourseInv, Abort
    <3> QED
      BY <2>2, <3>1, <3>2 DEF CourseInv, Fits, InProgress, Steps
  <2> QED
    BY <2>1, <2>2, Arrivals DEF Starts
<1>2. Merged(r)' = Merged(r)
  BY <1>1 DEF Merged
<1>3. CASE pc[r] = "save" /\ Proceed(r)
  <2>1. Save(r)
    BY <1>3 DEF Proceed, InsertRow, FindOne, FindNone, Announce, DeleteRow, InsertComment, WriteStatus, Reply, At
  <2> QED
    BY <1>2, <2>1 DEF Save
<1>4. CASE pc[r] = "announce" /\ Same(r)
  <2>1. row = None \/ row.assignee = Merged(r).assignee
    BY <1>0, <1>4, ToldParts
  <2>2. ASSUME NEW q \in Requests, InsertRow(q) \/ Save(q) PROVE FALSE
    <3>1. ~InsertRow(q)
      BY <1>1 DEF InsertRow, At, CourseInv, Fits, KnownFits
    <3>2. q # r /\ kind[q] = "update" /\ InProgress(q)
      BY <1>4, <2>2, <3>1 DEF Save, At, InProgress, Steps
    <3> QED
      BY <1>1, <3>2, Clash
  <2> QED
    BY <1>2, <2>1, <2>2, AssigneeStays
<1> QED
  BY <1>1, <1>3, <1>4

LEMMA RowIsExpected ==
  ASSUME CourseInv, ToldInv, [Next]_vars, ~muddled', Apart("update", "update"),
         \A r \in Requests : ~InsertRow(r) /\ ~(Announce(r) /\ News(r)),
         row' # None, \A r \in Requests : pc'[r] # "announce"
  PROVE  row'.assignee = Nobody \/ Expects(row.assignee)'
<1>0. ~muddled
  BY SentEffect
<1>1. ASSUME NEW r \in Requests, Save(r) PROVE FALSE
  BY <1>1, GotoEffect, Typed DEF Save, CourseInv, Stages, Steps
<1>2. row # None /\ row'.assignee = row.assignee
  BY <1>1, AssigneeStays
<1>3. row.assignee = Nobody \/ Expects(row.assignee)
  <2>1. CASE \E r \in Requests : pc[r] = "announce"
    <3>1. PICK r \in Requests : pc[r] = "announce"
      BY <2>1
    <3>2. Announce(r) /\ ~News(r)
      <4>1. (Proceed(r) \/ Abort(r)) /\ Passes(r)
        BY <3>1, Arrivals DEF Same, Starts
      <4> QED
        BY <3>1, <4>1, SentEffect DEF Proceed, InsertRow, FindOne, FindNone, Save, DeleteRow, InsertComment, WriteStatus, Reply, At
    <3>3. row.assignee = Merged(r).assignee /\ (read[r].assignee = Nobody \/ Expects(read[r].assignee))
      BY <1>0, <1>2, <3>1, ToldParts
    <3>4. read[r] \in Rows
      BY <3>1 DEF CourseInv, Fits
    <3> QED
      BY <3>2, <3>3, <3>4, MergedType, Typed DEF News, CourseInv
  <2>2. CASE \A r \in Requests : pc[r] # "announce"
    BY <1>0, <1>2, <2>2, ToldParts
  <2> QED
    BY <2>1, <2>2
<1>4. Expects(row.assignee) => (Expects(row.assignee))'
  BY <1>2, ExpectsKept DEF Expects
<1> QED
  BY <1>2, <1>3, <1>4

LEMMA ToldNext == CourseInv /\ ToldInv /\ [Next]_vars => ToldInv'
<1> SUFFICES ASSUME CourseInv, ToldInv, [Next]_vars, ~muddled', Apart("update", "update")'
             PROVE  /\ \A r \in Requests : pc'[r] \in {"save", "announce"} => read'[r].assignee = Nobody \/ Expects(read[r].assignee)'
                    /\ \A r \in Requests : pc'[r] = "announce" => row' = None \/ row'.assignee = Merged(r)'.assignee
                    /\ \/ row' = None
                       \/ \E r \in Requests : pc'[r] = "announce"
                       \/ row'.assignee = Nobody
                       \/ Expects(row.assignee)'
  BY OneOnItsWay DEF ToldInv
<1>0. Apart("update", "update")
  BY ApartBefore
<1>1. ASSUME NEW r \in Requests, InsertRow(r)
      PROVE  /\ \A q \in Requests : pc'[q] \notin {"save", "announce"}
             /\ Expects(row.assignee)'
  <2>1. ~known /\ outgoing = {} /\ \A q \in Requests : kind[q] \in {"none", "create"}
    BY <1>1 DEF InsertRow, At, CourseInv, Fits, KnownFits
  <2>2. pc'[r] = "reply" /\ \A q \in Requests \ {r} : Same(q)
    BY <1>1, EndEffect, Typed DEF InsertRow, CourseInv, Others
  <2>3. \A q \in Requests : pc'[q] \notin {"save", "announce"}
    BY <2>1, <2>2 DEF Same, CourseInv, Fits
  <2>4. outgoing' = {} /\ row'.assignee = told'
    BY <1>1, <2>1 DEF InsertRow
  <2> QED
    BY <2>3, <2>4 DEF Expects
<1>2. ASSUME NEW r \in Requests, Announce(r), News(r)
      PROVE  /\ \A q \in Requests : pc'[q] \notin {"save", "announce"}
             /\ row' = None \/ Expects(row.assignee)'
  BY <1>0, <1>2, NewsSent
<1>3. CASE \A r \in Requests : ~InsertRow(r) /\ ~(Announce(r) /\ News(r))
  BY <1>0, <1>3, ReadIsExpected, SavedIsMerged, RowIsExpected
<1> QED
  BY <1>1, <1>2, <1>3

\* Once everything has settled, whoever an update has assigned the ticket to is the last
\* one who was told so, unless updates overlapped, an announcement failed, or two were on
\* their way at the same time.
THEOREM AssigneesAreTold == Spec => []AssigneeIsTold
<1>1. Init => ToldInv
  BY DEF Init, ToldInv, Expects
<1>2. ToldInv => AssigneeIsTold
  <2> SUFFICES ASSUME ToldInv, outgoing = {}, ~muddled, Apart("update", "update"), \A r \in Requests : ~InProgress(r)
               PROVE  row = None \/ row.assignee \in {Nobody, told}
    BY DEF AssigneeIsTold
  <2>1. \A r \in Requests : pc[r] # "announce"
    BY DEF InProgress, Steps
  <2> QED
    BY <2>1, ToldParts DEF Expects
<1> QED
  BY <1>1, <1>2, ToldNext, OnCourse, PTL DEF Spec

-----------------------------------------------------------------------------
(* Who may change what *)

\* An update that is going to save has read the row as it is, unless that is gone.
ReadInv ==
  Apart("update", "update") /\ Apart("update", "bulk") =>
    \A r \in Requests : pc[r] = "save" => row = None \/ row = read[r]

LEMMA ReadNext == CourseInv /\ ReadInv /\ [Next]_vars => ReadInv'
<1> SUFFICES ASSUME CourseInv, ReadInv, [Next]_vars, Apart("update", "update")', Apart("update", "bulk")',
                    NEW r \in Requests, pc'[r] = "save"
             PROVE  row' = None \/ row' = read'[r]
  BY DEF ReadInv
<1>0. /\ Apart("update", "update") /\ Apart("update", "bulk") /\ kind[r] = "update" /\ InProgress(r)
      /\ pc[r] = "save" => row = None \/ row = read[r]
  BY ApartBefore, Finding DEF ReadInv
<1>1. CASE Same(r)
  <2>1. pc[r] = "save" /\ read'[r] = read[r] /\ known
    BY <1>0, <1>1 DEF Same, CourseInv, KnownFits, TypeOK
  <2>2. ASSUME NEW q \in Requests, StoredBy(q) PROVE row' = None \/ row' = row
    <3>1. ~InsertRow(q)
      BY <2>1 DEF InsertRow, At, CourseInv, Fits
    <3>2. ~Save(q)
      <4>1. Save(q) => q # r
        <5>1. Save(r) => pc' = [pc EXCEPT ![r] = "announce"]
          BY DEF Save, Goto
        <5>2. pc'[r] = pc[r] /\ pc \in [Requests -> Stages]
          BY <1>1, Typed DEF Same, CourseInv, RequestsType
        <5> QED
          BY <2>1, <5>1, <5>2
      <4>2. Save(q) => kind[q] = "update" /\ InProgress(q)
        BY DEF Save, At, InProgress, Steps
      <4> QED
        BY <1>0, <4>1, <4>2, Clash
    <3>3. ~WriteStatus(q)
      <4>1. WriteStatus(q) => kind[q] = "bulk" /\ InProgress(q)
        BY DEF WriteStatus, At, InProgress, Steps
      <4> QED
        BY <1>0, <4>1, Clash
    <3> QED
      BY <2>2, <3>1, <3>2, <3>3 DEF StoredBy
  <2> QED
    BY <1>0, <2>1, <2>2, StoredEffect DEF stored
<1>2. CASE FindOne(r) /\ read'[r] = row /\ UNCHANGED <<stored, sent>>
  BY <1>2 DEF stored
<1> QED
  BY <1>1, <1>2, Finding

LEMMA Asked ==
  ASSUME CourseInv, ReadInv, [Next]_vars, row # None, row' # None, Apart("update", "update"), Apart("update", "bulk"),
         NEW column \in {"assignee", "status"}, row'[column] # row[column]
  PROVE  \E r \in Requests : pc'[r] # pc[r] /\ given[r][column] = row'[column]
<1>0. known /\ RequestsType
  BY Typed DEF CourseInv, KnownFits, TypeOK
<1>1. PICK r \in Requests : StoredBy(r)
  BY StoredEffect DEF stored
<1>2. ~InsertRow(r)
  BY <1>0 DEF InsertRow, At, CourseInv, Fits
<1>3. CASE Save(r)
  <2>1. pc[r] = "save" /\ read[r] \in Rows /\ row = read[r] /\ row' = Merged(r)
    BY <1>3 DEF Save, At, CourseInv, Fits, ReadInv
  <2>2. pc'[r] = "announce"
    BY <1>0, <1>3, GotoEffect DEF Save, Stages, Steps
  <2>3. row'[column] = given[r][column]
    BY <1>0, <2>1, MergedType
  <2> QED
    BY <2>1, <2>2, <2>3
<1>4. CASE WriteStatus(r)
  <2>1. pc[r] = "write" /\ pc'[r] = "reply"
    BY <1>0, <1>4, EndEffect DEF WriteStatus, At
  <2>2. row'[column] = given[r][column]
    BY <1>4, StatusWritten
  <2> QED
    BY <2>1, <2>2
<1> QED
  BY <1>1, <1>2, <1>3, <1>4 DEF StoredBy

\* The assignee and the status change only in a step of a request that was given the new
\* value, unless an update overlapped another one, or a bulk update.
THEOREM ChangesNeedRequests == Spec => ChangesAreAsked
<1>1. Init => ReadInv
  BY DEF Init, ReadInv
<1>2. CourseInv /\ ReadInv /\ [Next]_vars =>
        [(row # None /\ row' # None /\ Apart("update", "update") /\ Apart("update", "bulk")) =>
           \A column \in {"assignee", "status"} : row'[column] # row[column] =>
             \E r \in Requests : pc'[r] # pc[r] /\ given[r][column] = row'[column]]_vars
  BY Asked
<1> QED
  BY <1>1, <1>2, ReadNext, OnCourse, PTL DEF Spec, ChangesAreAsked

=============================================================================
