------------------------------- MODULE Tickets -------------------------------
(***************************************************************************)
(* One ticket: its row and its comments in PostgreSQL, as TicketsService   *)
(* and the assistant's bulkUpdateTickets tool write them, and the messages *)
(* to the topic ticket.assigned (what becomes of those: see Notices).      *)
(*                                                                         *)
(* A request runs once, without interruption from one await to the next.   *)
(* TypeORM's save compares the entity with the row there is then: it       *)
(* writes every column that differs, also those read before somebody else  *)
(* wrote them, inserts an entity whose row is gone, and makes the comments *)
(* that were loaded with a ticket the only ones it has.                    *)
(***************************************************************************)
EXTENDS FiniteSets

CONSTANTS
  Requests,
  People,
  Statuses,
  Nobody,     \* the assignee of a ticket without one
  None        \* an absent value

VARIABLES
  row,        \* assignee and status, or None without a row
  known,      \* the ticket's id can be known: it was stored at some time
  comments,   \* comments of the ticket, named by their requests
  detached,   \* comments without a ticket
  pc,         \* per request: the call it awaits, or how it ended
  kind,       \* per request: the operation it performs
  given,      \* per request: the columns it is given, None for those it is not
  read,       \* per request: the row it has read
  loaded,     \* per request: the comments it has read
  outgoing,   \* announcements on their way, which nobody awaits
  told,       \* the last assignee on ticket.assigned, or the one at the ticket's creation
  muddled,    \* history: an announcement failed, or two were on their way at a time
  overlaps    \* history: the clashes of operations that were in progress together

stored == <<row, known, comments, detached>>
locals == <<given, read, loaded>>
sent   == <<outgoing, told, muddled>>
vars   == <<stored, pc, kind, locals, sent, overlaps>>

Kinds == {"create", "update", "remove", "comment", "bulk"}
Steps == {"insert", "find", "save", "announce", "delete", "insert comment", "write", "reply"}

\* Pairs of operations that can spoil each other's work.
Clashes == {{"update"}, {"update", "remove"}, {"update", "comment"}, {"update", "bulk"}}

Rows    == [assignee : People \cup {Nobody}, status : Statuses]
Columns == [assignee : People \cup {Nobody, None}, status : Statuses \cup {None}]
Nothing == [assignee |-> None, status |-> None]

ASSUME TicketAssumption ==
  /\ Nobody \notin People
  /\ None \notin Requests \cup People \cup Statuses \cup {Nobody} \cup Rows

\* Nothing yet, or a ticket without comments.
Init ==
  /\ row \in Rows \cup {None}
  /\ known = (row # None)
  /\ comments = {} /\ detached = {}
  /\ pc = [r \in Requests |-> "idle"]
  /\ kind = [r \in Requests |-> "none"]
  /\ given = [r \in Requests |-> Nothing]
  /\ read = [r \in Requests |-> None]
  /\ loaded = [r \in Requests |-> {}]
  /\ outgoing = {} /\ muddled = FALSE
  /\ told = IF known THEN row.assignee ELSE Nobody
  /\ overlaps = {}

InProgress(r) == pc[r] \in Steps
Goto(r, step) == pc' = [pc EXCEPT ![r] = step]
At(r, k, step) == kind[r] = k /\ pc[r] = step

\* The request has nothing left to do but to answer; its local variables go.
End(r, outcome) ==
  /\ Goto(r, outcome)
  /\ given' = [given EXCEPT ![r] = Nothing]
  /\ read' = [read EXCEPT ![r] = None]
  /\ loaded' = [loaded EXCEPT ![r] = {}]

Begin(r, k, columns, step) ==
  /\ pc[r] = "idle"
  /\ Goto(r, step)
  /\ kind' = [kind EXCEPT ![r] = k]
  /\ given' = [given EXCEPT ![r] = columns]
  /\ overlaps' = overlaps \cup
       ({{k, kind[q]} : q \in {p \in Requests : InProgress(p)}} \cap Clashes)

-----------------------------------------------------------------------------
(* create *)

CreateRequest(r, columns) ==
  /\ ~known
  /\ \A q \in Requests : kind[q] # "create"
  /\ columns \in Rows
  /\ Begin(r, "create", columns, "insert")
  /\ UNCHANGED <<stored, read, loaded, sent>>

\* An assignee the ticket is created with is not announced.
InsertRow(r) ==
  /\ At(r, "create", "insert")
  /\ End(r, "reply")
  /\ row' = given[r]
  /\ known' = TRUE
  /\ told' = given[r].assignee
  /\ UNCHANGED <<comments, detached, kind, outgoing, muddled, overlaps>>

-----------------------------------------------------------------------------
(* findOne, update, remove, addComment *)

Sought == {"update", "remove", "comment"}

\* An update is given some of the columns; without an assignee is one of the values.
Request(r, k, columns) ==
  /\ known
  /\ k \in Sought
  /\ IF k = "update" THEN columns \in Columns ELSE columns = Nothing
  /\ Begin(r, k, columns, "find")
  /\ UNCHANGED <<stored, read, loaded, sent>>

Found == [update |-> "save", remove |-> "delete", comment |-> "insert comment"]

FindOne(r) ==
  /\ pc[r] = "find"
  /\ row # None
  /\ read' = [read EXCEPT ![r] = row]
  /\ loaded' = [loaded EXCEPT ![r] = comments]
  /\ Goto(r, Found[kind[r]])
  /\ UNCHANGED <<stored, kind, given, sent, overlaps>>

FindNone(r) ==
  /\ pc[r] = "find"
  /\ row = None
  /\ End(r, "refused")
  /\ UNCHANGED <<stored, kind, sent, overlaps>>

Merged(r) ==
  [assignee |-> IF given[r].assignee = None THEN read[r].assignee ELSE given[r].assignee,
   status   |-> IF given[r].status = None THEN read[r].status ELSE given[r].status]

\* A comment of a ticket that was deleted is gone, too: saving does not bring it back.
Save(r) ==
  /\ At(r, "update", "save")
  /\ Goto(r, "announce")
  /\ row' = Merged(r)
  /\ comments' = loaded[r] \cap (comments \cup detached)
  /\ detached' = (detached \cup comments) \ loaded[r]
  /\ UNCHANGED <<known, kind, locals, sent, overlaps>>

\* Faulty variant: the old assignee is taken from the ticket when it is merged already.
NewsOnceMerged(r) == given[r].assignee \notin {None, Nobody, Merged(r).assignee}

\* The ticket has got another assignee than the one that was read.
News(r) == given[r].assignee \notin {None, Nobody, read[r].assignee}

\* Producing the message is begun, not awaited.
Announce(r) ==
  /\ At(r, "update", "announce")
  /\ End(r, "reply")
  /\ IF News(r)
     THEN /\ outgoing' = outgoing \cup {[by |-> r, to |-> given[r].assignee]}
          /\ muddled' = (muddled \/ outgoing # {})
     ELSE UNCHANGED <<outgoing, muddled>>
  /\ UNCHANGED <<stored, kind, told, overlaps>>

\* Two announcements on their way may arrive in either order.
Produced(a) ==
  /\ a \in outgoing
  /\ outgoing' = outgoing \ {a}
  /\ told' = a.to
  /\ UNCHANGED <<stored, pc, kind, locals, muddled, overlaps>>

\* A failure is logged and that is all.
ProduceFails(a) ==
  /\ a \in outgoing
  /\ outgoing' = outgoing \ {a}
  /\ muddled' = TRUE
  /\ UNCHANGED <<stored, pc, kind, locals, told, overlaps>>

\* Faulty variant: the reference is set to null as the ticket is deleted.
DeleteRowOnly(r) ==
  /\ At(r, "remove", "delete")
  /\ End(r, "reply")
  /\ row' = None
  /\ comments' = {}
  /\ detached' = detached \cup comments
  /\ UNCHANGED <<known, kind, sent, overlaps>>

\* The database deletes the comments with their ticket.
DeleteRow(r) ==
  /\ At(r, "remove", "delete")
  /\ End(r, "reply")
  /\ row' = None
  /\ comments' = {}
  /\ UNCHANGED <<known, detached, kind, sent, overlaps>>

\* Faulty variant: the comment is pushed to the ticket that was read, and that is saved.
InsertCommentWithTicket(r) ==
  /\ At(r, "comment", "insert comment")
  /\ End(r, "reply")
  /\ row' = read[r]
  /\ comments' = (loaded[r] \cap (comments \cup detached)) \cup {r}
  /\ detached' = (detached \cup comments) \ loaded[r]
  /\ UNCHANGED <<known, kind, sent, overlaps>>

\* The comment alone is inserted; without its ticket the database refuses it.
InsertComment(r) ==
  /\ row # None
  /\ At(r, "comment", "insert comment")
  /\ End(r, "reply")
  /\ comments' = comments \cup {r}
  /\ UNCHANGED <<row, known, detached, kind, sent, overlaps>>

-----------------------------------------------------------------------------
(* bulkUpdateStatus *)

BulkRequest(r, s) ==
  /\ known
  /\ Begin(r, "bulk", [assignee |-> None, status |-> s], "write")
  /\ UNCHANGED <<stored, read, loaded, sent>>

\* One UPDATE of the column; a ticket that is gone is passed over.
WriteStatus(r) ==
  /\ At(r, "bulk", "write")
  /\ End(r, "reply")
  /\ row' = IF row = None THEN None ELSE [row EXCEPT !.status = given[r].status]
  /\ UNCHANGED <<known, comments, detached, kind, sent, overlaps>>

-----------------------------------------------------------------------------

Reply(r) ==
  /\ pc[r] = "reply"
  /\ Goto(r, "ok")
  /\ UNCHANGED <<stored, kind, locals, sent, overlaps>>

\* An awaited call throws, before or after it took effect, or the process dies.
Abort(r) ==
  /\ InProgress(r)
  /\ End(r, "error")
  /\ muddled' = (muddled \/ pc[r] = "announce")
  /\ UNCHANGED <<stored, kind, outgoing, told, overlaps>>

Proceed(r) ==
  \/ InsertRow(r) \/ FindOne(r) \/ FindNone(r) \/ Save(r) \/ Announce(r) \/ DeleteRow(r)
  \/ InsertComment(r) \/ WriteStatus(r) \/ Reply(r)

Next ==
  \/ \E r \in Requests :
       \/ \E c \in Columns : CreateRequest(r, c) \/ \E k \in Sought : Request(r, k, c)
       \/ \E s \in Statuses : BulkRequest(r, s)
       \/ Proceed(r) \/ Abort(r)
  \/ \E a \in outgoing : Produced(a) \/ ProduceFails(a)

Spec == Init /\ [][Next]_vars

-----------------------------------------------------------------------------
(* Properties *)

\* The row, the comments and the requests' local variables have their types; a comment
\* belongs to a ticket that is there, or to none.
TypeOK ==
  /\ row \in Rows \cup {None} /\ known \in BOOLEAN
  /\ comments \subseteq Requests /\ detached \subseteq Requests \ comments
  /\ row = None => comments = {}
  /\ pc \in [Requests -> Steps \cup {"idle", "ok", "refused", "error"}]
  /\ kind \in [Requests -> Kinds \cup {"none"}]
  /\ given \in [Requests -> Columns]
  /\ read \in [Requests -> Rows \cup {None}]
  /\ loaded \in [Requests -> SUBSET Requests]
  /\ outgoing \subseteq [by : Requests, to : People] /\ told \in People \cup {Nobody}
  /\ muddled \in BOOLEAN
  /\ overlaps \subseteq Clashes

Apart(k, l) == {k, l} \notin overlaps

Succeeded(r, k) == kind[r] = k /\ pc[r] = "ok"

\* Once everything has settled, whoever an update has assigned the ticket to is the
\* last one who was told so, unless updates overlapped, an announcement failed, or
\* two were on their way at the same time.
AssigneeIsTold ==
  /\ outgoing = {} /\ ~muddled
  /\ Apart("update", "update")
  /\ \A r \in Requests : ~InProgress(r)
  => row = None \/ row.assignee \in {Nobody, told}

\* A comment that was acknowledged stays with the ticket until that is removed, and a
\* ticket that was removed stays gone, whatever was going on meanwhile: only an update
\* that had read the ticket before drops the one and brings back the other.
AcknowledgedStays ==
  /\ TypeOK
  /\ Apart("update", "comment") =>
       /\ detached = {}
       /\ \A r \in Requests : Succeeded(r, "comment") =>
            r \in comments \/ \E q \in Requests : kind[q] = "remove" /\ pc[q] \in {"reply", "ok", "error"}
  /\ Apart("update", "remove") =>
       \A r \in Requests : Succeeded(r, "remove") => row = None

\* The assignee and the status change only in a step of a request that was given the
\* new value, unless an update overlapped another one, or a bulk update: a comment
\* or an update of something else takes nothing back.
ChangesAreAsked ==
  [][(row # None /\ row' # None /\ Apart("update", "update") /\ Apart("update", "bulk")) =>
       \A column \in {"assignee", "status"} : row'[column] # row[column] =>
         \E r \in Requests : pc'[r] # pc[r] /\ given[r][column] = row'[column]]_vars
=============================================================================
