-------------------------- MODULE ChatRooms_proofs --------------------------
(***************************************************************************)
(* Theorems about ChatRooms for any requests and users.                    *)
(***************************************************************************)
EXTENDS ChatRooms, TLAPS

-----------------------------------------------------------------------------
(* Types, and what a request is and holds at each step *)

\* The operation a step belongs to, and what the request holds at it.
Fits(r) ==
  /\ pc[r] = "idle" <=> kind[r] = "none"
  /\ pc[r] = "save room" => kind[r] = "create"
  /\ pc[r] = "save members" => kind[r] \in {"create", "add"}
  /\ pc[r] = "load" => kind[r] = "add"
  /\ pc[r] \in {"check", "insert", "emit"} => kind[r] = "send"
  /\ pc[r] \in {"find", "save row"} => kind[r] = "mark"
  /\ pc[r] = "save" => kind[r] = "rename"
  /\ pc[r] \in {"drop members", "drop messages", "drop room"} => kind[r] = "delete"
  /\ pc[r] = "reply" => kind[r] # "send"
  /\ kind[r] \in {"send", "mark"} /\ InProgress(r) => user[r] \in Users
  /\ pc[r] = "save row" => stamp[r] # None /\ \E m \in Row : loaded[r] = {m} /\ m.user = user[r]

\* What can have happened while the room's id is not known, and what is left of a room
\* that is not there.
KnownFits ==
  /\ ~known => members = {} /\ \A r \in Requests : kind[r] \in {"none", "create"}
  /\ \A r \in Requests : kind[r] = "create" /\ pc[r] \in {"save room", "save members"} =>
       ~known /\ invited[r] # {} /\ \A i \in invited[r] : i.nth = 1
  /\ \A r, q \in Requests : kind[r] = "create" /\ kind[q] = "create" => r = q
  /\ ~room => members = {} /\ messages = {}

OverlapsNoted ==
  \A r, q \in Requests :
    r # q /\ InProgress(r) /\ InProgress(q) /\ {kind[r], kind[q]} \in Clashes => {kind[r], kind[q]} \in overlaps

CourseInv ==
  /\ TypeOK
  /\ \A r \in Requests : Fits(r)
  /\ KnownFits
  /\ OverlapsNoted

Stages == Steps \cup {"idle", "ok", "refused", "error"}

\* The variables of the requests have their types.
RequestsType ==
  /\ pc \in [Requests -> Stages]
  /\ kind \in [Requests -> Kinds \cup {"none"}]
  /\ user \in [Requests -> Users \cup {None}]
  /\ invited \in [Requests -> SUBSET Mention]
  /\ loaded \in [Requests -> SUBSET Row]
  /\ stamp \in [Requests -> 0..clock \cup {None}]

\* A step of a request leaves the others where they are.
Others(r) ==
  \A q \in Requests \ {r} :
    /\ pc'[q] = pc[q] /\ kind'[q] = kind[q]
    /\ user'[q] = user[q] /\ invited'[q] = invited[q] /\ loaded'[q] = loaded[q] /\ stamp'[q] = stamp[q]

LEMMA RowsStay ==
  ASSUME TypeOK, clock' \in Nat, clock' >= clock
  PROVE  Row \subseteq Row' /\ 0..clock \subseteq 0..clock' /\ 1..clock \subseteq 1..clock'
  BY DEF TypeOK, Row

\* A request begins.
LEMMA BeginEffect ==
  ASSUME TypeOK, NEW r \in Requests, NEW u \in Users \cup {None}, NEW k \in Kinds, NEW step \in Steps,
         Begin(r, u, k, step)
  PROVE  /\ pc' \in [Requests -> Stages] /\ kind' \in [Requests -> Kinds \cup {"none"}]
         /\ user' \in [Requests -> Users \cup {None}]
         /\ pc[r] = "idle" /\ pc'[r] = step /\ kind'[r] = k /\ user'[r] = u
         /\ \A q \in Requests \ {r} : pc'[q] = pc[q] /\ kind'[q] = kind[q] /\ user'[q] = user[q]
         /\ overlaps \subseteq overlaps' /\ overlaps' \subseteq Clashes
         /\ \A q \in Requests \ {r} : InProgress(q) /\ {k, kind[q]} \in Clashes => {k, kind[q]} \in overlaps'
<1>1. pc \in [Requests -> Stages] /\ kind \in [Requests -> Kinds \cup {"none"}] /\ user \in [Requests -> Users \cup {None}]
      /\ overlaps \subseteq Clashes
  BY DEF TypeOK, Stages
<1>2. pc' = [pc EXCEPT ![r] = step] /\ kind' = [kind EXCEPT ![r] = k] /\ user' = [user EXCEPT ![r] = u]
      /\ pc[r] = "idle"
  BY DEF Begin, Goto
<1>3. overlaps' = overlaps \cup ({{k, kind[q]} : q \in {p \in Requests : InProgress(p)}} \cap Clashes)
  BY DEF Begin
<1>4. \A q \in Requests : InProgress(q) /\ {k, kind[q]} \in Clashes => {k, kind[q]} \in overlaps'
  BY <1>3
<1>5. pc' \in [Requests -> Stages]
  BY <1>1, <1>2 DEF Stages
<1> QED
  BY <1>1, <1>2, <1>3, <1>4, <1>5

\* What a request has been given or has read besides.
LEMMA BeginType ==
  ASSUME TypeOK, NEW r \in Requests, NEW u \in Users \cup {None}, NEW k \in Kinds, NEW step \in Steps,
         Begin(r, u, k, step), clock' = clock, stamp' = stamp,
         invited' = invited \/ \E is \in SUBSET Mention : invited' = [invited EXCEPT ![r] = is],
         loaded' = loaded \/ \E ms \in SUBSET Row : loaded' = [loaded EXCEPT ![r] = ms]
  PROVE  RequestsType' /\ Others(r)
<1>1. Row' = Row
  BY DEF Row
<1>2. /\ invited \in [Requests -> SUBSET Mention] /\ loaded \in [Requests -> SUBSET Row]
      /\ stamp \in [Requests -> 0..clock \cup {None}]
  BY DEF TypeOK
<1>3. invited' \in [Requests -> SUBSET Mention] /\ \A q \in Requests \ {r} : invited'[q] = invited[q]
  BY <1>2
<1>4. loaded' \in [Requests -> SUBSET Row] /\ \A q \in Requests \ {r} : loaded'[q] = loaded[q]
  BY <1>2
<1> QED
  BY <1>1, <1>2, <1>3, <1>4, BeginEffect DEF RequestsType, Others

\* A request ends.
LEMMA EndEffect ==
  ASSUME RequestsType, NEW r \in Requests, NEW outcome \in {"ok", "refused", "error"}, End(r, outcome),
         UNCHANGED kind, clock' = clock
  PROVE  /\ RequestsType' /\ Others(r)
         /\ pc'[r] = outcome /\ invited'[r] = {} /\ loaded'[r] = {}
         /\ kind[r] = "mark" /\ outcome = "ok" => user'[r] = user[r] /\ stamp'[r] = stamp[r]
<1>1. /\ pc' = [pc EXCEPT ![r] = outcome]
      /\ invited' = [invited EXCEPT ![r] = {}] /\ loaded' = [loaded EXCEPT ![r] = {}]
      /\ \/ user' = user /\ stamp' = stamp
         \/ /\ ~(kind[r] = "mark" /\ outcome = "ok")
            /\ user' = [user EXCEPT ![r] = None] /\ stamp' = [stamp EXCEPT ![r] = None]
  BY DEF End, Goto
<1>2. Row' = Row /\ outcome \in Stages
  BY DEF Row, Stages
<1> QED
  BY <1>1, <1>2 DEF RequestsType, Others

\* A request goes on to its next step.
LEMMA GotoEffect ==
  ASSUME RequestsType, NEW r \in Requests, NEW step \in Steps, Goto(r, step), UNCHANGED <<kind, clock>>
  PROVE  /\ UNCHANGED locals => RequestsType' /\ Others(r)
         /\ pc' \in [Requests -> Stages] /\ pc'[r] = step /\ \A q \in Requests \ {r} : pc'[q] = pc[q]
<1>1. pc' = [pc EXCEPT ![r] = step] /\ step \in Stages /\ Row' = Row
  BY DEF Goto, Stages, Row
<1> QED
  BY <1>1 DEF RequestsType, Others, locals

RowsType ==
  /\ room \in BOOLEAN /\ known \in BOOLEAN
  /\ members \subseteq Row
  /\ messages \subseteq [by : Requests, sender : Users, at : 1..clock]
  /\ clock \in Nat

LEMMA Typed == ASSUME TypeOK PROVE RequestsType /\ RowsType
  BY DEF TypeOK, RequestsType, RowsType, Stages

\* What a step of a request does to its variables and to the rows.
LEMMA StepEffect ==
  ASSUME CourseInv, NEW r \in Requests, Step(r)
  PROVE  /\ RequestsType' /\ RowsType' /\ Others(r)
         /\ UNCHANGED <<kind, sockets, cut, overlaps>> /\ heard' \subseteq Requests
<1> DEFINE Goal ==
      /\ RequestsType' /\ RowsType' /\ Others(r)
      /\ UNCHANGED <<kind, sockets, cut, overlaps>> /\ heard' \subseteq Requests
<1>1. RequestsType /\ RowsType /\ TypeOK /\ Fits(r) /\ heard \subseteq Requests
  BY Typed DEF CourseInv, TypeOK
<1>2. ASSUME clock' = clock PROVE Row' = Row
  BY <1>2 DEF Row
<1>3. CASE SaveRoom(r)
  BY <1>1, <1>2, <1>3, GotoEffect DEF SaveRoom, Steps, RowsType
<1>4. CASE SaveMembers(r)
  <2>1. clock' = clock /\ UNCHANGED <<kind, locals>> /\ Goto(r, "reply")
    BY <1>4 DEF SaveMembers
  <2>2. \A i \in invited[r] : [by |-> r, user |-> i.user, nth |-> i.nth, read |-> 0] \in Row
    BY <1>1 DEF RequestsType, RowsType, Row, Mention
  <2>3. members' \subseteq Row'
    BY <1>1, <1>2, <1>4, <2>1, <2>2 DEF SaveMembers, RowsType
  <2> QED
    BY <1>1, <1>4, <2>1, <2>3, GotoEffect DEF SaveMembers, Steps, RowsType
<1>5. CASE LoadRoom(r)
  <2>1. PICK step \in {"reply", "save members"} : Goto(r, step)
    BY <1>5 DEF LoadRoom
  <2>2. UNCHANGED <<rows, known, sockets, kind, user, loaded, stamp, heard, cut, overlaps>>
    BY <1>5 DEF LoadRoom
  <2>3. \E new \in SUBSET Mention : invited' = [invited EXCEPT ![r] = new]
    <3>1. {i \in invited[r] : ~IsMember(i.user)} \in SUBSET Mention
      BY <1>1 DEF RequestsType
    <3> QED
      BY <1>5, <3>1 DEF LoadRoom
  <2>4. invited' \in [Requests -> SUBSET Mention] /\ \A q \in Requests \ {r} : invited'[q] = invited[q]
    BY <1>1, <2>3 DEF RequestsType
  <2>5. /\ pc' \in [Requests -> Stages] /\ pc'[r] = step /\ \A q \in Requests \ {r} : pc'[q] = pc[q]
    BY <1>1, <2>1, <2>2, GotoEffect DEF Steps, rows
  <2> QED
    BY <1>1, <1>2, <2>2, <2>4, <2>5 DEF RequestsType, RowsType, Others, rows, sockets
<1>6. CASE CheckSender(r)
  <2>1. UNCHANGED <<rows, known, sockets, kind, heard, cut, overlaps>>
    BY <1>6 DEF CheckSender
  <2>2. (Goto(r, "insert") /\ UNCHANGED locals) \/ End(r, "refused")
    BY <1>6 DEF CheckSender
  <2>3. RequestsType' /\ Others(r)
    BY <1>1, <2>1, <2>2, GotoEffect, EndEffect DEF Steps, rows
  <2> QED
    BY <1>1, <1>2, <2>1, <2>3 DEF RowsType, rows
<1>7. CASE InsertMessage(r)
  <2>1. UNCHANGED <<room, members, known, sockets, kind, locals, heard, cut, overlaps>> /\ clock' = clock + 1
        /\ messages' = messages \cup {[by |-> r, sender |-> user[r], at |-> clock + 1]}
        /\ pc' = [pc EXCEPT ![r] = "emit"]
    BY <1>7 DEF InsertMessage, Goto
  <2>2. clock' \in Nat /\ Row \subseteq Row' /\ 0..clock \subseteq 0..clock' /\ 1..clock \subseteq 1..clock'
        /\ clock + 1 \in 1..clock'
    BY <1>1, <2>1, RowsStay DEF RowsType
  <2>3. user[r] \in Users
    BY <1>1, <1>7 DEF InsertMessage, Fits, InProgress, Steps
  <2>4. messages' \subseteq [by : Requests, sender : Users, at : 1..clock']
    BY <1>1, <2>1, <2>2, <2>3 DEF RowsType
  <2>5. RowsType'
    BY <1>1, <2>1, <2>2, <2>4 DEF RowsType
  <2>6. RequestsType' /\ Others(r)
    BY <1>1, <2>1, <2>2 DEF RequestsType, Stages, Steps, Others, locals
  <2> QED
    BY <1>1, <2>1, <2>5, <2>6
<1>8. CASE EmitMessage(r)
  <2>1. UNCHANGED <<rows, known, sockets, kind, cut, overlaps>> /\ End(r, "ok") /\ heard' \subseteq Requests
    BY <1>1, <1>8 DEF EmitMessage
  <2> QED
    BY <1>1, <1>2, <2>1, EndEffect DEF RowsType, rows
<1>9. CASE FindRow(r)
  <2>1. PICK m \in members : /\ loaded' = [loaded EXCEPT ![r] = {m}] /\ stamp' = [stamp EXCEPT ![r] = clock]
                             /\ Goto(r, "save row")
    BY <1>9 DEF FindRow
  <2>2. UNCHANGED <<rows, known, sockets, kind, user, invited, heard, cut, overlaps>>
    BY <1>9 DEF FindRow
  <2>3. pc' \in [Requests -> Stages] /\ \A q \in Requests \ {r} : pc'[q] = pc[q]
    BY <1>1, <2>1, <2>2, GotoEffect DEF Steps, rows
  <2>4. m \in Row /\ clock \in 0..clock
    BY <1>1 DEF RowsType
  <2>5. loaded' \in [Requests -> SUBSET Row] /\ stamp' \in [Requests -> 0..clock \cup {None}]
    BY <1>1, <2>1, <2>4 DEF RequestsType
  <2>6. \A q \in Requests \ {r} : loaded'[q] = loaded[q] /\ stamp'[q] = stamp[q]
    BY <1>1, <2>1 DEF RequestsType
  <2> QED
    BY <1>1, <1>2, <2>2, <2>3, <2>5, <2>6 DEF RequestsType, RowsType, Others, rows
<1>10. CASE FindNoRow(r)
  BY <1>1, <1>2, <1>10, GotoEffect DEF FindNoRow, Steps, RowsType, rows
<1>11. CASE SaveRow(r)
  <2>1. UNCHANGED <<room, messages, clock, known, sockets, kind, locals, heard, cut, overlaps>> /\ Goto(r, "reply")
    BY <1>11 DEF SaveRow
  <2>2. loaded[r] \subseteq Row /\ stamp[r] \in 0..clock
    BY <1>1, <1>11 DEF RequestsType, SaveRow, Fits
  <2>3. \A m \in loaded[r] : [m EXCEPT !.read = stamp[r]] \in Row
    BY <2>2 DEF Row
  <2>4. members' \subseteq Row'
    BY <1>1, <1>2, <1>11, <2>1, <2>3 DEF SaveRow, RowsType
  <2> QED
    BY <1>1, <2>1, <2>4, GotoEffect DEF Steps, RowsType
<1>12. CASE SaveRenamed(r)
  <2>1. UNCHANGED <<messages, clock, known, sockets, kind, locals, heard, cut, overlaps>> /\ Goto(r, "reply")
        /\ room' = TRUE /\ members' = loaded[r]
    BY <1>12 DEF SaveRenamed
  <2>2. members' \subseteq Row'
    BY <1>1, <1>2, <2>1 DEF RequestsType
  <2> QED
    BY <1>1, <2>1, <2>2, GotoEffect DEF Steps, RowsType
<1>13. CASE DropMembers(r) \/ DropMessages(r) \/ DropRoom(r)
  <2>1. PICK step \in {"drop messages", "drop room", "reply"} : Goto(r, step)
    BY <1>13 DEF DropMembers, DropMessages, DropRoom
  <2>2. UNCHANGED <<clock, known, sockets, kind, locals, heard, cut, overlaps>> /\ room' \in BOOLEAN
        /\ members' \subseteq members /\ messages' \subseteq messages
    BY <1>1, <1>13 DEF DropMembers, DropMessages, DropRoom, RowsType
  <2>3. RequestsType' /\ Others(r)
    BY <1>1, <2>1, <2>2, GotoEffect DEF Steps
  <2>4. RowsType'
    BY <1>1, <1>2, <2>2 DEF RowsType
  <2> QED
    BY <1>1, <2>2, <2>3, <2>4
<1>14. CASE Reply(r) \/ Abort(r)
  <2>1. UNCHANGED <<rows, known, sockets, kind, heard, cut, overlaps>> /\ (End(r, "ok") \/ End(r, "error"))
    BY <1>14 DEF Reply, Abort
  <2> QED
    BY <1>1, <1>2, <2>1, EndEffect DEF RowsType, rows
<1> QED
  BY <1>3, <1>4, <1>5, <1>6, <1>7, <1>8, <1>9, <1>10, <1>11, <1>12, <1>13, <1>14 DEF Step

\* What the beginning of a request does.
Starts(r, k, step) ==
  /\ RequestsType' /\ Others(r)
  /\ pc[r] = "idle" /\ pc'[r] = step /\ kind'[r] = k
  /\ UNCHANGED <<rows, known, online, listed, stamp, heard, cut>> /\ joined \subseteq joined' /\ joined' \subseteq online
  /\ IF k = "create"
     THEN ~known /\ (\A q \in Requests : kind[q] # "create") /\ invited'[r] # {} /\ \A i \in invited'[r] : i.nth = 1
     ELSE known
  /\ k \in {"send", "mark"} => user'[r] \in Users /\ user'[r] \in joined'
  /\ k = "add" => members # {}
  /\ k = "rename" => room /\ loaded'[r] = members
  /\ k = "delete" => room
  /\ overlaps \subseteq overlaps' /\ overlaps' \subseteq Clashes
  /\ \A q \in Requests \ {r} : InProgress(q) /\ {k, kind[q]} \in Clashes => {k, kind[q]} \in overlaps'

Opens(r) ==
  \/ RenameRequest(r) \/ DeleteRequest(r)
  \/ \E u \in Users : \/ SendRequest(r, u) \/ MarkRequest(r, u)
                      \/ \E body \in Bodies : CreateRequest(r, u, body) \/ AddRequest(r, u, body)

First(k, step) ==
  \/ k = "create" /\ step = "save room"
  \/ k = "add" /\ step = "load"
  \/ k = "send" /\ step = "check"
  \/ k = "mark" /\ step = "find"
  \/ k = "rename" /\ step = "save"
  \/ k = "delete" /\ step = "drop members"

\* Users who are named once are mentions of number 1.
LEMMA NamedOnce ==
  ASSUME NEW us \in SUBSET Users
  PROVE  /\ Once(us) \in SUBSET Mention /\ (us # {} => Once(us) # {})
         /\ \A i \in Once(us) : i.nth = 1
<1>1. 1 \in 1..MaxNamed
  BY ChatAssumption
<1>2. \A u \in us : [user |-> u, nth |-> 1] \in Mention
  BY <1>1 DEF Mention
<1>3. Once(us) \in SUBSET Mention
  BY <1>2 DEF Once
<1>4. us # {} => Once(us) # {}
  BY DEF Once
<1>5. \A i \in Once(us) : i.nth = 1
  BY DEF Once
<1> QED
  BY <1>3, <1>4, <1>5

LEMMA StartEffect ==
  ASSUME CourseInv, NEW r \in Requests, Opens(r)
  PROVE  \E k \in Kinds, step \in Steps : First(k, step) /\ Starts(r, k, step)
<1>1. RequestsType /\ RowsType /\ TypeOK /\ joined \subseteq online
  BY Typed DEF CourseInv, TypeOK
<1>2. CASE RenameRequest(r)
  <2>1. Begin(r, None, "rename", "save") /\ loaded' = [loaded EXCEPT ![r] = members] /\ known /\ room
        /\ UNCHANGED <<rows, known, sockets, invited, stamp, heard, cut>>
    BY <1>2 DEF RenameRequest
  <2>2. members \in SUBSET Row
    BY <1>1 DEF RowsType
  <2>3. RequestsType' /\ Others(r)
    BY <1>1, <2>1, <2>2, BeginType DEF rows, Kinds, Steps
  <2>4. Starts(r, "rename", "save")
    BY <1>1, <2>1, <2>3, BeginEffect DEF RequestsType, Starts, sockets, Kinds, Steps
  <2> QED
    BY <2>4 DEF First, Kinds, Steps
<1>3. CASE DeleteRequest(r)
  <2>1. Begin(r, None, "delete", "drop members") /\ known /\ room
        /\ UNCHANGED <<rows, known, sockets, invited, loaded, stamp, heard, cut>>
    BY <1>3 DEF DeleteRequest
  <2>2. RequestsType' /\ Others(r)
    BY <1>1, <2>1, BeginType DEF rows, Kinds, Steps
  <2>3. Starts(r, "delete", "drop members")
    BY <1>1, <2>1, <2>2, BeginEffect DEF Starts, sockets, Kinds, Steps
  <2> QED
    BY <2>3 DEF First, Kinds, Steps
<1>4. ASSUME NEW u \in Users, NEW k \in {"send", "mark"}, NEW step \in {"check", "find"}, Begin(r, u, k, step), known,
             u \in online, joined' = joined \cup {u},
             UNCHANGED <<rows, known, online, listed, invited, loaded, stamp, heard, cut>>
      PROVE  Starts(r, k, step)
  <2>1. k \in Kinds /\ step \in Steps /\ u \in Users \cup {None}
    BY DEF Kinds, Steps
  <2>2. RequestsType' /\ Others(r)
    BY <1>1, <1>4, <2>1, BeginType DEF rows
  <2>3. k # "create" /\ k # "add" /\ k # "rename" /\ k # "delete"
    OBVIOUS
  <2> QED
    BY <1>1, <1>4, <2>1, <2>2, <2>3, BeginEffect DEF Starts
<1>5. ASSUME NEW u \in Users, SendRequest(r, u) PROVE \E k \in Kinds, step \in Steps : First(k, step) /\ Starts(r, k, step)
  <2>1. Starts(r, "send", "check")
    BY <1>4, <1>5 DEF SendRequest
  <2> QED
    BY <2>1 DEF First, Kinds, Steps
<1>6. ASSUME NEW u \in Users, MarkRequest(r, u) PROVE \E k \in Kinds, step \in Steps : First(k, step) /\ Starts(r, k, step)
  <2>1. Starts(r, "mark", "find")
    BY <1>4, <1>6 DEF MarkRequest
  <2> QED
    BY <2>1 DEF First, Kinds, Steps
<1>7. ASSUME NEW is \in SUBSET Mention, NEW k \in {"create", "add"}, NEW step \in {"save room", "load"},
             Begin(r, None, k, step), invited' = [invited EXCEPT ![r] = is],
             k = "add" => known /\ members # {},
             k = "create" => ~known /\ (\A q \in Requests : kind[q] # "create") /\ is # {} /\ \A i \in is : i.nth = 1,
             UNCHANGED <<rows, known, sockets, loaded, stamp, heard, cut>>
      PROVE  Starts(r, k, step)
  <2>1. k \in Kinds /\ step \in Steps /\ None \in Users \cup {None}
    BY DEF Kinds, Steps
  <2>2. RequestsType' /\ Others(r)
    BY <1>1, <1>7, <2>1, BeginType DEF rows
  <2>3. invited'[r] = is
    BY <1>1, <1>7 DEF RequestsType
  <2>4. k # "send" /\ k # "mark" /\ k # "rename" /\ k # "delete"
    OBVIOUS
  <2>5. IF k = "create"
        THEN ~known /\ (\A q \in Requests : kind[q] # "create") /\ invited'[r] # {} /\ \A i \in invited'[r] : i.nth = 1
        ELSE known
    BY <1>7, <2>3
  <2>6. UNCHANGED <<rows, known, online, listed, stamp, heard, cut>> /\ joined \subseteq joined' /\ joined' \subseteq online
    BY <1>1, <1>7 DEF sockets
  <2>7. k = "add" => members # {}
    BY <1>7
  <2>8. /\ pc[r] = "idle" /\ pc'[r] = step /\ kind'[r] = k
        /\ overlaps \subseteq overlaps' /\ overlaps' \subseteq Clashes
        /\ \A q \in Requests \ {r} : InProgress(q) /\ {k, kind[q]} \in Clashes => {k, kind[q]} \in overlaps'
    <3>1. PICK u \in Users \cup {None} : Begin(r, u, k, step)
      BY <1>7
    <3>2. pc[r] = "idle" /\ pc'[r] = step /\ kind'[r] = k
      BY <1>1, <3>1 DEF Begin, Goto, TypeOK
    <3>3. overlaps \subseteq overlaps' /\ overlaps' \subseteq Clashes
      BY <1>1, <2>1, <3>1, BeginEffect
    <3>4. ASSUME NEW q \in Requests \ {r}, InProgress(q), {k, kind[q]} \in Clashes
          PROVE  {k, kind[q]} \in overlaps'
      BY <1>1, <2>1, <3>1, <3>4, BeginEffect
    <3> QED
      BY <3>2, <3>3, <3>4
  <2> QED
    BY <2>2, <2>4, <2>5, <2>6, <2>7, <2>8 DEF Starts
<1>8. ASSUME NEW u \in Users, NEW body \in Bodies, CreateRequest(r, u, body)
      PROVE  \E k \in Kinds, step \in Steps : First(k, step) /\ Starts(r, k, step)
  <2> DEFINE us == {v \in Users : body[v] > 0} \cup {u}
  <2>1. Once(us) \in SUBSET Mention /\ Once(us) # {} /\ \A i \in Once(us) : i.nth = 1
    <3>1. us \subseteq Users /\ us # {}
      OBVIOUS
    <3> QED
      BY <3>1, NamedOnce
  <2>2. Starts(r, "create", "save room")
    BY <1>7, <1>8, <2>1 DEF CreateRequest
  <2> QED
    BY <2>2 DEF First, Kinds, Steps
<1>9. ASSUME NEW u \in Users, NEW body \in Bodies, AddRequest(r, u, body)
      PROVE  \E k \in Kinds, step \in Steps : First(k, step) /\ Starts(r, k, step)
  <2>1. Mentions(body) \in SUBSET Mention
    BY DEF Mentions
  <2>2. Starts(r, "add", "load")
    BY <1>7, <1>9, <2>1 DEF AddRequest, IsMember
  <2> QED
    BY <2>2 DEF First, Kinds, Steps
<1> QED
  BY <1>2, <1>3, <1>5, <1>6, <1>8, <1>9 DEF Opens

\* What a step is: a request begins, or goes on, or a socket connects, joins or disconnects.
Sockets == \E u \in Users : Connect(u) \/ JoinListed(u) \/ Disconnect(u)

LEMMA Moves ==
  ASSUME [Next]_vars
  PROVE  \/ \E r \in Requests : Opens(r) \/ Step(r)
         \/ Sockets
         \/ UNCHANGED vars
  BY DEF Next, Opens, Sockets

LEMMA SocketEffect ==
  ASSUME TypeOK, Sockets
  PROVE  /\ UNCHANGED <<rows, known, pc, kind, locals, heard, overlaps>>
         /\ online' \subseteq Users /\ listed' \subseteq online' /\ joined' \subseteq online'
         /\ cut \subseteq cut' /\ cut' \subseteq Requests
         /\ \A r \in Requests : kind[r] = "send" /\ InProgress(r) /\ user[r] \in joined => user[r] \in joined' \/ r \in cut'
<1>1. online \subseteq Users /\ listed \subseteq online /\ joined \subseteq online /\ cut \subseteq Requests
  BY DEF TypeOK
<1>2. ASSUME NEW u \in Users, Connect(u)
      PROVE  /\ UNCHANGED <<rows, known, pc, kind, locals, heard, overlaps, joined, cut>>
             /\ online' \subseteq Users /\ listed' \subseteq online' /\ joined' \subseteq online'
  BY <1>1, <1>2 DEF Connect
<1>3. ASSUME NEW u \in Users, JoinListed(u)
      PROVE  /\ UNCHANGED <<rows, known, pc, kind, locals, heard, overlaps, cut>> /\ joined \subseteq joined'
             /\ online' \subseteq Users /\ listed' \subseteq online' /\ joined' \subseteq online'
  BY <1>1, <1>3 DEF JoinListed
<1>4. ASSUME NEW u \in Users, Disconnect(u)
      PROVE  /\ UNCHANGED <<rows, known, pc, kind, locals, heard, overlaps>>
             /\ online' \subseteq Users /\ listed' \subseteq online' /\ joined' = joined \ {u} /\ joined' \subseteq online'
             /\ cut' = cut \cup {r \in Requests : InProgress(r) /\ kind[r] = "send" /\ user[r] = u}
  BY <1>1, <1>4 DEF Disconnect
<1> QED
  BY <1>1, <1>2, <1>3, <1>4 DEF Sockets

LEMMA TypeNext ==
  ASSUME CourseInv, [Next]_vars
  PROVE  TypeOK'
<1>1. RequestsType /\ RowsType /\ TypeOK
  BY Typed DEF CourseInv
<1>2. RequestsType' /\ RowsType' /\ online' \subseteq Users /\ listed' \subseteq online' /\ joined' \subseteq online'
      /\ heard' \subseteq Requests /\ cut' \subseteq Requests /\ overlaps' \subseteq Clashes => TypeOK'
  BY DEF TypeOK, RequestsType, RowsType, Stages
<1>3. ASSUME NEW r \in Requests, Step(r) PROVE TypeOK'
  BY <1>1, <1>2, <1>3, StepEffect DEF TypeOK, sockets
<1>4. ASSUME NEW r \in Requests, Opens(r) PROVE TypeOK'
  <2>1. PICK k \in Kinds, step \in Steps : First(k, step) /\ Starts(r, k, step)
    BY <1>4, StartEffect
  <2>2. RequestsType' /\ UNCHANGED <<rows, known, online, listed, heard, cut>> /\ joined' \subseteq online /\ overlaps' \subseteq Clashes
    BY <2>1 DEF Starts
  <2>3. RowsType'
    BY <1>1, <2>2 DEF RowsType, rows, Row
  <2> QED
    BY <1>1, <1>2, <2>2, <2>3 DEF TypeOK
<1>5. CASE Sockets
  <2>1. RowsType' /\ RequestsType'
    BY <1>1, <1>5, SocketEffect DEF RowsType, rows, Row, RequestsType, locals
  <2> QED
    BY <1>1, <1>2, <1>5, <2>1, SocketEffect DEF TypeOK
<1>6. CASE UNCHANGED vars
  BY <1>1, <1>6 DEF vars, rows, sockets, locals, TypeOK, Row
<1> QED
  BY <1>3, <1>4, <1>5, <1>6, Moves

\* How a request that is in progress goes on.
Passages ==
  {<<"save room", "save members">>, <<"save members", "reply">>, <<"load", "save members">>, <<"load", "reply">>,
   <<"check", "insert">>, <<"insert", "emit">>, <<"find", "save row">>, <<"find", "reply">>, <<"save row", "reply">>,
   <<"save", "reply">>, <<"drop members", "drop messages">>, <<"drop messages", "drop room">>, <<"drop room", "reply">>}

Ends == {<<"check", "refused">>, <<"emit", "ok">>, <<"reply", "ok">>}

LEMMA StepCourse ==
  ASSUME CourseInv, NEW r \in Requests, Step(r)
  PROVE  /\ InProgress(r)
         /\ \/ pc'[r] = "error"
            \/ <<pc[r], pc'[r]>> \in Ends /\ (kind[r] = "mark" /\ pc'[r] = "ok" => user'[r] = user[r] /\ stamp'[r] = stamp[r])
            \/ <<pc[r], pc'[r]>> \in Passages /\ user'[r] = user[r]
         /\ pc'[r] = "save row" => /\ stamp'[r] = clock
                                   /\ \E m \in members : loaded'[r] = {m} /\ m.user = user[r]
         /\ pc'[r] # "save row" /\ InProgress(r)' => stamp'[r] = stamp[r] /\ loaded'[r] = loaded[r]
         /\ pc'[r] = "save members" /\ pc[r] = "save room" => invited'[r] = invited[r]
<1>1. RequestsType /\ TypeOK
  BY Typed DEF CourseInv
<1>2. ASSUME NEW step \in Steps, pc[r] \in Steps, Goto(r, step), UNCHANGED <<kind, locals>>, <<pc[r], step>> \in Passages,
             step # "save row"
      PROVE  /\ InProgress(r) /\ pc'[r] = step /\ user'[r] = user[r] /\ stamp'[r] = stamp[r] /\ loaded'[r] = loaded[r]
             /\ invited'[r] = invited[r] /\ <<pc[r], pc'[r]>> \in Passages
  BY <1>1, <1>2 DEF Goto, locals, RequestsType, InProgress
<1>3. CASE SaveRoom(r) \/ SaveMembers(r) \/ FindNoRow(r) \/ SaveRow(r) \/ SaveRenamed(r)
           \/ DropMembers(r) \/ DropMessages(r) \/ DropRoom(r) \/ InsertMessage(r)
  <2>1. PICK step \in Steps : /\ Goto(r, step) /\ pc[r] \in Steps /\ <<pc[r], step>> \in Passages
                              /\ step # "save row" /\ UNCHANGED <<kind, locals>>
    BY <1>3 DEF SaveRoom, SaveMembers, FindNoRow, SaveRow, SaveRenamed, DropMembers, DropMessages, DropRoom, InsertMessage,
       Passages, Steps
  <2> QED
    BY <1>2, <2>1
<1>4. CASE LoadRoom(r)
  <2>1. PICK step \in {"reply", "save members"} : Goto(r, step)
    BY <1>4 DEF LoadRoom
  <2>2. pc[r] = "load" /\ UNCHANGED <<kind, user, loaded, stamp>> /\ pc'[r] = step
    BY <1>1, <1>4, <2>1 DEF LoadRoom, Goto, RequestsType
  <2> QED
    BY <2>2 DEF InProgress, Steps, Passages
<1>5. CASE CheckSender(r)
  <2>1. pc[r] = "check" /\ InProgress(r)
    BY <1>5 DEF CheckSender, InProgress, Steps
  <2>2. CASE Goto(r, "insert") /\ UNCHANGED locals
    BY <1>1, <2>1, <2>2 DEF Goto, locals, RequestsType, Passages
  <2>3. CASE End(r, "refused")
    <3>1. pc'[r] = "refused"
      BY <1>1, <2>3 DEF End, Goto, RequestsType
    <3>2. ~InProgress(r)'
      BY <3>1 DEF InProgress, Steps
    <3> QED
      BY <2>1, <3>1, <3>2 DEF Ends
  <2> QED
    BY <1>5, <2>2, <2>3 DEF CheckSender
<1>6. CASE FindRow(r)
  <2>1. PICK m \in members : /\ m.user = user[r] /\ loaded' = [loaded EXCEPT ![r] = {m}] /\ stamp' = [stamp EXCEPT ![r] = clock]
                             /\ Goto(r, "save row")
    BY <1>6 DEF FindRow
  <2>2. pc[r] = "find" /\ user' = user /\ InProgress(r)
    BY <1>6 DEF FindRow, InProgress, Steps
  <2>3. pc'[r] = "save row" /\ loaded'[r] = {m} /\ stamp'[r] = clock
    BY <1>1, <2>1 DEF Goto, RequestsType
  <2> QED
    BY <2>1, <2>2, <2>3 DEF Passages
<1>7. ASSUME NEW outcome \in {"ok", "error"}, End(r, outcome), UNCHANGED kind, InProgress(r),
             outcome = "ok" => pc[r] \in {"reply", "emit"}
      PROVE  /\ pc'[r] = "error" \/ (<<pc[r], pc'[r]>> \in Ends /\ (kind[r] = "mark" /\ pc'[r] = "ok" => user'[r] = user[r] /\ stamp'[r] = stamp[r]))
             /\ ~InProgress(r)' /\ pc'[r] = outcome
  <2>1. pc'[r] = outcome
    BY <1>1, <1>7 DEF End, Goto, RequestsType
  <2>2. ~InProgress(r)'
    BY <2>1 DEF InProgress, Steps
  <2> QED
    BY <1>7, <2>1, <2>2 DEF Ends, End
<1>8. CASE EmitMessage(r) \/ Reply(r) \/ Abort(r)
  <2>1. PICK outcome \in {"ok", "error"} : /\ End(r, outcome) /\ UNCHANGED kind /\ InProgress(r)
                                           /\ outcome = "ok" => pc[r] \in {"reply", "emit"}
    BY <1>8 DEF EmitMessage, Reply, Abort, InProgress, Steps
  <2> QED
    BY <1>7, <2>1
<1> QED
  BY <1>3, <1>4, <1>5, <1>6, <1>8 DEF Step

LEMMA FitsNext ==
  ASSUME CourseInv, [Next]_vars, NEW q \in Requests
  PROVE  Fits(q)'
<1>1. Fits(q) /\ TypeOK /\ RequestsType
  BY Typed DEF CourseInv
<1>2. Row \subseteq Row' \/ UNCHANGED <<pc, kind, locals, clock>>
  <2>1. ASSUME NEW r \in Requests, Step(r) PROVE clock' \in Nat /\ clock' >= clock
    <3>1. clock' = clock \/ clock' = clock + 1
      BY <2>1 DEF Step, SaveRoom, SaveMembers, LoadRoom, CheckSender, InsertMessage, EmitMessage, FindRow, FindNoRow,
         SaveRow, SaveRenamed, DropMembers, DropMessages, DropRoom, Reply, Abort, rows
    <3> QED
      BY <1>1, <3>1 DEF TypeOK
  <2>2. ASSUME NEW r \in Requests, Opens(r) PROVE clock' = clock
    BY <2>2, StartEffect DEF Starts, rows
  <2>3. CASE Sockets
    BY <1>1, <2>3, SocketEffect DEF rows
  <2> QED
    BY <1>1, <2>1, <2>2, <2>3, Moves, RowsStay DEF vars, rows, TypeOK
<1>3. ASSUME pc'[q] = pc[q], kind'[q] = kind[q], user'[q] = user[q], stamp'[q] = stamp[q], loaded'[q] = loaded[q],
             Row \subseteq Row'
      PROVE  Fits(q)'
  BY <1>1, <1>3 DEF Fits, InProgress
<1>4. ASSUME NEW r \in Requests, Step(r) PROVE Fits(q)'
  <2>1. Row \subseteq Row'
    BY <1>2, <1>4, StepCourse, StepEffect DEF Row
  <2>2. CASE q # r
    BY <1>3, <1>4, <2>1, <2>2, StepEffect DEF Others
  <2>3. CASE q = r
    <3>1. kind'[r] = kind[r] /\ kind[r] # "none" /\ InProgress(r)
      BY <1>1, <1>4, <2>3, StepEffect, StepCourse DEF Fits, InProgress, Steps
    <3>2. CASE pc'[r] = "error" \/ <<pc[r], pc'[r]>> \in Ends
      <4>1. pc'[r] \in {"error", "refused", "ok"}
        BY <3>2 DEF Ends
      <4> QED
        BY <2>3, <3>1, <4>1 DEF Fits, InProgress, Steps
    <3>3. CASE <<pc[r], pc'[r]>> \in Passages /\ user'[r] = user[r]
      <4>1. pc'[r] = "save row" => stamp'[r] # None /\ \E m \in Row' : loaded'[r] = {m} /\ m.user = user'[r]
        BY <1>1, <1>4, <2>1, <3>3, StepCourse, ChatAssumption DEF TypeOK
      <4> QED
        BY <1>1, <2>3, <3>1, <3>3, <4>1 DEF Fits, Passages, InProgress
    <3> QED
      BY <1>4, <3>2, <3>3, StepCourse
  <2> QED
    BY <2>2, <2>3
<1>5. ASSUME NEW r \in Requests, Opens(r) PROVE Fits(q)'
  <2>1. PICK k \in Kinds, step \in Steps : First(k, step) /\ Starts(r, k, step)
    BY <1>5, StartEffect
  <2>2. Row' = Row
    BY <2>1 DEF Starts, rows, Row
  <2>3. CASE q # r
    BY <1>3, <2>1, <2>2, <2>3 DEF Starts, Others
  <2>4. CASE q = r
    <3>1. pc'[r] = step /\ kind'[r] = k /\ (k \in {"send", "mark"} => user'[r] \in Users)
      BY <2>1 DEF Starts
    <3> QED
      BY <2>1, <2>4, <3>1 DEF First, Fits, InProgress, Steps
  <2> QED
    BY <2>3, <2>4
<1>6. CASE Sockets
  BY <1>1, <1>6, SocketEffect DEF Fits, InProgress, rows, locals, Row
<1>7. CASE UNCHANGED vars
  BY <1>1, <1>7 DEF Fits, InProgress, vars, rows, locals, Row
<1> QED
  BY <1>4, <1>5, <1>6, <1>7, Moves

\* Requests keep their kind once they have one, and a request that begins says so.
LEMMA KindsStay ==
  ASSUME CourseInv, [Next]_vars, NEW q \in Requests
  PROVE  \/ kind'[q] = kind[q] /\ (InProgress(q)' => InProgress(q))
         \/ Opens(q) /\ \E k \in Kinds, step \in Steps : First(k, step) /\ Starts(q, k, step)
<1>1. ASSUME NEW r \in Requests, Step(r) PROVE kind'[q] = kind[q] /\ (InProgress(q)' => InProgress(q))
  BY <1>1, StepEffect, StepCourse DEF Others, InProgress
<1>2. ASSUME NEW r \in Requests, Opens(r), r # q PROVE kind'[q] = kind[q] /\ (InProgress(q)' => InProgress(q))
  <2>1. PICK k \in Kinds, step \in Steps : First(k, step) /\ Starts(r, k, step)
    BY <1>2, StartEffect
  <2> QED
    BY <1>2, <2>1 DEF Starts, Others, InProgress
<1>3. CASE Opens(q)
  BY <1>3, StartEffect
<1>4. CASE Sockets
  BY <1>4, SocketEffect DEF CourseInv, InProgress
<1>5. CASE UNCHANGED vars
  BY <1>5 DEF vars, InProgress
<1> QED
  BY <1>1, <1>2, <1>3, <1>4, <1>5, Moves

\* Which steps change the rows, or make the room known.
LEMMA RowsEffect ==
  ASSUME CourseInv, [Next]_vars
  PROVE  \/ UNCHANGED <<room, members, messages, known>>
         \/ \E r \in Requests : \/ SaveRoom(r) \/ SaveMembers(r) \/ InsertMessage(r) \/ SaveRow(r) \/ SaveRenamed(r)
                                \/ DropMembers(r) \/ DropMessages(r) \/ DropRoom(r)
<1>1. ASSUME NEW r \in Requests, Opens(r) PROVE UNCHANGED <<room, members, messages, known>>
  BY <1>1, StartEffect DEF Starts, rows
<1>2. ASSUME NEW r \in Requests,
             LoadRoom(r) \/ CheckSender(r) \/ EmitMessage(r) \/ FindRow(r) \/ FindNoRow(r) \/ Reply(r) \/ Abort(r)
      PROVE  UNCHANGED <<room, members, messages, known>>
  BY <1>2 DEF LoadRoom, CheckSender, EmitMessage, FindRow, FindNoRow, Reply, Abort, rows
<1>3. CASE Sockets \/ UNCHANGED vars
  BY <1>3, SocketEffect DEF CourseInv, rows, vars
<1> QED
  BY <1>1, <1>2, <1>3, Moves DEF Step

LEMMA KnownNext ==
  ASSUME CourseInv, [Next]_vars
  PROVE  KnownFits'
<1>1. KnownFits /\ known \in BOOLEAN /\ room \in BOOLEAN
  BY DEF CourseInv, TypeOK
<1>2. known => known'
  BY RowsEffect DEF SaveRoom, SaveMembers, InsertMessage, SaveRow, SaveRenamed, DropMembers, DropMessages, DropRoom
\* Before the room is known there is nothing but a creation.
<1>3. ASSUME ~known' PROVE members' = {} /\ \A r \in Requests : kind'[r] \in {"none", "create"}
  <2>1. ~known
    BY <1>2, <1>3
  <2>2. \A r \in Requests : kind[r] \in {"none", "create"} /\ Fits(r)
    BY <1>1, <2>1 DEF KnownFits, CourseInv
  <2>3. \A r \in Requests : kind'[r] \in {"none", "create"}
    BY <2>1, <2>2, KindsStay DEF Starts, First
  <2>4. members' = {}
    BY <1>1, <1>3, <2>1, <2>2, RowsEffect DEF KnownFits, Fits, SaveRoom, SaveMembers, InsertMessage, SaveRow, SaveRenamed, DropMembers,
       DropMessages, DropRoom
  <2> QED
    BY <2>3, <2>4
<1>4. ASSUME NEW r \in Requests, NEW q \in Requests, kind'[r] = "create", kind'[q] = "create", r # q PROVE FALSE
  <2>1. ASSUME NEW p \in Requests, NEW o \in Requests, o # p, kind[o] = "create", kind'[o] = "create", NEW k \in Kinds,
               NEW step \in Steps, First(k, step), Starts(p, k, step), kind'[p] = "create"
        PROVE  FALSE
    BY <2>1 DEF Starts
  <2>2. CASE kind'[r] = kind[r] /\ kind'[q] = kind[q]
    BY <1>1, <1>4, <2>2 DEF KnownFits
  <2>3. ASSUME NEW p \in {r, q}, NEW k \in Kinds, NEW step \in Steps, First(k, step), Starts(p, k, step)
        PROVE  FALSE
    <3>1. PICK o \in {r, q} : o # p
      BY <1>4
    <3>2. kind'[o] = kind[o]
      BY <2>3, <3>1 DEF Starts, Others
    <3> QED
      BY <1>4, <2>1, <2>3, <3>1, <3>2
  <2> QED
    BY <2>2, <2>3, KindsStay
<1>5. ASSUME NEW r \in Requests, kind'[r] = "create", pc'[r] \in {"save room", "save members"}
      PROVE  ~known' /\ invited'[r] # {} /\ \A i \in invited'[r] : i.nth = 1
  <2>1. CASE Opens(r)
    BY <1>1, <1>5, <2>1, StartEffect DEF Starts, First
  <2>2. CASE /\ kind[r] = "create" /\ pc[r] \in {"save room", "save members"} /\ invited'[r] = invited[r]
             /\ \A q \in Requests : ~SaveMembers(q)
    <3>1. known' = known
      BY <2>2, RowsEffect DEF SaveRoom, InsertMessage, SaveRow, SaveRenamed, DropMembers, DropMessages, DropRoom
    <3> QED
      BY <1>1, <2>2, <3>1 DEF KnownFits
  <2>3. ASSUME NEW q \in Requests, Step(q), ~Opens(r)
        PROVE  /\ kind[r] = "create" /\ pc[r] \in {"save room", "save members"} /\ invited'[r] = invited[r]
               /\ \A p \in Requests : ~SaveMembers(p)
    <3>1. kind[r] = "create"
      BY <1>5, <2>3, KindsStay
    <3>2. pc[r] \in {"save room", "save members"} /\ invited'[r] = invited[r]
      <4>1. CASE q # r
        BY <1>5, <2>3, <4>1, StepEffect DEF Others
      <4>2. CASE q = r
        <5>1. <<pc[r], pc'[r]>> \in Passages \cup Ends
          BY <1>5, <2>3, <4>2, StepCourse
        <5>2. pc[r] # "load"
          BY <3>1 DEF CourseInv, Fits
        <5> QED
          BY <1>5, <2>3, <4>2, <5>1, <5>2, StepCourse DEF Passages, Ends
      <4> QED
        BY <4>1, <4>2
    <3>3. ASSUME NEW p \in Requests, SaveMembers(p) PROVE FALSE
      <4>1. kind[p] \in {"create", "add"} /\ ~known /\ pc[p] = "save members"
        BY <1>1, <3>1, <3>2, <3>3 DEF SaveMembers, CourseInv, Fits, KnownFits
      <4>2. p = r
        BY <1>1, <3>1, <4>1 DEF KnownFits
      <4>3. pc'[r] = "reply"
        BY <3>3, <4>2 DEF SaveMembers, Goto, CourseInv, TypeOK
      <4> QED
        BY <1>5, <4>3
    <3> QED
      BY <3>1, <3>2, <3>3
  <2>4. ASSUME ~Opens(r), UNCHANGED <<known, invited, pc, kind>> \/ \E q \in Requests : Opens(q)
        PROVE  ~known' /\ invited'[r] # {} /\ \A i \in invited'[r] : i.nth = 1
    <3>1. UNCHANGED known /\ invited'[r] = invited[r] /\ pc'[r] = pc[r] /\ kind'[r] = kind[r]
      BY <2>4, StartEffect DEF Starts, Others
    <3> QED
      BY <1>1, <1>5, <3>1 DEF KnownFits
  <2>5. CASE Sockets \/ UNCHANGED vars
    BY <2>1, <2>4, <2>5, SocketEffect DEF CourseInv, locals, vars, rows
  <2> QED
    BY <2>1, <2>2, <2>3, <2>4, <2>5, Moves
<1>6. ASSUME ~room' PROVE members' = {} /\ messages' = {}
  BY <1>1, <1>6, RowsEffect DEF KnownFits, SaveRoom, SaveMembers, InsertMessage, SaveRow, SaveRenamed, DropMembers,
     DropMessages, DropRoom
<1> QED
  BY <1>3, <1>4, <1>5, <1>6 DEF KnownFits

LEMMA OverlapsNext ==
  ASSUME CourseInv, [Next]_vars
  PROVE  OverlapsNoted'
<1> SUFFICES ASSUME NEW r \in Requests, NEW q \in Requests, r # q, InProgress(r)', InProgress(q)',
                    {kind'[r], kind'[q]} \in Clashes
             PROVE  {kind'[r], kind'[q]} \in overlaps'
  BY DEF OverlapsNoted
<1>1. overlaps \subseteq overlaps'
  <2>1. ASSUME NEW p \in Requests, Step(p) PROVE overlaps' = overlaps
    BY <2>1, StepEffect
  <2>2. ASSUME NEW p \in Requests, Opens(p) PROVE overlaps \subseteq overlaps'
    BY <2>2, StartEffect DEF Starts
  <2> QED
    BY <2>1, <2>2, Moves, SocketEffect DEF CourseInv, vars
<1>2. ASSUME NEW p \in Requests, NEW o \in Requests, o # p, NEW k \in Kinds, NEW step \in Steps, Starts(p, k, step),
             {kind'[p], kind'[o]} \in Clashes, InProgress(o)'
      PROVE  {kind'[p], kind'[o]} \in overlaps'
  <2>1. kind'[p] = k /\ kind'[o] = kind[o] /\ InProgress(o)
    BY <1>2 DEF Starts, Others, InProgress
  <2> QED
    BY <1>2, <2>1 DEF Starts
<1>3. CASE kind'[r] = kind[r] /\ kind'[q] = kind[q] /\ InProgress(r) /\ InProgress(q)
  BY <1>1, <1>3 DEF CourseInv, OverlapsNoted
<1>4. {kind'[r], kind'[q]} = {kind'[q], kind'[r]}
  OBVIOUS
<1> QED
  BY <1>2, <1>3, <1>4, KindsStay

LEMMA CourseInit == Init => CourseInv
<1> SUFFICES ASSUME Init PROVE CourseInv
  OBVIOUS
<1>1. TypeOK
  <2>1. members \subseteq Row
    BY ChatAssumption DEF Init, Row
  <2> QED
    BY <2>1 DEF Init, TypeOK
<1>2. \A r \in Requests : Fits(r)
  BY DEF Init, Fits, InProgress, Steps
<1>3. KnownFits
  BY DEF Init, KnownFits
<1>4. OverlapsNoted
  BY DEF Init, OverlapsNoted, InProgress, Steps
<1> QED
  BY <1>1, <1>2, <1>3, <1>4 DEF CourseInv

LEMMA OnCourse == Spec => []CourseInv
<1>1. CourseInv /\ [Next]_vars => CourseInv'
  BY TypeNext, FitsNext, KnownNext, OverlapsNext DEF CourseInv
<1> QED
  BY <1>1, CourseInit, PTL DEF Spec

\* The rows, the sockets and the requests have their types, and no lastReadAt lies in the
\* future.
THEOREM Typing == Spec => []TypeOK
  BY OnCourse, PTL DEF CourseInv

-----------------------------------------------------------------------------
(* Which rows stay *)

\* The row a mark saves: the one it has loaded, with its time.
LEMMA SavedRow ==
  ASSUME CourseInv, NEW r \in Requests, SaveRow(r)
  PROVE  \E m, n \in Row :
           /\ loaded[r] = {m} /\ m.user = user[r] /\ stamp[r] # None
           /\ SameRow(m, n) /\ n.user = user[r] /\ n.read = stamp[r]
           /\ members' = {k \in members : ~SameRow(k, m)} \cup {n}
<1>1. /\ stamp[r] # None /\ stamp[r] \in 0..clock \cup {None}
      /\ members' = {k \in members : \A l \in loaded[r] : ~SameRow(k, l)} \cup {[l EXCEPT !.read = stamp[r]] : l \in loaded[r]}
      /\ \E m \in Row : loaded[r] = {m} /\ m.user = user[r]
  BY DEF SaveRow, CourseInv, Fits, TypeOK
<1>2. PICK m \in Row : loaded[r] = {m} /\ m.user = user[r]
  BY <1>1
<1> DEFINE n == [m EXCEPT !.read = stamp[r]]
<1>3. n \in Row /\ n.by = m.by /\ n.user = m.user /\ n.nth = m.nth /\ n.read = stamp[r]
  BY <1>1 DEF Row
<1>4. {[l EXCEPT !.read = stamp[r]] : l \in loaded[r]} = {n}
  BY <1>2
<1>5. {k \in members : \A l \in loaded[r] : ~SameRow(k, l)} = {k \in members : ~SameRow(k, m)}
  BY <1>2
<1> HIDE DEF n
<1> QED
  BY <1>1, <1>2, <1>3, <1>4, <1>5 DEF SameRow

\* The rows change as a creation, an addition, a mark or a renaming saves them, or they go
\* with a deletion.
LEMMA MembersEffect ==
  ASSUME CourseInv, [Next]_vars
  PROVE  \/ members' = members
         \/ \E r \in Requests : SaveMembers(r) \/ SaveRow(r) \/ SaveRenamed(r)
         \/ \E r \in Requests : /\ kind[r] = "delete" /\ pc[r] \in {"drop members", "drop room"}
                                /\ DropMembers(r) \/ DropRoom(r)
                                /\ members' = {}
  BY RowsEffect DEF SaveRoom, InsertMessage, DropMembers, DropMessages, DropRoom, CourseInv, Fits

LEMMA RowsAreKept ==
  ASSUME CourseInv, [Next]_vars, NEW m \in members
  PROVE  \/ \E n \in members' : SameRow(m, n)
         \/ \E r \in Requests : kind[r] = "delete" /\ pc[r] \in {"drop members", "drop room"} /\ members' = {}
<1>1. SameRow(m, m)
  BY DEF SameRow
<1>2. ASSUME NEW r \in Requests, SaveRow(r) PROVE \E n \in members' : SameRow(m, n)
  <2>1. PICK k, n \in Row : SameRow(k, n) /\ members' = {l \in members : ~SameRow(l, k)} \cup {n}
    BY <1>2, SavedRow
  <2>2. CASE SameRow(m, k)
    BY <2>1, <2>2 DEF SameRow
  <2>3. CASE ~SameRow(m, k)
    BY <1>1, <2>1, <2>3
  <2> QED
    BY <2>2, <2>3
<1>3. ASSUME NEW r \in Requests, SaveRenamed(r) PROVE \E n \in members' : SameRow(m, n)
  BY <1>3 DEF SaveRenamed
<1>4. ASSUME NEW r \in Requests, SaveMembers(r) PROVE \E n \in members' : SameRow(m, n)
  BY <1>1, <1>4 DEF SaveMembers
<1> QED
  BY <1>1, <1>2, <1>3, <1>4, MembersEffect

\* Nobody but somebody who deletes the room ends a membership.
THEOREM MembershipsAreKept == Spec => MembersAreKept
<1>1. ASSUME CourseInv, [Next]_vars
      PROVE  [(\A r \in Requests : kind'[r] # "delete") => \A m \in members : \E n \in members' : SameRow(m, n)]_vars
  <2>1. \A r \in Requests : kind[r] = "delete" => kind'[r] = "delete"
    BY <1>1, KindsStay DEF Starts, CourseInv, Fits
  <2> QED
    BY <1>1, <2>1, RowsAreKept
<1> QED
  BY <1>1, OnCourse, PTL DEF Spec, MembersAreKept

-----------------------------------------------------------------------------
(* A deleted room *)

\* A room is there while it is renamed, and it is gone once it was deleted.
GoneInv ==
  Apart("rename", "delete") =>
    /\ \A r \in Requests : pc[r] = "save" => room
    /\ \A r \in Requests : kind[r] = "delete" /\ pc[r] \in {"reply", "ok"} => ~room

LEMMA ApartBefore == CourseInv /\ [Next]_vars => overlaps \subseteq overlaps'
<1> SUFFICES ASSUME CourseInv, [Next]_vars PROVE overlaps \subseteq overlaps'
  OBVIOUS
<1>1. ASSUME NEW r \in Requests, Step(r) PROVE overlaps' = overlaps
  BY <1>1, StepEffect
<1>2. ASSUME NEW r \in Requests, Opens(r) PROVE overlaps \subseteq overlaps'
  BY <1>2, StartEffect DEF Starts
<1> QED
  BY <1>1, <1>2, Moves, SocketEffect DEF CourseInv, vars

\* A request stays where it is.
Waits(r) ==
  /\ pc'[r] = pc[r] /\ kind'[r] = kind[r]
  /\ user'[r] = user[r] /\ invited'[r] = invited[r] /\ loaded'[r] = loaded[r] /\ stamp'[r] = stamp[r]

\* How a request has come to where it is.
LEMMA Arrivals ==
  ASSUME CourseInv, [Next]_vars, NEW r \in Requests
  PROVE  \/ Waits(r)
         \/ Step(r) /\ kind'[r] = kind[r]
         \/ \E k \in Kinds, step \in Steps : First(k, step) /\ Starts(r, k, step)
<1>1. ASSUME NEW q \in Requests, Step(q), q # r PROVE Waits(r)
  BY <1>1, StepEffect DEF Others, Waits
<1>2. ASSUME NEW q \in Requests, Opens(q), q # r PROVE Waits(r)
  BY <1>2, StartEffect DEF Starts, Others, Waits
<1>3. CASE Step(r)
  BY <1>3, StepEffect
<1>4. CASE Opens(r)
  BY <1>4, StartEffect
<1>5. CASE Sockets \/ UNCHANGED vars
  BY <1>5, SocketEffect DEF CourseInv, vars, locals, Waits
<1> QED
  BY <1>1, <1>2, <1>3, <1>4, <1>5, Moves

LEMMA GoneNext == CourseInv /\ GoneInv /\ [Next]_vars => GoneInv'
<1> SUFFICES ASSUME CourseInv, GoneInv, [Next]_vars, Apart("rename", "delete")' PROVE GoneInv'
  BY DEF GoneInv
<1>1. /\ Apart("rename", "delete") /\ CourseInv'
      /\ \A r \in Requests : pc[r] = "save" => room
      /\ \A r \in Requests : kind[r] = "delete" /\ pc[r] \in {"reply", "ok"} => ~room
  BY ApartBefore, TypeNext, FitsNext, KnownNext, OverlapsNext DEF Apart, GoneInv, CourseInv
\* A renaming and a deletion in progress together would have been noted.
<1>2. ASSUME NEW r \in Requests, NEW q \in Requests, kind[r] = "rename", kind[q] = "delete" PROVE ~(InProgress(r) /\ InProgress(q))
  BY <1>1, <1>2 DEF CourseInv, OverlapsNoted, Apart, Clashes
<1>3. ASSUME NEW r \in Requests, NEW q \in Requests, DropRoom(q), pc[r] = "save" PROVE FALSE
  BY <1>2, <1>3 DEF DropRoom, CourseInv, Fits, InProgress, Steps
<1>4. ASSUME NEW r \in Requests, pc'[r] = "save" PROVE room'
  <2>1. CASE pc[r] = "save"
    <3>1. room /\ \A q \in Requests : ~DropRoom(q)
      BY <1>1, <1>3, <2>1
    <3>2. ASSUME NEW q \in Requests, SaveRoom(q) \/ SaveRenamed(q) PROVE room'
      BY <3>2 DEF SaveRoom, SaveRenamed
    <3>3. ASSUME NEW q \in Requests,
                 SaveMembers(q) \/ InsertMessage(q) \/ SaveRow(q) \/ DropMembers(q) \/ DropMessages(q)
          PROVE  room'
      BY <3>1, <3>3 DEF SaveMembers, InsertMessage, SaveRow, DropMembers, DropMessages
    <3> QED
      BY <1>1, <3>1, <3>2, <3>3, RowsEffect
  <2>2. CASE pc[r] # "save"
    <3>1. ~Step(r) \/ pc'[r] # "save"
      BY StepCourse DEF Passages, Ends
    <3>2. PICK k \in Kinds, step \in Steps : First(k, step) /\ Starts(r, k, step)
      BY <1>4, <2>2, <3>1, Arrivals DEF Waits
    <3> QED
      BY <1>4, <3>2 DEF Starts, First, rows
  <2> QED
    BY <2>1, <2>2
<1>5. ASSUME NEW r \in Requests, kind'[r] = "delete", pc'[r] \in {"reply", "ok"} PROVE ~room'
  <2>1. CASE kind[r] = "delete" /\ pc[r] \in {"reply", "ok"}
    <3>1. ~room /\ \A q \in Requests : pc[q] # "save" /\ pc[q] # "save room"
      <4>1. known /\ ~room
        BY <1>1, <2>1 DEF CourseInv, KnownFits
      <4> QED
        BY <1>1, <4>1 DEF CourseInv, KnownFits, Fits
    <3> QED
      BY <3>1, RowsEffect DEF SaveRoom, SaveMembers, InsertMessage, SaveRow, SaveRenamed, DropMembers, DropMessages, DropRoom
  <2>2. CASE ~(kind[r] = "delete" /\ pc[r] \in {"reply", "ok"})
    <3>1. Step(r) /\ kind[r] = "delete"
      BY <1>5, <2>2, Arrivals DEF Starts, First, Waits
    <3>2. pc[r] = "drop room" /\ pc'[r] = "reply"
      BY <1>5, <2>2, <3>1, StepCourse DEF Passages, Ends, CourseInv, Fits
    <3>3. DropRoom(r) \/ Reply(r) \/ Abort(r)
      BY <3>1, <3>2 DEF Step, SaveRoom, SaveMembers, LoadRoom, CheckSender, InsertMessage, EmitMessage, FindRow, FindNoRow,
         SaveRow, SaveRenamed, DropMembers, DropMessages
    <3>4. ~Abort(r)
      BY <3>2 DEF Abort, End, Goto, CourseInv, TypeOK
    <3> QED
      BY <3>2, <3>3, <3>4 DEF DropRoom, Reply
  <2> QED
    BY <2>1, <2>2
<1> QED
  BY <1>4, <1>5 DEF GoneInv

LEMMA RoomsGo == Spec => []GoneInv
<1>1. Init => GoneInv
  BY DEF Init, GoneInv
<1> QED
  BY <1>1, GoneNext, OnCourse, PTL DEF Spec

\* Nothing is left of a room once its deletion was acknowledged, whatever was going on
\* meanwhile, unless it was being renamed.
THEOREM DeletionIsComplete == Spec => []DeletedRoomIsGone
<1>1. CourseInv /\ GoneInv => DeletedRoomIsGone
  BY DEF CourseInv, KnownFits, GoneInv, DeletedRoomIsGone, Succeeded
<1> QED
  BY <1>1, RoomsGo, OnCourse, PTL

-----------------------------------------------------------------------------
(* Messages and sockets *)

\* The socket of a user whose message is under way is in the room, unless it disconnected
\* since, and it got the message when it was sent.
HearsInv ==
  \A r \in Requests : kind[r] = "send" /\ r \notin cut =>
    /\ InProgress(r) => user[r] \in joined
    /\ pc[r] = "ok" => r \in heard

\* Only a message that is emitted is heard, and what was heard stays heard.
LEMMA HeardEffect ==
  ASSUME CourseInv, NEW r \in Requests, Step(r)
  PROVE  /\ heard \subseteq heard'
         /\ kind[r] = "send" /\ pc'[r] = "ok" => (user[r] \in joined => r \in heard')
<1>1. heard \subseteq heard'
  BY DEF Step, SaveRoom, SaveMembers, LoadRoom, CheckSender, InsertMessage, EmitMessage, FindRow, FindNoRow, SaveRow,
     SaveRenamed, DropMembers, DropMessages, DropRoom, Reply, Abort
<1>2. ASSUME kind[r] = "send", pc'[r] = "ok", user[r] \in joined PROVE r \in heard'
  <2>1. pc[r] = "emit"
    BY <1>2, StepCourse DEF Ends, Passages, CourseInv, Fits
  <2>2. ~Abort(r)
    BY <1>2 DEF Abort, End, Goto, CourseInv, TypeOK
  <2>3. EmitMessage(r)
    BY <2>1, <2>2 DEF Step, SaveRoom, SaveMembers, LoadRoom, CheckSender, InsertMessage, FindRow, FindNoRow, SaveRow,
       SaveRenamed, DropMembers, DropMessages, DropRoom, Reply
  <2> QED
    BY <1>2, <2>3 DEF EmitMessage
<1> QED
  BY <1>1, <1>2

LEMMA HearsNext == CourseInv /\ HearsInv /\ [Next]_vars => HearsInv'
<1> SUFFICES ASSUME CourseInv, HearsInv, [Next]_vars, NEW r \in Requests, kind'[r] = "send", r \notin cut'
             PROVE  /\ InProgress(r)' => user'[r] \in joined'
                    /\ pc'[r] = "ok" => r \in heard'
  BY DEF HearsInv
<1>1. ASSUME NEW q \in Requests, Step(q) PROVE (InProgress(r)' => user'[r] \in joined') /\ (pc'[r] = "ok" => r \in heard')
  <2>1. cut' = cut /\ joined' = joined /\ kind' = kind /\ heard \subseteq heard' /\ Others(q)
    BY <1>1, StepEffect, HeardEffect DEF sockets
  <2>2. CASE q # r
    BY <2>1, <2>2 DEF HearsInv, Others, InProgress
  <2>3. CASE q = r
    <3>1. InProgress(r) /\ user[r] \in joined
      BY <1>1, <2>1, <2>3, StepCourse DEF HearsInv
    <3>2. InProgress(r)' => user'[r] = user[r]
      BY <1>1, <2>3, StepCourse DEF Ends, InProgress, Steps
    <3> QED
      BY <1>1, <2>1, <2>3, <3>1, <3>2, HeardEffect
  <2> QED
    BY <2>2, <2>3
<1>2. ASSUME NEW q \in Requests, Opens(q) PROVE (InProgress(r)' => user'[r] \in joined') /\ (pc'[r] = "ok" => r \in heard')
  <2>1. PICK k \in Kinds, step \in Steps : First(k, step) /\ Starts(q, k, step)
    BY <1>2, StartEffect
  <2>2. cut' = cut /\ heard' = heard /\ joined \subseteq joined'
    BY <2>1 DEF Starts
  <2>3. CASE q # r
    BY <2>1, <2>2, <2>3 DEF Starts, HearsInv, Others, InProgress
  <2>4. CASE q = r
    BY <2>1, <2>4 DEF Starts, Steps
  <2> QED
    BY <2>3, <2>4
<1>3. CASE Sockets
  BY <1>3, SocketEffect DEF CourseInv, HearsInv, InProgress, locals
<1>4. CASE UNCHANGED vars
  BY <1>4 DEF vars, sockets, locals, HearsInv, InProgress
<1> QED
  BY <1>1, <1>2, <1>3, <1>4, Moves

\* Whoever sends a message gets it, as long as the socket stays connected.
THEOREM SendersHear == Spec => []SenderHears
<1>1. Init => HearsInv
  BY DEF Init, HearsInv
<1>2. HearsInv => SenderHears
  BY DEF HearsInv, SenderHears, Succeeded
<1> QED
  BY <1>1, <1>2, HearsNext, OnCourse, PTL DEF Spec

-----------------------------------------------------------------------------
(* A room that nobody deletes *)

\* A room has members from the moment its id is known, and until then somebody is creating
\* it or has failed to.
ReachInv ==
  /\ known /\ (\A r \in Requests : kind[r] # "delete") => members # {}
  /\ \A r \in Requests : kind[r] = "create" /\ pc[r] \in {"reply", "ok"} => known
  /\ room /\ ~known => \E r \in Requests : kind[r] = "create"

LEMMA KnownStays == CourseInv /\ [Next]_vars /\ known => known'
  BY RowsEffect DEF SaveRoom, SaveMembers, InsertMessage, SaveRow, SaveRenamed, DropMembers, DropMessages, DropRoom

LEMMA KindStays ==
  ASSUME CourseInv, [Next]_vars, NEW r \in Requests, kind[r] # "none"
  PROVE  kind'[r] = kind[r]
  BY KindsStay DEF Starts, CourseInv, Fits

LEMMA ReachNext == CourseInv /\ ReachInv /\ [Next]_vars => ReachInv'
<1> SUFFICES ASSUME CourseInv, ReachInv, [Next]_vars PROVE ReachInv'
  OBVIOUS
<1>1. ASSUME known', \A r \in Requests : kind'[r] # "delete" PROVE members' # {}
  <2>1. \A r \in Requests : kind[r] # "delete"
    BY <1>1, KindStays
  <2>2. CASE known
    <3>1. PICK m \in members : TRUE
      BY <2>1, <2>2 DEF ReachInv
    <3> QED
      BY <2>1, <3>1, RowsAreKept
  <2>3. CASE ~known
    <3>1. PICK r \in Requests : SaveMembers(r)
      BY <1>1, <2>3, RowsEffect DEF SaveRoom, InsertMessage, SaveRow, SaveRenamed, DropMembers, DropMessages, DropRoom
    <3>2. kind[r] = "create" /\ invited[r] # {}
      BY <2>3, <3>1 DEF SaveMembers, CourseInv, KnownFits, Fits
    <3> QED
      BY <3>1, <3>2 DEF SaveMembers
  <2> QED
    BY <2>2, <2>3
<1>2. ASSUME NEW r \in Requests, kind'[r] = "create", pc'[r] \in {"reply", "ok"} PROVE known'
  <2>1. CASE kind[r] = "create" /\ pc[r] \in {"reply", "ok"}
    BY <2>1, KnownStays DEF ReachInv
  <2>2. CASE ~(kind[r] = "create" /\ pc[r] \in {"reply", "ok"})
    <3>1. Step(r) /\ kind[r] = "create"
      BY <1>2, <2>2, Arrivals DEF Starts, First, Waits
    <3>2. pc[r] = "save members" /\ pc'[r] = "reply"
      BY <1>2, <2>2, <3>1, StepCourse DEF Passages, Ends, CourseInv, Fits
    <3>3. ~Abort(r)
      BY <3>2 DEF Abort, End, Goto, CourseInv, TypeOK
    <3>4. SaveMembers(r)
      BY <3>1, <3>2, <3>3 DEF Step, SaveRoom, LoadRoom, CheckSender, InsertMessage, EmitMessage, FindRow, FindNoRow,
         SaveRow, SaveRenamed, DropMembers, DropMessages, DropRoom, Reply
    <3> QED
      BY <3>4 DEF SaveMembers
  <2> QED
    BY <2>1, <2>2
<1>3. ASSUME room', ~known' PROVE \E r \in Requests : kind'[r] = "create"
  <2>1. ~known
    BY <1>3, KnownStays
  <2>2. CASE room
    <3>1. PICK r \in Requests : kind[r] = "create"
      BY <2>1, <2>2 DEF ReachInv
    <3> QED
      BY <3>1, KindStays
  <2>3. CASE ~room
    <3>1. PICK r \in Requests : SaveRoom(r) \/ SaveRenamed(r)
      BY <1>3, <2>3, RowsEffect DEF SaveMembers, InsertMessage, SaveRow, DropMembers, DropMessages, DropRoom
    <3>2. kind[r] = "create"
      BY <2>1, <3>1 DEF SaveRoom, SaveRenamed, CourseInv, KnownFits, Fits
    <3> QED
      BY <3>2, KindStays
  <2> QED
    BY <2>2, <2>3
<1> QED
  BY <1>1, <1>2, <1>3 DEF ReachInv

\* A room has members who can see it, unless creating or deleting it stopped half way, or it
\* was deleted while it was being renamed.
THEOREM RoomsAreReachable == Spec => []RoomIsReachable
<1>1. Init => ReachInv
  <2> SUFFICES ASSUME Init PROVE ReachInv
    OBVIOUS
  <2>1. known = room /\ \A r \in Requests : kind[r] # "create"
    BY DEF Init
  <2>2. known => members # {}
    BY DEF Init
  <2> QED
    BY <2>1, <2>2 DEF ReachInv
<1>2. CourseInv /\ GoneInv /\ ReachInv => RoomIsReachable
  <2> SUFFICES ASSUME CourseInv, GoneInv, ReachInv, room, Apart("rename", "delete"),
                      \A r \in Requests : kind[r] \in {"create", "delete"} => pc[r] = "ok"
               PROVE  members # {}
    BY DEF RoomIsReachable
  <2>1. \A r \in Requests : kind[r] # "delete"
    BY DEF GoneInv
  <2>2. known
    BY DEF ReachInv, CourseInv, TypeOK
  <2> QED
    BY <2>1, <2>2 DEF ReachInv
<1> QED
  BY <1>1, <1>2, ReachNext, RoomsGo, OnCourse, PTL DEF Spec

-----------------------------------------------------------------------------
(* One membership per user *)

\* The operations that can give a user a second row have not overlapped.
Lone == Apart("add", "add") /\ Apart("mark", "delete") /\ Apart("rename", "delete")

\* Every user has one row, or rows that one request has inserted, users who are going to
\* be inserted have none, and rows that are going to be saved are still there.
OneInv ==
  Lone =>
    /\ \A m, n \in members : m.user = n.user => m = n \/ Doubled(m, n)
    /\ \A r \in Requests : kind[r] = "add" /\ pc[r] = "save members" => \A i \in invited[r] : ~IsMember(i.user)
    /\ \A r \in Requests : pc[r] \in {"save row", "save"} => \A m \in loaded[r] : \E n \in members : SameRow(m, n)
    /\ \A r \in Requests : pc[r] = "save" => \A m, n \in loaded[r] : m.user = n.user => m = n \/ Doubled(m, n)

LEMMA DoubledStays ==
  ASSUME CourseInv, [Next]_vars, NEW m, NEW n, Doubled(m, n)
  PROVE  Doubled(m, n)'
  BY KindStays DEF Doubled

\* Two requests that are in progress together and can spoil each other's work.
LEMMA Together ==
  ASSUME CourseInv, NEW r \in Requests, NEW q \in Requests, r # q, InProgress(r), InProgress(q),
         {kind[r], kind[q]} \in Clashes
  PROVE  ~Apart(kind[r], kind[q])
  BY DEF CourseInv, OverlapsNoted, Apart

\* Nobody deletes the rows that a mark or a renaming is going to save.
LEMMA NotDeleting ==
  ASSUME CourseInv, Lone, NEW r \in Requests, InProgress(r), kind[r] \in {"mark", "rename"},
         NEW q \in Requests, InProgress(q)
  PROVE  kind[q] # "delete"
  BY Together DEF Lone, Apart, Clashes

LEMMA RowsRemain ==
  ASSUME CourseInv, [Next]_vars, Lone, NEW r \in Requests, InProgress(r), kind[r] \in {"mark", "rename"},
         NEW m \in members
  PROVE  \E n \in members' : SameRow(m, n)
  BY RowsAreKept, NotDeleting DEF InProgress, Steps

\* Whoever has a row after a step had one before, or is inserted by it.
LEMMA NewMembers ==
  ASSUME CourseInv, OneInv, Lone, [Next]_vars, NEW m \in members', ~IsMember(m.user)
  PROVE  \E r \in Requests : SaveMembers(r) /\ \E i \in invited[r] : i.user = m.user
<1>1. ASSUME NEW r \in Requests, SaveMembers(r) PROVE \E i \in invited[r] : i.user = m.user
  <2>1. m \notin members
    BY DEF IsMember
  <2>2. members' = members \cup {[by |-> r, user |-> i.user, nth |-> i.nth, read |-> 0] : i \in invited[r]}
    BY <1>1 DEF SaveMembers
  <2>3. PICK i \in invited[r] : m = [by |-> r, user |-> i.user, nth |-> i.nth, read |-> 0]
    BY <2>1, <2>2
  <2> QED
    BY <2>3
<1>2. ASSUME NEW r \in Requests, SaveRow(r) PROVE FALSE
  <2>1. PICK k, n \in Row : /\ loaded[r] = {k} /\ k.user = n.user
                            /\ members' = {l \in members : ~SameRow(l, k)} \cup {n}
    BY <1>2, SavedRow DEF SameRow
  <2>2. PICK l \in members : SameRow(k, l)
    BY <1>2, <2>1 DEF OneInv, SaveRow
  <2> QED
    BY <2>1, <2>2 DEF IsMember, SameRow
<1>3. ASSUME NEW r \in Requests, SaveRenamed(r) PROVE FALSE
  <2>1. members' = loaded[r] /\ pc[r] = "save"
    BY <1>3 DEF SaveRenamed
  <2>2. PICK l \in members : SameRow(m, l)
    BY <2>1 DEF OneInv
  <2> QED
    BY <2>2 DEF IsMember, SameRow
<1> QED
  BY <1>1, <1>2, <1>3, MembersEffect DEF IsMember

\* Whoever inserts rows is creating the room, which has none yet, or is adding members.
LEMMA Inserting ==
  ASSUME CourseInv, NEW r \in Requests, SaveMembers(r)
  PROVE  /\ pc[r] = "save members"
         /\ \/ kind[r] = "create" /\ ~known /\ members = {} /\ \A q \in Requests : kind[q] \in {"none", "create"}
            \/ kind[r] = "add"
  BY DEF SaveMembers, CourseInv, KnownFits, Fits

LEMMA OneNext == CourseInv /\ OneInv /\ [Next]_vars => OneInv'
<1> SUFFICES ASSUME CourseInv, OneInv, [Next]_vars, Lone' PROVE OneInv'
  BY DEF OneInv
<1>1. Lone
  BY ApartBefore DEF Lone, Apart
<1>2. ASSUME NEW m \in members', NEW n \in members', m.user = n.user PROVE m = n \/ Doubled(m, n)'
  <2>1. \A k, l \in members : k.user = l.user => k = l \/ Doubled(k, l)'
    BY <1>1, DoubledStays DEF OneInv
  <2>2. ASSUME NEW r \in Requests, SaveMembers(r) PROVE m = n \/ Doubled(m, n)'
    <3>1. members' = members \cup {[by |-> r, user |-> i.user, nth |-> i.nth, read |-> 0] : i \in invited[r]}
      BY <2>2 DEF SaveMembers
    <3>2. \A i \in invited[r] : ~IsMember(i.user)
      BY <1>1, <2>2, Inserting DEF OneInv, IsMember
    <3>3. CASE m \in members \/ n \in members
      BY <1>2, <2>1, <3>1, <3>2, <3>3 DEF IsMember
    <3>4. ASSUME NEW i \in invited[r], NEW j \in invited[r],
                 m = [by |-> r, user |-> i.user, nth |-> i.nth, read |-> 0],
                 n = [by |-> r, user |-> j.user, nth |-> j.nth, read |-> 0]
          PROVE  m = n \/ Doubled(m, n)'
      <4>1. i.user = j.user
        BY <1>2, <3>4
      <4>2. CASE i.nth = j.nth
        BY <3>4, <4>1, <4>2
      <4>3. CASE i.nth # j.nth
        <5>1. kind[r] = "add"
          BY <2>2, <4>3, Inserting DEF CourseInv, KnownFits
        <5>2. kind'[r] = "add"
          BY <5>1, KindStays
        <5> QED
          BY <3>4, <4>1, <4>3, <5>2 DEF Doubled
      <4> QED
        BY <4>2, <4>3
    <3> QED
      BY <3>1, <3>3, <3>4
  <2>3. ASSUME NEW r \in Requests, SaveRow(r) PROVE m = n \/ Doubled(m, n)'
    <3>1. PICK k, s \in Row : /\ loaded[r] = {k} /\ SameRow(k, s)
                              /\ members' = {l \in members : ~SameRow(l, k)} \cup {s}
      BY <2>3, SavedRow
    <3>2. PICK l \in members : SameRow(k, l)
      BY <1>1, <2>3, <3>1 DEF OneInv, SaveRow
    <3>3. \A o \in members : o.user = s.user /\ ~SameRow(o, k) => Doubled(o, s)' /\ Doubled(s, o)'
      <4> SUFFICES ASSUME NEW o \in members, o.user = s.user, ~SameRow(o, k) PROVE Doubled(o, s)' /\ Doubled(s, o)'
        OBVIOUS
      <4>1. Doubled(o, l)
        <5>1. o.user = l.user /\ o # l
          BY <3>1, <3>2 DEF SameRow
        <5> QED
          BY <1>1, <3>2, <5>1 DEF OneInv
      <4>2. Doubled(o, s) /\ Doubled(s, o)
        BY <3>1, <3>2, <4>1 DEF Doubled, SameRow
      <4> QED
        BY <4>2, DoubledStays
    <3> QED
      BY <1>2, <2>1, <3>1, <3>3
  <2>4. ASSUME NEW r \in Requests, SaveRenamed(r) PROVE m = n \/ Doubled(m, n)'
    BY <1>1, <1>2, <2>4, DoubledStays DEF SaveRenamed, OneInv
  <2> QED
    BY <1>2, <2>1, <2>2, <2>3, <2>4, MembersEffect
<1>3. ASSUME NEW r \in Requests, kind'[r] = "add", pc'[r] = "save members", NEW i \in invited'[r], NEW m \in members'
      PROVE  m.user # i.user
  <2>1. CASE Waits(r)
    <3>1. kind[r] = "add" /\ pc[r] = "save members" /\ i \in invited[r] /\ ~IsMember(i.user)
      BY <1>1, <1>3, <2>1 DEF Waits, OneInv
    <3>2. ASSUME NEW q \in Requests, SaveMembers(q) PROVE FALSE
      <4>1. kind[q] = "add" /\ pc[q] = "save members"
        BY <3>1, <3>2, Inserting
      <4>2. q = r
        BY <1>1, <3>1, <4>1, Together DEF InProgress, Steps, Lone, Clashes
      <4>3. pc'[q] = "reply"
        BY <3>2 DEF SaveMembers, Goto, CourseInv, TypeOK
      <4> QED
        BY <1>3, <4>2, <4>3
    <3> QED
      BY <1>1, <3>1, <3>2, NewMembers
  <2>2. CASE Step(r)
    <3>1. pc[r] = "load"
      BY <1>3, <2>2, StepCourse, StepEffect DEF Passages, Ends, CourseInv, Fits
    <3>2. ~Abort(r)
      BY <1>3 DEF Abort, End, Goto, CourseInv, TypeOK
    <3>3. LoadRoom(r)
      BY <2>2, <3>1, <3>2 DEF Step, SaveRoom, SaveMembers, CheckSender, InsertMessage, EmitMessage, FindRow, FindNoRow,
         SaveRow, SaveRenamed, DropMembers, DropMessages, DropRoom, Reply
    <3>4. members' = members /\ invited'[r] = {j \in invited[r] : ~IsMember(j.user)}
      BY <3>3 DEF LoadRoom, rows, CourseInv, TypeOK
    <3> QED
      BY <3>4 DEF IsMember
  <2>3. ASSUME NEW k \in Kinds, NEW step \in Steps, First(k, step), Starts(r, k, step) PROVE FALSE
    BY <1>3, <2>3 DEF First, Starts
  <2> QED
    BY <2>1, <2>2, <2>3, Arrivals
\* Rows that are going to be saved were in the table when they were read, and stay.
<1>4. ASSUME NEW r \in Requests, pc'[r] \in {"save row", "save"}
      PROVE  \/ Waits(r) /\ InProgress(r) /\ kind[r] \in {"mark", "rename"}
             \/ /\ pc'[r] = "save row" /\ Step(r) /\ kind[r] = "mark"
                /\ \E m \in members : loaded'[r] = {m}
             \/ loaded'[r] = members /\ members' = members
  <2>1. CASE Waits(r)
    BY <1>4, <2>1 DEF Waits, InProgress, Steps, CourseInv, Fits
  <2>2. CASE Step(r)
    BY <1>4, <2>2, StepCourse DEF Passages, Ends, CourseInv, Fits
  <2>3. ASSUME NEW k \in Kinds, NEW step \in Steps, First(k, step), Starts(r, k, step)
        PROVE  loaded'[r] = members /\ members' = members
    BY <1>4, <2>3 DEF First, Starts, rows
  <2> QED
    BY <2>1, <2>2, <2>3, Arrivals
<1>5. ASSUME NEW r \in Requests, pc'[r] \in {"save row", "save"}, NEW m \in loaded'[r] PROVE \E n \in members' : SameRow(m, n)
  <2>1. CASE Waits(r) /\ InProgress(r) /\ kind[r] \in {"mark", "rename"}
    <3>1. PICK n \in members : SameRow(m, n)
      BY <1>1, <1>5, <2>1 DEF Waits, OneInv
    <3>2. PICK k \in members' : SameRow(n, k)
      BY <1>1, <2>1, RowsRemain
    <3> QED
      BY <3>1, <3>2 DEF SameRow
  <2>2. CASE Step(r) /\ kind[r] = "mark" /\ \E n \in members : loaded'[r] = {n}
    BY <1>1, <1>5, <2>2, RowsRemain, StepCourse
  <2>3. CASE loaded'[r] = members /\ members' = members
    BY <1>5, <2>3 DEF SameRow
  <2> QED
    BY <1>4, <1>5, <2>1, <2>2, <2>3
<1>6. ASSUME NEW r \in Requests, pc'[r] = "save", NEW m \in loaded'[r], NEW n \in loaded'[r], m.user = n.user
      PROVE  m = n \/ Doubled(m, n)'
  BY <1>1, <1>4, <1>6, DoubledStays DEF OneInv, Waits
<1> QED
  BY <1>2, <1>3, <1>5, <1>6 DEF OneInv, IsMember

LEMMA OneInit == Init => OneInv
<1> SUFFICES ASSUME Init PROVE OneInv
  OBVIOUS
<1>1. \A m, n \in members : m.user = n.user => m = n
  BY DEF Init
<1>2. \A r \in Requests : pc[r] = "idle"
  BY DEF Init
<1> QED
  BY <1>1, <1>2 DEF OneInv

LEMMA OneRow == Spec => []OneInv
  BY OneInit, OneNext, OnCourse, PTL DEF Spec

\* A user is a member once, but for a request to add members that names somebody twice,
\* unless two requests added members at the same time, or rows were deleted while a mark or
\* a renaming was going to save them.
THEOREM MembersAreUnique == Spec => []OneMembership
<1>1. OneInv => OneMembership
  BY DEF OneInv, OneMembership, Lone
<1> QED
  BY <1>1, OneRow, PTL

-----------------------------------------------------------------------------
(* What was marked as read *)

\* A mark has been saved with its time.
Marked(r) == kind[r] = "mark" /\ pc[r] \in {"reply", "ok"} /\ stamp[r] # None

\* Every row of the user that is not older than s, or is doubled with one that is not.
Covers(ms, u, s) ==
  \A m \in ms : m.user = u => \E n \in ms : (n = m \/ Doubled(m, n)) /\ n.read >= s

\* The rows of a user who has marked the room, and those that are going to be saved, cover
\* the mark. The user has a row still, or all rows are deleted and nobody can insert one.
ReadInv ==
  /\ \A r \in Requests : pc[r] \in {"idle", "find"} => stamp[r] = None
  /\ overlaps = {} =>
       /\ known /\ members = {} => \A q \in Requests : ~(kind[q] = "add" /\ InProgress(q))
       /\ \A r \in Requests : Marked(r) =>
            /\ IsMember(user[r]) \/ members = {}
            /\ Covers(members, user[r], stamp[r])
            /\ \A q \in Requests : pc[q] = "save" => Covers(loaded[q], user[r], stamp[r])
            /\ \A q \in Requests : pc[q] = "save row" => stamp[q] >= stamp[r]

\* Without overlaps nobody works beside a request that could spoil its work.
LEMMA Alone ==
  ASSUME CourseInv, overlaps = {}, NEW r \in Requests, NEW q \in Requests, r # q, InProgress(r), InProgress(q)
  PROVE  {kind[r], kind[q]} \notin Clashes
  BY Together DEF Apart

LEMMA UnstampedNext ==
  ASSUME CourseInv, ReadInv, [Next]_vars, NEW r \in Requests, pc'[r] \in {"idle", "find"}
  PROVE  stamp'[r] = None
<1>1. ASSUME Step(r) PROVE FALSE
  BY <1>1, StepCourse DEF Passages, Ends
<1>2. CASE Waits(r)
  BY <1>2 DEF Waits, ReadInv
<1>3. ASSUME NEW k \in Kinds, NEW step \in Steps, First(k, step), Starts(r, k, step) PROVE stamp'[r] = None
  BY <1>3 DEF Starts, ReadInv
<1> QED
  BY <1>1, <1>2, <1>3, Arrivals

\* Nobody adds members to a room that has none.
LEMMA EmptyNext ==
  ASSUME CourseInv, ReadInv, [Next]_vars, overlaps' = {}, known', members' = {},
         NEW q \in Requests, kind'[q] = "add", InProgress(q)'
  PROVE  FALSE
<1>1. overlaps = {}
  BY ApartBefore
<1>2. ASSUME NEW k \in Kinds, NEW step \in Steps, First(k, step), Starts(q, k, step) PROVE FALSE
  BY <1>2 DEF Starts, rows
<1>3. kind[q] = "add" /\ InProgress(q)
  BY <1>2, Arrivals, StepCourse, StepEffect DEF Waits, InProgress
<1>4. known
  BY <1>3 DEF CourseInv, KnownFits
<1>5. PICK m \in members : TRUE
  BY <1>1, <1>3, <1>4 DEF ReadInv
<1>6. PICK r \in Requests : kind[r] = "delete" /\ pc[r] \in {"drop members", "drop room"}
  BY <1>5, RowsAreKept
<1> QED
  BY <1>1, <1>3, <1>6, Alone DEF InProgress, Steps, Clashes

\* A request that has just saved a mark did so with the row of its user.
LEMMA Marking ==
  ASSUME CourseInv, ReadInv, [Next]_vars, NEW r \in Requests, Marked(r)'
  PROVE  \/ Marked(r) /\ user'[r] = user[r] /\ stamp'[r] = stamp[r]
         \/ SaveRow(r) /\ user'[r] = user[r] /\ stamp'[r] = stamp[r] /\ kind[r] = "mark" /\ InProgress(r)
<1>1. CASE Waits(r)
  BY <1>1 DEF Waits, Marked
<1>2. ASSUME NEW k \in Kinds, NEW step \in Steps, First(k, step), Starts(r, k, step) PROVE FALSE
  BY <1>2 DEF Starts, First, Marked
<1>3. CASE Step(r)
  <2>1. kind[r] = "mark" /\ InProgress(r)
    BY <1>3, StepEffect, StepCourse DEF Marked
  <2>2. \/ pc[r] = "reply" /\ pc'[r] = "ok" /\ user'[r] = user[r] /\ stamp'[r] = stamp[r]
        \/ pc[r] \in {"find", "save row"} /\ pc'[r] = "reply" /\ user'[r] = user[r] /\ stamp'[r] = stamp[r]
    BY <1>3, <2>1, StepCourse DEF Marked, Passages, Ends, CourseInv, Fits, InProgress, Steps
  <2>3. CASE pc[r] = "reply"
    BY <2>1, <2>2, <2>3 DEF Marked
  <2>4. CASE pc[r] = "find"
    BY <2>2, <2>4 DEF Marked, ReadInv
  <2>5. CASE pc[r] = "save row"
    <3>1. ~Abort(r)
      BY <2>2, <2>5 DEF Abort, End, Goto, CourseInv, TypeOK
    <3>2. SaveRow(r)
      BY <1>3, <2>5, <3>1 DEF Step, SaveRoom, SaveMembers, LoadRoom, CheckSender, InsertMessage, EmitMessage, FindRow, FindNoRow,
         SaveRenamed, DropMembers, DropMessages, DropRoom, Reply
    <3> QED
      BY <2>1, <2>2, <2>5, <3>2
  <2> QED
    BY <2>2, <2>3, <2>4, <2>5
<1> QED
  BY <1>1, <1>2, <1>3, Arrivals

\* A mark that was saved before the step is still covered after it.
Covered(r) ==
  /\ IsMember(user[r]) \/ members = {}
  /\ Covers(members, user[r], stamp[r])
  /\ \A q \in Requests : pc[q] = "save" => Covers(loaded[q], user[r], stamp[r])
  /\ \A q \in Requests : pc[q] = "save row" => stamp[q] >= stamp[r]

LEMMA OldMark ==
  ASSUME CourseInv, OneInv, ReadInv, [Next]_vars, overlaps' = {}, NEW r \in Requests, Marked(r),
         user'[r] = user[r], stamp'[r] = stamp[r]
  PROVE  Covered(r)'
<1>1. overlaps = {} /\ Lone /\ Covered(r) /\ known
  BY ApartBefore DEF Lone, Apart, ReadInv, Covered, Marked, CourseInv, KnownFits
<1>2. ASSUME NEW q \in Requests, SaveMembers(q) 
      PROVE  IsMember(user[r]) /\ kind[q] = "add" /\ \A i \in invited[q] : i.user # user[r]
  <2>1. kind[q] = "add" /\ pc[q] = "save members"
    BY <1>1, <1>2, Inserting
  <2>2. IsMember(user[r])
    BY <1>1, <2>1 DEF Covered, ReadInv, InProgress, Steps
  <2> QED
    BY <1>1, <2>1, <2>2 DEF OneInv
<1>3. IsMember(user[r])' \/ members' = {}
  <2>1. CASE IsMember(user[r])
    <3>1. PICK m \in members : m.user = user[r]
      BY <2>1 DEF IsMember
    <3>2. members' = {} \/ \E n \in members' : n.user = user[r]
      BY <3>1, RowsAreKept DEF SameRow
    <3> QED
      BY <3>2 DEF IsMember
  <2>2. CASE ~IsMember(user[r])
    <3>1. members = {}
      BY <1>1, <2>2 DEF Covered
    <3>2. \A q \in Requests : ~SaveMembers(q)
      BY <1>2, <2>2
    <3>3. \A q \in Requests : ~SaveRow(q)
      BY <1>1, <3>1 DEF SaveRow, CourseInv, Fits, OneInv
    <3>4. \A q \in Requests : SaveRenamed(q) => members' = {}
      BY <1>1, <3>1 DEF SaveRenamed, OneInv
    <3> QED
      BY <3>1, <3>2, <3>3, <3>4, MembersEffect
  <2> QED
    BY <2>1, <2>2
<1>4. Covers(members, user[r], stamp[r])'
  <2> SUFFICES ASSUME NEW m \in members', m.user = user[r]
               PROVE  \E n \in members' : (n = m \/ Doubled(m, n)') /\ n.read >= stamp[r]
    BY DEF Covers
  <2>1. m \in members => \E n \in members : (n = m \/ (Doubled(m, n) /\ Doubled(m, n)')) /\ n.read >= stamp[r]
    BY <1>1, DoubledStays DEF Covered, Covers
  <2>2. ASSUME NEW q \in Requests, SaveMembers(q) PROVE m \in members /\ members \subseteq members'
    <3>1. members' = members \cup {[by |-> q, user |-> i.user, nth |-> i.nth, read |-> 0] : i \in invited[q]}
      BY <2>2 DEF SaveMembers
    <3>2. \A i \in invited[q] : i.user # user[r]
      BY <1>2, <2>2
    <3>3. ASSUME NEW i \in invited[q], m = [by |-> q, user |-> i.user, nth |-> i.nth, read |-> 0] PROVE FALSE
      BY <3>2, <3>3
    <3> QED
      BY <3>1, <3>3
  <2>3. ASSUME NEW q \in Requests, SaveRow(q) PROVE \E n \in members' : (n = m \/ Doubled(m, n)') /\ n.read >= stamp[r]
    <3>1. PICK k, s \in Row : /\ SameRow(k, s) /\ s.read = stamp[q]
                              /\ members' = {l \in members : ~SameRow(l, k)} \cup {s}
      BY <2>3, SavedRow
    <3>2. s.read >= stamp[r] /\ s \in members'
      BY <1>1, <2>3, <3>1 DEF SaveRow, Covered
    <3>3. CASE m = s
      BY <3>2, <3>3
    <3>4. CASE m # s
      <4>1. m \in members /\ ~SameRow(m, k)
        BY <3>1, <3>4
      <4>2. PICK n \in members : (n = m \/ (Doubled(m, n) /\ Doubled(m, n)')) /\ n.read >= stamp[r]
        BY <2>1, <4>1
      <4>3. CASE SameRow(n, k)
        <5>1. Doubled(m, s)
          BY <3>1, <4>1, <4>2, <4>3 DEF Doubled, SameRow
        <5> QED
          BY <3>2, <5>1, DoubledStays
      <4>4. CASE ~SameRow(n, k)
        BY <3>1, <4>2, <4>4
      <4> QED
        BY <4>3, <4>4
    <3> QED
      BY <3>3, <3>4
  <2>4. ASSUME NEW q \in Requests, SaveRenamed(q)
        PROVE  \E n \in members' : (n = m \/ Doubled(m, n)') /\ n.read >= stamp[r]
    BY <1>1, <2>4, DoubledStays DEF SaveRenamed, Covered, Covers
  <2> QED
    BY <2>1, <2>2, <2>3, <2>4, MembersEffect
<1>5. ASSUME NEW q \in Requests, pc'[q] = "save" PROVE Covers(loaded[q], user[r], stamp[r])'
  <2>1. ASSUME Step(q) PROVE FALSE
    BY <1>5, <2>1, StepCourse DEF Passages, Ends
  <2>2. ASSUME NEW k \in Kinds, NEW step \in Steps, First(k, step), Starts(q, k, step) PROVE loaded'[q] = members
    BY <1>5, <2>2 DEF Starts, First
  <2>3. PICK ms : loaded'[q] = ms /\ Covers(ms, user[r], stamp[r])
    BY <1>1, <1>5, <2>1, <2>2, Arrivals DEF Waits, Covered
  <2> QED
    BY <2>3, DoubledStays DEF Covers
<1>6. ASSUME NEW q \in Requests, pc'[q] = "save row" PROVE stamp'[q] >= stamp[r]
  <2>1. CASE Waits(q)
    BY <1>1, <1>6, <2>1 DEF Waits, Covered
  <2>2. CASE Step(q)
    <3>1. stamp'[q] = clock
      BY <1>6, <2>2, StepCourse
    <3>2. stamp[r] \in 0..clock /\ clock \in Nat
      BY DEF Marked, CourseInv, TypeOK
    <3> QED
      BY <3>1, <3>2
  <2>3. ASSUME NEW k \in Kinds, NEW step \in Steps, First(k, step), Starts(q, k, step) PROVE FALSE
    BY <1>6, <2>3 DEF Starts, First
  <2> QED
    BY <2>1, <2>2, <2>3, Arrivals
<1> QED
  BY <1>3, <1>4, <1>5, <1>6 DEF Covered, IsMember

\* A mark is covered when it is saved: its user has no other row but such as are doubled
\* with the saved one, and nobody else is about to save one.
LEMMA NewMark ==
  ASSUME CourseInv, OneInv, [Next]_vars, overlaps' = {}, NEW r \in Requests, SaveRow(r), kind[r] = "mark", InProgress(r),
         user'[r] = user[r], stamp'[r] = stamp[r]
  PROVE  Covered(r)'
<1>1. overlaps = {} /\ Lone
  BY ApartBefore DEF Lone, Apart
<1>2. PICK m, n \in Row : /\ loaded[r] = {m} /\ m.user = user[r] /\ n.user = user[r] /\ n.read = stamp[r]
                          /\ SameRow(m, n) /\ stamp[r] # None /\ members' = {k \in members : ~SameRow(k, m)} \cup {n}
  BY SavedRow
<1>3. PICK l \in members : SameRow(m, l)
  BY <1>1, <1>2 DEF OneInv, SaveRow
<1>4. \A k \in members : k.user = user[r] => SameRow(k, m) \/ Doubled(k, n)'
  <2> SUFFICES ASSUME NEW k \in members, k.user = user[r], ~SameRow(k, m) PROVE Doubled(k, n)'
    OBVIOUS
  <2>1. Doubled(k, l)
    <3>1. k.user = l.user /\ k # l
      BY <1>2, <1>3 DEF SameRow
    <3> QED
      BY <1>1, <1>3, <3>1 DEF OneInv
  <2>2. Doubled(k, n)
    BY <1>2, <1>3, <2>1 DEF Doubled, SameRow
  <2> QED
    BY <2>2, DoubledStays
<1>5. stamp[r] \in Nat
  BY <1>2 DEF CourseInv, TypeOK
<1>6. IsMember(user[r])'
  BY <1>2 DEF IsMember
<1>8. Covers(members, user[r], stamp[r])'
  <2>1. n \in members' /\ n.read >= stamp[r]
    BY <1>2, <1>5
  <2>2. \A k \in members' : k.user = user[r] => k = n \/ Doubled(k, n)'
    BY <1>2, <1>4
  <2> QED
    BY <2>1, <2>2 DEF Covers
<1>7. \A q \in Requests : pc'[q] \notin {"save", "save row"}
  <2>1. ASSUME NEW q \in Requests, pc'[q] \in {"save", "save row"} PROVE FALSE
    <3>1. pc'[r] = "reply" /\ Step(r)
      BY DEF SaveRow, Goto, CourseInv, TypeOK, Step
    <3>2. q # r
      BY <2>1, <3>1
    <3>3. pc[q] \in {"save", "save row"}
      BY <2>1, <3>1, <3>2, StepEffect DEF Others
    <3>4. InProgress(q) /\ kind[q] \in {"rename", "mark"}
      BY <3>3 DEF InProgress, Steps, CourseInv, Fits
    <3> QED
      BY <1>1, <3>2, <3>4, Alone DEF Clashes
  <2> QED
    BY <2>1
<1> QED
  BY <1>6, <1>7, <1>8 DEF Covered

LEMMA ReadNext == CourseInv /\ OneInv /\ ReadInv /\ [Next]_vars => ReadInv'
<1> SUFFICES ASSUME CourseInv, OneInv, ReadInv, [Next]_vars PROVE ReadInv'
  OBVIOUS
<1>1. \A r \in Requests : pc'[r] \in {"idle", "find"} => stamp'[r] = None
  BY UnstampedNext
<1>2. ASSUME overlaps' = {}, NEW r \in Requests, Marked(r)' PROVE Covered(r)'
  BY <1>2, Marking, OldMark, NewMark
<1>3. ASSUME overlaps' = {}, known', members' = {} PROVE \A q \in Requests : ~(kind'[q] = "add" /\ InProgress(q)')
  BY <1>3, EmptyNext
<1> QED
  BY <1>1, <1>2, <1>3 DEF ReadInv, Covered

\* What was there when a user marked the room as read is not unread again, in the user's
\* row or in one of several that one request has inserted, as long as no operations overlap
\* that can spoil each other's work.
THEOREM MarksLast == Spec => []MarkedStaysRead
<1>1. Init => ReadInv
  <2> SUFFICES ASSUME Init PROVE ReadInv
    OBVIOUS
  <2>1. \A r \in Requests : pc[r] = "idle" /\ stamp[r] = None /\ kind[r] = "none"
    BY DEF Init
  <2> QED
    BY <2>1 DEF ReadInv, Marked
<1>2. ReadInv => MarkedStaysRead
  BY DEF ReadInv, MarkedStaysRead, Marked, Succeeded, Covers
<1> QED
  BY <1>1, <1>2, ReadNext, OneRow, OnCourse, PTL DEF Spec

=============================================================================
