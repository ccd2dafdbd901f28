----------------------------- MODULE ChatRooms -----------------------------
(***************************************************************************)
(* One chat room: its rows in PostgreSQL, as ChatService writes them, and  *)
(* the sockets of ChatGateway that listen to it.                           *)
(*                                                                         *)
(* A request is an HTTP request or a socket event. It runs without         *)
(* interruption from one await to the next. The database refuses members   *)
(* and messages of a room it does not have, and removes them with their    *)
(* room. TypeORM's save inserts an entity whose row is gone, and saves the *)
(* members that were loaded with a room along with it.                     *)
(***************************************************************************)
EXTENDS Naturals, FiniteSets

CONSTANTS
  Requests,   \* requests about the room; each runs once
  Users,
  MaxNamed,   \* bound: how often one request names the same user
  None        \* an absent value

ASSUME ChatAssumption ==
  /\ None \notin Nat \cup Requests \cup Users
  /\ MaxNamed \in Nat \ {0}

VARIABLES
  room,       \* the room's row exists
  known,      \* the room's id has left createRoom
  members,    \* rows of ChatRoomMember: who inserted the row, for whom, as which of the
              \* user's rows that were inserted together, lastReadAt
  messages,   \* rows of ChatMessage: the request that sent it, the sender, createdAt
  clock,      \* the time, counted in messages that were inserted
  online,     \* users whose socket is connected
  listed,     \* users whose connection has found the room and is about to join it
  joined,     \* users whose socket has joined the room
  pc,         \* per request: the call it awaits, or how it ended
  kind,       \* per request: the operation it performs
  user,       \* per request: who makes it
  invited,    \* per request: the rows it is going to insert
  loaded,     \* per request: the member rows it has read
  stamp,      \* per request: the lastReadAt it is going to save
  heard,      \* the requests whose message their own user's socket got
  cut,        \* history: messages whose user's socket disconnected before they were emitted
  overlaps    \* history: the clashes of operations that were in progress together

rows    == <<room, members, messages, clock>>
sockets == <<online, listed, joined>>
locals  == <<user, invited, loaded, stamp>>
vars    == <<rows, known, sockets, pc, kind, locals, heard, cut, overlaps>>

Kinds == {"create", "add", "send", "mark", "rename", "delete"}
Steps == {"save room", "load", "save members", "check", "insert", "emit", "find", "save row",
          "save", "drop members", "drop messages", "drop room", "reply"}

\* Pairs of operations that can spoil each other's work.
Clashes == {{"add"}, {"mark"}, {"add", "delete"}, {"mark", "delete"}, {"rename", "mark"}, {"rename", "delete"}}

\* Nothing yet, or the room as createRoom leaves it.
Init ==
  /\ \/ room = FALSE /\ members = {}
     \/ room = TRUE /\ \E us \in (SUBSET Users) \ {{}} :
                         members = {[by |-> None, user |-> u, nth |-> 1, read |-> 0] : u \in us}
  /\ known = room
  /\ messages = {}
  /\ clock = 0
  /\ online = {} /\ listed = {} /\ joined = {}
  /\ pc = [r \in Requests |-> "idle"]
  /\ kind = [r \in Requests |-> "none"]
  /\ user = [r \in Requests |-> None]
  /\ invited = [r \in Requests |-> {}]
  /\ loaded = [r \in Requests |-> {}]
  /\ stamp = [r \in Requests |-> None]
  /\ heard = {}
  /\ cut = {}
  /\ overlaps = {}

\* A request body that is a list of ids is told by how often it names each user; the
\* times a user is named are told apart by their number.
Bodies  == [Users -> 0..MaxNamed]
Mention == [user : Users, nth : 1..MaxNamed]
Mentions(body) == {i \in Mention : i.nth <= body[i.user]}
Once(us)       == {[user |-> u, nth |-> 1] : u \in us}

IsMember(u)   == \E m \in members : m.user = u
InProgress(r) == pc[r] \in Steps
Goto(r, step) == pc' = [pc EXCEPT ![r] = step]

Begin(r, u, k, step) ==
  /\ pc[r] = "idle"
  /\ Goto(r, step)
  /\ kind' = [kind EXCEPT ![r] = k]
  /\ user' = [user EXCEPT ![r] = u]
  /\ overlaps' = overlaps \cup
       ({{k, kind[q]} : q \in {p \in Requests : InProgress(p)}} \cap Clashes)

\* The request ends and its local variables go with it. What a mark has saved is
\* kept for MarkedStaysRead.
End(r, outcome) ==
  /\ Goto(r, outcome)
  /\ invited' = [invited EXCEPT ![r] = {}]
  /\ loaded' = [loaded EXCEPT ![r] = {}]
  /\ IF kind[r] = "mark" /\ outcome = "ok"
     THEN UNCHANGED <<user, stamp>>
     ELSE user' = [user EXCEPT ![r] = None] /\ stamp' = [stamp EXCEPT ![r] = None]

-----------------------------------------------------------------------------
(* createRoom *)

\* Faulty variant: the creator does not become a member.
CreateRequestForOthers(r, u, body) ==
  /\ ~known
  /\ \A q \in Requests : kind[q] # "create"
  /\ Begin(r, None, "create", "save room")
  /\ invited' = [invited EXCEPT ![r] = Once({v \in Users : body[v] > 0})]
  /\ UNCHANGED <<rows, known, sockets, loaded, stamp, heard, cut>>

\* The creator becomes a member like those who are invited, each of them once.
CreateRequest(r, u, body) ==
  /\ ~known
  /\ \A q \in Requests : kind[q] # "create"
  /\ Begin(r, None, "create", "save room")
  /\ invited' = [invited EXCEPT ![r] = Once({v \in Users : body[v] > 0} \cup {u})]
  /\ UNCHANGED <<rows, known, sockets, loaded, stamp, heard, cut>>

SaveRoom(r) ==
  /\ pc[r] = "save room"
  /\ room' = TRUE
  /\ Goto(r, "save members")
  /\ UNCHANGED <<members, messages, clock, known, sockets, kind, locals, heard, cut, overlaps>>

\* Faulty variant: the rows get no lastReadAt at all.
SaveMembersUntimed(r) ==
  /\ pc[r] = "save members"
  /\ room
  /\ members' = members \cup {[by |-> r, user |-> i.user, nth |-> i.nth, read |-> None] : i \in invited[r]}
  /\ known' = TRUE
  /\ Goto(r, "reply")
  /\ UNCHANGED <<room, messages, clock, sockets, kind, locals, heard, cut, overlaps>>

\* The rows are inserted together, for a room that is still there.
SaveMembers(r) ==
  /\ pc[r] = "save members"
  /\ room
  /\ members' = members \cup {[by |-> r, user |-> i.user, nth |-> i.nth, read |-> 0] : i \in invited[r]}
  /\ known' = TRUE
  /\ Goto(r, "reply")
  /\ UNCHANGED <<room, messages, clock, sockets, kind, locals, heard, cut, overlaps>>

-----------------------------------------------------------------------------
(* addMembersToRoom *)

\* The list of ids is taken as it is, repeated ones included.
AddRequest(r, u, body) ==
  /\ known
  /\ IsMember(u)
  /\ Begin(r, None, "add", "load")
  /\ invited' = [invited EXCEPT ![r] = Mentions(body)]
  /\ UNCHANGED <<rows, known, sockets, loaded, stamp, heard, cut>>

\* Faulty variant: users who are members already are inserted again.
LoadRoomKeepingAll(r) ==
  /\ pc[r] = "load"
  /\ room
  /\ Goto(r, "save members")
  /\ UNCHANGED <<rows, known, sockets, kind, locals, heard, cut, overlaps>>

\* The room is read with its members; only users who are none are inserted, as often
\* as they were named.
LoadRoom(r) ==
  LET new == {i \in invited[r] : ~IsMember(i.user)} IN
  /\ pc[r] = "load"
  /\ room
  /\ invited' = [invited EXCEPT ![r] = new]
  /\ Goto(r, IF new = {} THEN "reply" ELSE "save members")
  /\ UNCHANGED <<rows, known, sockets, kind, user, loaded, stamp, heard, cut, overlaps>>

-----------------------------------------------------------------------------
(* The gateway: connecting, sendMessage, markAsRead *)

\* The user's memberships are read; the rooms are joined after more awaits.
Connect(u) ==
  /\ u \notin online
  /\ online' = online \cup {u}
  /\ listed' = IF IsMember(u) THEN listed \cup {u} ELSE listed
  /\ UNCHANGED <<rows, known, joined, pc, kind, locals, heard, cut, overlaps>>

JoinListed(u) ==
  /\ u \in listed
  /\ listed' = listed \ {u}
  /\ joined' = joined \cup {u}
  /\ UNCHANGED <<rows, known, online, pc, kind, locals, heard, cut, overlaps>>

Disconnect(u) ==
  /\ u \in online
  /\ online' = online \ {u}
  /\ listed' = listed \ {u}
  /\ joined' = joined \ {u}
  /\ cut' = cut \cup {r \in Requests : InProgress(r) /\ kind[r] = "send" /\ user[r] = u}
  /\ UNCHANGED <<rows, known, pc, kind, locals, heard, overlaps>>

\* Faulty variant: the sender's socket is not made to join.
SendRequestUnjoined(r, u) ==
  /\ known
  /\ u \in online
  /\ Begin(r, u, "send", "check")
  /\ UNCHANGED <<rows, known, sockets, invited, loaded, stamp, heard, cut>>

\* The socket joins the room whose id the event names, then the membership is checked.
SendRequest(r, u) ==
  /\ known
  /\ u \in online
  /\ Begin(r, u, "send", "check")
  /\ joined' = joined \cup {u}
  /\ UNCHANGED <<rows, known, online, listed, invited, loaded, stamp, heard, cut>>

CheckSender(r) ==
  /\ pc[r] = "check"
  /\ IF IsMember(user[r]) THEN Goto(r, "insert") /\ UNCHANGED locals
                          ELSE End(r, "refused")
  /\ UNCHANGED <<rows, known, sockets, kind, heard, cut, overlaps>>

\* Faulty variant: the database takes messages of any room.
InsertMessageAnywhere(r) ==
  /\ pc[r] = "insert"
  /\ clock' = clock + 1
  /\ messages' = messages \cup {[by |-> r, sender |-> user[r], at |-> clock + 1]}
  /\ Goto(r, "emit")
  /\ UNCHANGED <<room, members, known, sockets, kind, locals, heard, cut, overlaps>>

InsertMessage(r) ==
  /\ pc[r] = "insert"
  /\ room
  /\ clock' = clock + 1
  /\ messages' = messages \cup {[by |-> r, sender |-> user[r], at |-> clock + 1]}
  /\ Goto(r, "emit")
  /\ UNCHANGED <<room, members, known, sockets, kind, locals, heard, cut, overlaps>>

EmitMessage(r) ==
  /\ pc[r] = "emit"
  /\ heard' = IF user[r] \in joined THEN heard \cup {r} ELSE heard
  /\ End(r, "ok")
  /\ UNCHANGED <<rows, known, sockets, kind, cut, overlaps>>

MarkRequest(r, u) ==
  /\ known
  /\ u \in online
  /\ Begin(r, u, "mark", "find")
  /\ joined' = joined \cup {u}
  /\ UNCHANGED <<rows, known, online, listed, invited, loaded, stamp, heard, cut>>

\* One row of the user is read, and the time is taken.
FindRow(r) ==
  /\ pc[r] = "find"
  /\ \E m \in members :
       /\ m.user = user[r]
       /\ loaded' = [loaded EXCEPT ![r] = {m}]
       /\ stamp' = [stamp EXCEPT ![r] = clock]
       /\ Goto(r, "save row")
  /\ UNCHANGED <<rows, known, sockets, kind, user, invited, heard, cut, overlaps>>

\* A user who is no member has nothing to mark.
FindNoRow(r) ==
  /\ pc[r] = "find"
  /\ ~IsMember(user[r])
  /\ Goto(r, "reply")
  /\ UNCHANGED <<rows, known, sockets, kind, locals, heard, cut, overlaps>>

SameRow(m, n) == m.by = n.by /\ m.user = n.user /\ m.nth = n.nth

\* Faulty variant: the row is saved without the time.
SaveRowUnmarked(r) ==
  /\ pc[r] = "save row"
  /\ room
  /\ members' = {m \in members : \A n \in loaded[r] : ~SameRow(m, n)} \cup loaded[r]
  /\ Goto(r, "reply")
  /\ UNCHANGED <<room, messages, clock, known, sockets, kind, locals, heard, cut, overlaps>>

\* The row gets the time; it is inserted again if it is gone.
SaveRow(r) ==
  /\ pc[r] = "save row"
  /\ room
  /\ members' = {m \in members : \A n \in loaded[r] : ~SameRow(m, n)}
                  \cup {[m EXCEPT !.read = stamp[r]] : m \in loaded[r]}
  /\ Goto(r, "reply")
  /\ UNCHANGED <<room, messages, clock, known, sockets, kind, locals, heard, cut, overlaps>>

-----------------------------------------------------------------------------
(* renameRoom *)

RenameRequest(r) ==
  /\ known
  /\ room
  /\ Begin(r, None, "rename", "save")
  /\ loaded' = [loaded EXCEPT ![r] = members]
  /\ UNCHANGED <<rows, known, sockets, invited, stamp, heard, cut>>

\* Faulty variant: members that were not loaded lose their room.
SaveRenamedDetaching(r) ==
  /\ pc[r] = "save"
  /\ room' = TRUE
  /\ members' = loaded[r]
  /\ Goto(r, "reply")
  /\ UNCHANGED <<messages, clock, known, sockets, kind, locals, heard, cut, overlaps>>

\* The room is saved with the members that were loaded: each gets the lastReadAt
\* it had then, what is gone is inserted again. A member that was not loaded
\* would lose its room, which the column refuses: then save throws, see Abort.
SaveRenamed(r) ==
  /\ pc[r] = "save"
  /\ \A m \in members : \E n \in loaded[r] : SameRow(m, n)
  /\ room' = TRUE
  /\ members' = loaded[r]
  /\ Goto(r, "reply")
  /\ UNCHANGED <<messages, clock, known, sockets, kind, locals, heard, cut, overlaps>>

-----------------------------------------------------------------------------
(* deleteRoom *)

DeleteRequest(r) ==
  /\ known
  /\ room
  /\ Begin(r, None, "delete", "drop members")
  /\ UNCHANGED <<rows, known, sockets, invited, loaded, stamp, heard, cut>>

DropMembers(r) ==
  /\ pc[r] = "drop members"
  /\ members' = {}
  /\ Goto(r, "drop messages")
  /\ UNCHANGED <<room, messages, clock, known, sockets, kind, locals, heard, cut, overlaps>>

DropMessages(r) ==
  /\ pc[r] = "drop messages"
  /\ messages' = {}
  /\ Goto(r, "drop room")
  /\ UNCHANGED <<room, members, clock, known, sockets, kind, locals, heard, cut, overlaps>>

\* Whatever was inserted meanwhile goes with the room.
DropRoom(r) ==
  /\ pc[r] = "drop room"
  /\ room' = FALSE
  /\ members' = {}
  /\ messages' = {}
  /\ Goto(r, "reply")
  /\ UNCHANGED <<clock, known, sockets, kind, locals, heard, cut, overlaps>>

-----------------------------------------------------------------------------
(* How a request ends *)

\* createRoom, addMembersToRoom and renameRoom read the room once more for their
\* answer; it must be there still.
Reply(r) ==
  /\ pc[r] = "reply"
  /\ kind[r] \in {"create", "add", "rename"} => room
  /\ End(r, "ok")
  /\ UNCHANGED <<rows, known, sockets, kind, heard, cut, overlaps>>

\* Any awaited call may throw, before or after it took effect.
Abort(r) ==
  /\ InProgress(r)
  /\ End(r, "error")
  /\ UNCHANGED <<rows, known, sockets, kind, heard, cut, overlaps>>

Step(r) ==
  \/ SaveRoom(r) \/ SaveMembers(r) \/ LoadRoom(r)
  \/ CheckSender(r) \/ InsertMessage(r) \/ EmitMessage(r)
  \/ FindRow(r) \/ FindNoRow(r) \/ SaveRow(r)
  \/ SaveRenamed(r)
  \/ DropMembers(r) \/ DropMessages(r) \/ DropRoom(r)
  \/ Reply(r) \/ Abort(r)

Next ==
  \/ \E r \in Requests :
       \/ Step(r)
       \/ RenameRequest(r) \/ DeleteRequest(r)
       \/ \E u \in Users :
            \/ SendRequest(r, u) \/ MarkRequest(r, u)
            \/ \E body \in Bodies : CreateRequest(r, u, body) \/ AddRequest(r, u, body)
  \/ \E u \in Users : Connect(u) \/ JoinListed(u) \/ Disconnect(u)

Spec == Init /\ [][Next]_vars

-----------------------------------------------------------------------------
(* Properties *)

Row == [by : Requests \cup {None}, user : Users, nth : 1..MaxNamed, read : 0..clock]

\* The rows, the sockets' rooms and the requests' local variables have their types;
\* no lastReadAt lies in the future.
TypeOK ==
  /\ room \in BOOLEAN /\ known \in BOOLEAN
  /\ members \subseteq Row
  /\ messages \subseteq [by : Requests, sender : Users, at : 1..clock]
  /\ clock \in Nat
  /\ online \subseteq Users /\ listed \subseteq online /\ joined \subseteq online
  /\ pc \in [Requests -> Steps \cup {"idle", "ok", "refused", "error"}]
  /\ kind \in [Requests -> Kinds \cup {"none"}]
  /\ user \in [Requests -> Users \cup {None}]
  /\ invited \in [Requests -> SUBSET Mention]
  /\ loaded \in [Requests -> SUBSET Row]
  /\ stamp \in [Requests -> 0..clock \cup {None}]
  /\ heard \subseteq Requests
  /\ cut \subseteq Requests
  /\ overlaps \subseteq Clashes

Apart(k, l) == {k, l} \notin overlaps

Succeeded(r, k) == kind[r] = k /\ pc[r] = "ok"

\* Two rows that one request to add members has inserted, since it named a user twice.
Doubled(m, n) ==
  /\ m.user = n.user /\ m.by = n.by /\ m.nth # n.nth
  /\ m.by \in Requests /\ kind[m.by] = "add"

\* A user is a member once, but for a request to add members that names somebody twice:
\* a creation does not repeat anybody, whatever its list says, nor do two requests one
\* after the other. Two requests that add members at the same time both find the user
\* missing and break it; so does one that finds the rows deleted which a mark or a
\* renaming then saves again.
OneMembership ==
  Apart("add", "add") /\ Apart("mark", "delete") /\ Apart("rename", "delete")
    => \A m, n \in members : m.user = n.user => m = n \/ Doubled(m, n)

\* Nothing is left of a deleted room, whatever was sent, added or marked meanwhile,
\* unless it was being renamed: that saves the room and its members anew.
DeletedRoomIsGone ==
  (\E r \in Requests : Succeeded(r, "delete")) /\ Apart("rename", "delete")
    => ~room /\ members = {} /\ messages = {}

\* A member stays until somebody deletes the room: renaming saves the members that
\* were loaded before and must not lose the ones added since.
MembersAreKept ==
  [][(\A r \in Requests : kind'[r] # "delete")
       => \A m \in members : \E n \in members' : SameRow(m, n)]_vars

\* What was there when a user marked the room as read is not unread again: the user's
\* membership row covers it, or, of several that one request has inserted, at least one
\* that getRoomsForUser may pick. Two marks may be saved in the other order, renaming
\* saves the mark it loaded, a user whom two requests have added has marked one row
\* only, and whoever is added while the room is being deleted starts with a new row,
\* also if the deletion stops half way.
MarkedStaysRead ==
  overlaps = {} =>
  \A r \in Requests : Succeeded(r, "mark") /\ stamp[r] # None =>
    \A m \in members : m.user = user[r] =>
      \E n \in members : (n = m \/ Doubled(m, n)) /\ n.read >= stamp[r]

\* Whoever sends a message gets it, though the socket may have connected before the
\* user became a member, as long as it stays connected.
SenderHears ==
  \A r \in Requests : Succeeded(r, "send") /\ r \notin cut => r \in heard

\* A room has members who can see it, unless creating or deleting it stopped half
\* way, or it was deleted while it was being renamed.
RoomIsReachable ==
  /\ room
  /\ \A r \in Requests : kind[r] \in {"create", "delete"} => pc[r] = "ok"
  /\ Apart("rename", "delete")
  => members # {}
=============================================================================
