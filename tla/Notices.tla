------------------------------ MODULE Notices ------------------------------
(***************************************************************************)
(* From the assignment of a ticket to the mail in the assignee's inbox:    *)
(* NotificationsService consumes ticket.assigned and queues mails on        *)
(* email.notification, EmailService consumes those and sends them.         *)
(*                                                                         *)
(* A topic is a sequence of messages, consumed by each group in order. A   *)
(* consumer whose handler throws is given the same message again. One that *)
(* crashes or loses its partition is followed by another, which goes on at *)
(* the committed offset, or, as long as the group has committed none, at   *)
(* the end of the topic. The broker and the kafkajs runner are modelled as *)
(* the services rely on them.                                              *)
(***************************************************************************)
EXTENDS Naturals, Sequences, FiniteSets

CONSTANTS
  Users,        \* assignees
  Subscribers,  \* users whose settings say receiveEmails
  MaxMessages,  \* bound: tickets that are assigned
  MaxFailures   \* bound: handlers that throw and consumers that crash

ASSUME NoticesAssumption ==
  /\ Subscribers \subseteq Users
  /\ MaxMessages \in Nat
  /\ MaxFailures \in Nat

VARIABLES
  assigned,   \* topic ticket.assigned: the assignee of each message
  outbox,     \* topic email.notification: the offset in assigned each mail is about
  notices,    \* per offset in assigned: how many notifications are stored
  shown,      \* the offsets in assigned whose notification was broadcast
  mails,      \* per offset in outbox: how many times the mail was sent
  position,   \* per group: the offset its consumer handles next, 0 if there is none
  begun,      \* per group: the offset its consumer began at, 0 if there is none
  committed,  \* per group: the offset it goes on at, 0 before the first commit
  skipped,    \* per group, history: unhandled offsets a consumer began behind
  step,       \* per group: how far the handler is
  failures

topics   == <<assigned, outbox>>
effects  == <<notices, shown, mails>>
consumer == <<position, begun, committed, skipped>>
vars == <<topics, effects, consumer, step, failures>>

Notifier == "notifications-system-group"
Mailer   == "email-consumer-group"
Groups   == {Notifier, Mailer}

Offsets     == 1..MaxMessages
MailOffsets == 1..(MaxMessages * (MaxFailures + 1))

\* A new group, or one that has committed an offset before.
Init ==
  /\ assigned = <<>>
  /\ outbox = <<>>
  /\ notices = [o \in Offsets |-> 0]
  /\ shown = {}
  /\ mails = [m \in MailOffsets |-> 0]
  /\ position = [g \in Groups |-> 0]
  /\ begun = [g \in Groups |-> 0]
  /\ committed \in [Groups -> {0, 1}]
  /\ skipped = [g \in Groups |-> {}]
  /\ step = [g \in Groups |-> "ready"]
  /\ failures = 0

Goto(g, s) == step' = [step EXCEPT ![g] = s]

\* TicketsService reports a new assignee.
Assign(u) ==
  /\ Len(assigned) < MaxMessages
  /\ assigned' = Append(assigned, u)
  /\ UNCHANGED <<outbox, effects, consumer, step, failures>>

-----------------------------------------------------------------------------
(* NotificationsService: eachMessage and send *)

\* Faulty variant: the mail is queued before the notification is shown.
StoreThenQueue ==
  LET o == position[Notifier] IN
  /\ step[Notifier] = "ready"
  /\ o \in DOMAIN assigned
  /\ notices' = [notices EXCEPT ![o] = @ + 1]
  /\ Goto(Notifier, "queue")
  /\ UNCHANGED <<topics, shown, mails, consumer, failures>>

Store ==
  LET o == position[Notifier] IN
  /\ step[Notifier] = "ready"
  /\ o \in DOMAIN assigned
  /\ notices' = [notices EXCEPT ![o] = @ + 1]
  /\ Goto(Notifier, "stored")
  /\ UNCHANGED <<topics, shown, mails, consumer, failures>>

\* The notification goes to every socket, then the assignee's settings are read.
Broadcast ==
  LET o == position[Notifier] IN
  /\ step[Notifier] = "stored"
  /\ shown' = shown \cup {o}
  /\ Goto(Notifier, IF assigned[o] \in Subscribers THEN "queue" ELSE "done")
  /\ UNCHANGED <<topics, notices, mails, consumer, failures>>

QueueMail ==
  /\ step[Notifier] = "queue"
  /\ outbox' = Append(outbox, position[Notifier])
  /\ Goto(Notifier, "done")
  /\ UNCHANGED <<assigned, effects, consumer, failures>>

-----------------------------------------------------------------------------
(* EmailService: eachMessage *)

SendMail ==
  LET m == position[Mailer] IN
  /\ step[Mailer] = "ready"
  /\ m \in DOMAIN outbox
  /\ mails' = [mails EXCEPT ![m] = @ + 1]
  /\ Goto(Mailer, "done")
  /\ UNCHANGED <<topics, notices, shown, consumer, failures>>

-----------------------------------------------------------------------------
(* The consumers *)

\* What handling the message at an offset leaves behind.
Queued(o) == \E m \in DOMAIN outbox : outbox[m] = o
Notified(o) ==
  /\ o \in shown
  /\ notices[o] > 0
  /\ assigned[o] \in Subscribers => Queued(o)
Unhandled(g) ==
  IF g = Notifier THEN {o \in DOMAIN assigned : ~Notified(o)}
                  ELSE {m \in DOMAIN outbox : mails[m] = 0}

Behind(g) == 1 + IF g = Notifier THEN Len(assigned) ELSE Len(outbox)

\* A consumer joins, in this process or another. It goes on at the committed offset, and
\* without one behind the last message, since no subscription says fromBeginning.
Join(g) ==
  /\ position[g] = 0
  /\ position' = [position EXCEPT ![g] = IF committed[g] = 0 THEN Behind(g) ELSE committed[g]]
  /\ begun' = [begun EXCEPT ![g] = position'[g]]
  /\ skipped' = IF committed[g] = 0 THEN [skipped EXCEPT ![g] = @ \cup Unhandled(g)] ELSE skipped
  /\ UNCHANGED <<topics, effects, committed, step, failures>>

\* Faulty variant: the same message again.
ResolveInPlace(g) ==
  /\ step[g] = "done"
  /\ Goto(g, "ready")
  /\ UNCHANGED <<topics, effects, consumer, failures>>

\* The handler has returned: the next message is its turn.
Resolve(g) ==
  /\ step[g] = "done"
  /\ position' = [position EXCEPT ![g] = @ + 1]
  /\ Goto(g, "ready")
  /\ UNCHANGED <<topics, effects, begun, committed, skipped, failures>>

\* Offsets of handled messages are committed now and then.
Commit(g) ==
  /\ position[g] > begun[g]
  /\ committed[g] # position[g]
  /\ committed' = [committed EXCEPT ![g] = position[g]]
  /\ UNCHANGED <<topics, effects, position, begun, skipped, step, failures>>

\* Faulty variant: the handler catches the error and returns.
ThrowCaught(g) ==
  /\ step[g] # "ready"
  /\ failures < MaxFailures
  /\ failures' = failures + 1
  /\ Goto(g, "done")
  /\ UNCHANGED <<topics, effects, consumer>>

\* A call of the handler throws, before or after it took effect.
Throw(g) ==
  /\ step[g] # "ready"
  /\ failures < MaxFailures
  /\ failures' = failures + 1
  /\ Goto(g, "ready")
  /\ UNCHANGED <<topics, effects, consumer>>

\* The process dies, or the partition is given to another one.
Crash(g) ==
  /\ position[g] # 0
  /\ failures < MaxFailures
  /\ failures' = failures + 1
  /\ position' = [position EXCEPT ![g] = 0]
  /\ begun' = [begun EXCEPT ![g] = 0]
  /\ Goto(g, "ready")
  /\ UNCHANGED <<topics, effects, committed, skipped>>

Handle(g) ==
  \/ g = Notifier /\ (Store \/ Broadcast \/ QueueMail)
  \/ g = Mailer /\ SendMail
  \/ Resolve(g)

Next ==
  \/ \E u \in Users : Assign(u)
  \/ \E g \in Groups : Handle(g) \/ Join(g) \/ Commit(g) \/ Throw(g) \/ Crash(g)

Spec == Init /\ [][Next]_vars

\* A group gets a consumer again, and the runner hands it the next message as long as
\* there is one.
FairSpec == Spec /\ \A g \in Groups : WF_vars(Handle(g)) /\ WF_vars(Join(g))

-----------------------------------------------------------------------------
(* Properties *)

\* The topics, the stored notifications and the groups' offsets have their types.
TypeOK ==
  /\ assigned \in Seq(Users) /\ Len(assigned) <= MaxMessages
  /\ outbox \in Seq(Offsets)
  /\ notices \in [Offsets -> Nat]
  /\ shown \subseteq Offsets
  /\ mails \in [MailOffsets -> Nat]
  /\ position \in [Groups -> Nat]
  /\ begun \in [Groups -> Nat]
  /\ committed \in [Groups -> Nat]
  /\ skipped \in [Groups -> SUBSET Nat]
  /\ step \in [Groups -> {"ready", "stored", "queue", "done"}]
  /\ failures \in 0..MaxFailures

\* What a group is past, or goes on behind after a crash, was handled to the end, unless
\* a consumer began behind it before the group's first commit. From that commit on
\* nothing more is missed: the committed offset lies behind all that was.
CommittedIsHandled ==
  /\ TypeOK
  /\ \A o \in Offsets : o < position[Notifier] \/ o < committed[Notifier] =>
       o \in skipped[Notifier] \/ Notified(o)
  /\ \A m \in MailOffsets : m < position[Mailer] \/ m < committed[Mailer] =>
       m \in skipped[Mailer] \/ mails[m] > 0
  /\ \A g \in Groups : committed[g] # 0 => \A n \in skipped[g] : n < committed[g]

\* Repetition has a price: a notification is stored, and a queued mail is sent, at
\* most once more than handlers have thrown and consumers have crashed.
RepeatsNeedFailures ==
  /\ \A o \in Offsets : notices[o] <= 1 + failures
  /\ \A m \in MailOffsets : mails[m] <= 1 + failures

\* A mail is queued only after the notification it repeats was stored and shown, and
\* after the mails of all earlier assignments that the group has not begun behind, even
\* when a consumer goes back.
MailsKeepTheOrder ==
  \A m \in DOMAIN outbox :
    /\ outbox[m] \in shown
    /\ \A o \in 1..(outbox[m] - 1) :
         assigned[o] \in Subscribers =>
           o \in skipped[Notifier] \/ \E l \in 1..(m - 1) : outbox[l] = o

\* Every assignment of a subscriber ends in a mail, as long as failures stop, unless one
\* of the groups began behind it, or behind its mail, before its first commit.
AssignmentIsMailed ==
  \A o \in Offsets :
    o \in DOMAIN assigned /\ assigned[o] \in Subscribers
      ~> \/ o \in skipped[Notifier]
         \/ \E m \in DOMAIN outbox : outbox[m] = o /\ (mails[m] > 0 \/ m \in skipped[Mailer])

=============================================================================
